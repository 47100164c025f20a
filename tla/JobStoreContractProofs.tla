----------------------- MODULE JobStoreContractProofs -----------------------
(***************************************************************************)
(* JobStore.tla implements TaskContract.tla, for every number of jobs,     *)
(* workers, requests, crashes and I/O errors.  The argument rests on the   *)
(* invariant of JobStoreProofs.tla: a rename out of pending/ or running/   *)
(* moves the only copy, and a copy that may be run has its run to come.    *)
(*                                                                         *)
(* The second part is about a record on its way through the buckets:       *)
(* consent alone reopens a job that began its work, a cancellation that    *)
(* was acknowledged never ends in success, and the starts of a job are     *)
(* bounded.  It brings every operation of the queue into one of five       *)
(* forms; each theorem then goes through the forms.                        *)
(***************************************************************************)
EXTENDS JobStoreProofs

\* A step that leaves every set of copies alone leaves the contract alone.
LEMMA SameCopiesSameState ==
    ASSUME \A j \in Jobs : Copies(j)' = Copies(j), UNCHANGED <<runs, resumes>>
    PROVE  UNCHANGED Contract!contractVars
<1>1. TaskState' = TaskState
  BY DEF TaskState
<1> QED
  BY <1>1 DEF Contract!contractVars

\* When only the copies of one job change, so does only its state.
LEMMA OneStateChanges ==
    ASSUME NEW j \in Jobs, \A i \in Jobs \ {j} : files'[i] = files[i]
    PROVE  TaskState' = [TaskState EXCEPT ![j] = TaskState'[j]]
<1>1. \A i \in Jobs \ {j} : Copies(i)' = Copies(i)
  BY DEF Copies
<1>2. \A i \in Jobs \ {j} : TaskState'[i] = TaskState[i]
  BY <1>1 DEF TaskState
<1> QED
  BY <1>2 DEF TaskState

\* Renaming the only copy, or a waiting one, takes the contract's step.
LEMMA RenameKeepsContract ==
    ASSUME Inv, NEW j \in Jobs, Rename(j)
    PROVE  Contract!ContractNext \/ UNCHANGED Contract!contractVars
<1> USE DEF Inv
<1> DEFINE from == op[j].from
           to == op[j].to
           was == TaskState[j]
           now == TaskState'[j]
<1>1. /\ runs[j] \in Nat /\ resumes[j] \in Nat /\ UNCHANGED <<runs, resumes>>
  BY BoundsAreNatural DEF StoreTypeOK, Rename, history
<1>2. RenameReady(j) /\ ClaimReady(j) /\ CopiesAgree(j)
  BY DEF MovesAreSound
<1>3. from \in Copies(j) /\ from \in Buckets /\ to \in Buckets /\ from # to
  BY <1>2 DEF Rename, StoreTypeOK, Operation, NoOp, RenameReady, ClaimReady, Sole, Copies
<1>4. Copies(j)' = (Copies(j) \ {from}) \cup {to}
  <2>1. /\ files'[j][to] = files[j][from] /\ files'[j][from] = Absent
        /\ \A b \in Buckets \ {from, to} : files'[j][b] = files[j][b]
    BY <1>3 DEF Rename, StoreTypeOK
  <2> QED
    BY <1>3, <2>1 DEF Copies
<1>5. TaskState' = [TaskState EXCEPT ![j] = now]
  <2>1. \A i \in Jobs \ {j} : files'[i] = files[i]
    BY DEF Rename, StoreTypeOK
  <2> QED
    BY <2>1, OneStateChanges
<1>6. ASSUME now = was PROVE UNCHANGED Contract!contractVars
  BY <1>1, <1>5, <1>6 DEF Contract!contractVars, TaskState
<1>7. CASE to = "done"
  <2>1. now = "ended" /\ was \in {"ended", "queued", "held", "active"}
    BY <1>3, <1>4, <1>7 DEF TaskState, Buckets
  <2> QED
    BY <1>1, <1>5, <1>6, <2>1 DEF Contract!ContractNext, Contract!End, Contract!Become
<1>8. CASE to = "pending"
  <2>1. runs[j] <= resumes[j]
    BY <1>2, <1>3, <1>8 DEF Rename, RenameReady, ClaimReady, CopiesAgree, ReplaySafe
  <2>2. now = was \/ (now = "queued" /\ was \in {"held", "active"})
    <3>1. from # "done"
      BY <1>2 DEF Rename, RenameReady, ClaimReady
    <3> QED
      BY <1>3, <1>4, <1>8, <3>1 DEF TaskState, Buckets
  <2>3. CASE now = "queued" /\ was \in {"held", "active"}
    <3>1. Contract!GiveBack({j})
      BY <1>1, <1>5, <2>1, <2>3 DEF Contract!GiveBack, Contract!Unbegun, TaskState
    <3> QED
      BY <3>1 DEF Contract!ContractNext
  <2> QED
    BY <1>6, <2>2, <2>3
<1>9. CASE to = "waiting"
  <2>1. was = "active" /\ now = "held"
    BY <1>2, <1>3, <1>4, <1>9 DEF Rename, RenameReady, ClaimReady, Sole, TaskState, Buckets
  <2> QED
    BY <1>1, <1>5, <2>1 DEF Contract!ContractNext, Contract!Hold, Contract!Become
<1>10. CASE to = "running"
  <2>1. Sole(j, "pending") /\ Startable(files[j]["pending"])
    BY <1>2, <1>10 DEF Rename, RenameReady, ClaimReady
  <2>2. was = "queued" /\ now = "active"
    BY <1>2, <1>3, <1>4, <1>10, <2>1 DEF Sole, TaskState, Buckets
  <2>3. runs[j] <= resumes[j]
    BY <1>2, <2>1 DEF CopiesAgree, Sole, Startable, ReplaySafe
  <2> QED
    BY <1>1, <1>5, <2>2, <2>3
    DEF Contract!ContractNext, Contract!Start, Contract!Become, Contract!Unbegun
<1> QED
  BY <1>3, <1>7, <1>8, <1>9, <1>10 DEF Buckets

\* Removing a copy next to the one to keep leaves the task where it was or,
\* when nothing of it has begun, moves it from queued or held to held or active.
LEMMA RemovalKeepsContract ==
    ASSUME Inv, NEW j \in Jobs, RemoveDuplicate(j)
    PROVE  Contract!ContractNext \/ UNCHANGED Contract!contractVars
<1> USE DEF Inv
<1> DEFINE to == op[j].to
           was == TaskState[j]
           now == TaskState'[j]
<1>1. /\ runs[j] \in Nat /\ resumes[j] \in Nat /\ UNCHANGED <<runs, resumes>>
  BY BoundsAreNatural DEF StoreTypeOK, RemoveDuplicate, history
<1>2. PICK b \in op[j].drop : files' = [files EXCEPT ![j][b] = Absent]
  BY DEF RemoveDuplicate
<1>3. /\ to \in Copies(j) /\ to \in Buckets /\ b # to
      /\ to # "done" => b # "done" /\ runs[j] <= resumes[j]
  BY <1>2 DEF MovesAreSound, RemoveDuplicate, RemoveReady, CopiesAgree, Copies
<1>4. b \in Buckets
  <2>1. op[j].step = "remove" /\ op[j] \in Operation \cup {NoOp}
    BY DEF RemoveDuplicate, StoreTypeOK
  <2>2. op[j] \in Operation
    BY <2>1 DEF NoOp
  <2> QED
    BY <1>2, <2>2 DEF Operation
<1>5. Copies(j)' = Copies(j) \ {b}
  BY <1>2, <1>4 DEF Copies, StoreTypeOK
<1>6. TaskState' = [TaskState EXCEPT ![j] = now]
  <2>1. \A i \in Jobs \ {j} : files'[i] = files[i]
    BY <1>2 DEF StoreTypeOK
  <2> QED
    BY <2>1, OneStateChanges
<1>7. ASSUME now = was PROVE UNCHANGED Contract!contractVars
  BY <1>1, <1>6, <1>7 DEF Contract!contractVars, TaskState
<1>8. CASE "done" \in Copies(j)
  <2>1. now = was
    BY <1>3, <1>5, <1>8 DEF TaskState
  <2> QED
    BY <1>7, <2>1
<1>9. CASE "done" \notin Copies(j)
  <2>1. to # "done" /\ runs[j] <= resumes[j]
    BY <1>3, <1>9
  <2>2. \/ now = was
        \/ was \in {"queued", "held"} /\ now = "active"
        \/ was = "queued" /\ now = "held"
    <3>1. b \in {"pending", "waiting", "running"} /\ to \in {"pending", "waiting", "running"} \ {b}
      BY <1>3, <1>4, <1>9, <2>1 DEF Buckets
    <3> HIDE DEF to
    <3> QED
      BY <1>3, <1>5, <1>9, <3>1 DEF TaskState
  <2>3. CASE was \in {"queued", "held"} /\ now = "active"
    BY <1>1, <1>6, <2>1, <2>3
    DEF Contract!ContractNext, Contract!Start, Contract!Become, Contract!Unbegun
  <2>4. CASE was = "queued" /\ now = "held"
    BY <1>1, <1>6, <2>4 DEF Contract!ContractNext, Contract!Hold, Contract!Become
  <2> QED
    BY <1>7, <2>2, <2>3, <2>4
<1> QED
  BY <1>8, <1>9

\* What reconciliation does to the buckets that hold a copy of the job.
LEMMA ReconcileCopies ==
    ASSUME Inv, NEW j \in Jobs, ReconcileDuplicates(j) \/ ReconcileMoved(j)
    PROVE  /\ Copies(j) # {} /\ UNCHANGED <<runs, resumes>>
           /\ files' = files \/ "done" \in Copies(j)'
           /\ \A i \in Jobs \ {j} : files'[i] = files[i]
           /\ "done" \in Copies(j) => "done" \in Copies(j)'
<1> USE DEF Inv
<1>1. Copies(j) # {} /\ \E S \in SUBSET Buckets : Reconcile(j, S)
  BY ScansFindJobs
<1>2. PICK S \in SUBSET Buckets : Reconcile(j, S)
  BY <1>1
<1>3. PICK v \in Record : files' = files \/ files' = [files EXCEPT ![j]["done"] = v]
  BY <1>2, ReconcileGives
<1>4. CASE files' = files
  BY <1>1, <1>2, <1>4 DEF Reconcile, Copies, history
<1>5. CASE files' = [files EXCEPT ![j]["done"] = v]
  <2>1. "done" \in Copies(j)'
    BY <1>5, AbsentIsNoRecord DEF Copies, StoreTypeOK, Buckets
  <2> QED
    BY <1>1, <1>2, <1>5, <2>1 DEF Reconcile, StoreTypeOK, history
<1> QED
  BY <1>3, <1>4, <1>5

\* Setting duplicates aside ends the task or changes nothing.
LEMMA ReconcileKeepsContract ==
    ASSUME Inv, NEW j \in Jobs, ReconcileDuplicates(j) \/ ReconcileMoved(j)
    PROVE  Contract!ContractNext \/ UNCHANGED Contract!contractVars
<1> DEFINE was == TaskState[j]
           now == TaskState'[j]
<1>1. /\ Copies(j) # {} /\ UNCHANGED <<runs, resumes>>
      /\ files' = files \/ "done" \in Copies(j)'
      /\ \A i \in Jobs \ {j} : files'[i] = files[i]
  BY ReconcileCopies
<1>2. TaskState' = [TaskState EXCEPT ![j] = now]
  BY <1>1, OneStateChanges
<1>3. CASE "done" \in Copies(j)'
  <2>1. Copies(j) \subseteq Buckets
    BY DEF Copies
  <2>2. now = "ended" /\ was \in {"ended", "queued", "held", "active"}
    BY <1>1, <1>3, <2>1 DEF TaskState, Buckets
  <2>3. CASE was = "ended"
    BY <1>1, <1>2, <2>2, <2>3 DEF Contract!contractVars, TaskState
  <2> QED
    BY <1>1, <1>2, <2>2, <2>3 DEF Contract!ContractNext, Contract!End, Contract!Become
<1>4. CASE files' = files
  <2>1. \A i \in Jobs : Copies(i)' = Copies(i)
    BY <1>4 DEF Copies
  <2> QED
    BY <1>1, <2>1, SameCopiesSameState
<1> QED
  BY <1>1, <1>3, <1>4

\* Consent is recorded while the task is held, or after it ended.
LEMMA ResumeKeepsContract ==
    ASSUME Inv, NEW j \in Jobs, ReconcileWaiting(j), Resume(j)
    PROVE  Contract!ContractNext
<1> USE DEF Inv
<1> DEFINE r == files[j]["waiting"]
<1>1. "waiting" \in Copies(j) /\ r \in Record
  BY CopiesAreRecords DEF ReconcileWaiting, Copies, Buckets
<1>2. \A i \in Jobs : Copies(i)' = Copies(i)
  <2>1. files' = [files EXCEPT ![j]["waiting"] = Resumed(r)]
    BY DEF Resume, MoveWith
  <2>2. Resumed(r) \in Record
    BY <1>1, TransformsKeepShape
  <2> HIDE DEF r
  <2> QED
    BY <1>1, <2>1, <2>2, AbsentIsNoRecord DEF Copies, StoreTypeOK
<1>3. TaskState' = TaskState
  BY <1>2 DEF TaskState
<1>4. resumes' = [resumes EXCEPT ![j] = @ + 1] /\ runs' = runs
  BY DEF Resume, ReconcileWaiting
<1>5. ~WaitSettled(r)
  <2>1. op'[j].to = "pending"
    BY DEF Resume, MoveWith, StoreTypeOK
  <2>2. ~FailWaiting(j)
    BY <2>1 DEF FailWaiting, MoveWith, StoreTypeOK
  <2> QED
    BY <2>2 DEF ReconcileWaiting, WaitSettled, ValidWait
<1>6. TaskState[j] \in {"held", "ended"}
  BY <1>1, <1>5 DEF MovesAreSound, CopiesAgree, TaskState
<1> QED
  BY <1>3, <1>4, <1>6 DEF Contract!ContractNext, Contract!Consent

\* A move's first step rewrites a copy in place.
LEMMA MoveKeepsCopies ==
    ASSUME StoreTypeOK, NEW j \in Jobs, NEW from \in Copies(j), NEW to, NEW r \in Record,
           NEW by, MoveWith(j, from, to, r, by)
    PROVE  \A i \in Jobs : Copies(i)' = Copies(i)
    BY AbsentIsNoRecord DEF MoveWith, Copies, StoreTypeOK

\* So does settling an interrupted run.
LEMMA SettleKeepsCopies ==
    ASSUME StoreTypeOK, NEW j \in Jobs, NEW by, Sole(j, "running"), SettleInterrupted(j, by)
    PROVE  \A i \in Jobs : Copies(i)' = Copies(i)
<1> DEFINE r == files[j]["running"]
<1>1. "running" \in Copies(j) /\ r \in Record
  BY CopiesAreRecords DEF Sole
<1>2. /\ Cancelled(r) \in Record /\ Suspended(r) \in Record
      /\ Indeterminate(r) \in Record /\ Counted(r) \in Record
  BY <1>1, TransformsKeepShape
<1>3. Failed(Counted(r)) \in Record /\ Requeued(Counted(r)) \in Record
  BY <1>2, TransformsKeepShape
<1>4. \E to \in Buckets, s \in Record : MoveWith(j, "running", to, s, by)
  BY <1>2, <1>3 DEF SettleInterrupted, Buckets
<1> QED
  BY <1>1, <1>4, MoveKeepsCopies

\* Every other operation of the queue rewrites records where they are.
LEMMA QuietSteps ==
    ASSUME Inv, NEW j \in Jobs,
           \/ Synced(j) \/ OpFails(j) \/ ClaimWrite(j) \/ ScanReads(j)
           \/ RequestCancel(j) \/ Claim(j) \/ ClaimRefused(j) \/ Recover(j)
           \/ RecoverUnverifiable(j) \/ EightHoursPass(j)
           \/ ReconcileWaiting(j) /\ FailWaiting(j)
    PROVE  /\ \A i \in Jobs : Copies(i)' = Copies(i)
           /\ UNCHANGED <<runs, resumes>>
<1> USE DEF Inv
<1>1. UNCHANGED <<runs, resumes>>
  BY DEF Synced, OpFails, ClaimWrite, ScanReads, RequestCancel, Claim, ClaimRefused, Recover,
         RecoverUnverifiable, EightHoursPass, ReconcileWaiting, FailWaiting, history
<1>2. CASE Synced(j) \/ OpFails(j) \/ ScanReads(j) \/ Claim(j) \/ EightHoursPass(j)
  BY <1>1, <1>2 DEF Synced, OpFails, ScanReads, Claim, EightHoursPass, Copies
<1>3. CASE ClaimWrite(j)
  <2>1. files[j]["running"] \in Record /\ "running" \in Copies(j)
    BY <1>3, CopiesAreRecords DEF ClaimWrite, MovesAreSound, ClaimReady, Sole
  <2>2. ClaimedBy(files[j]["running"], incarnation) \in Record
    BY <2>1, ClaimKeepsShape DEF StoreTypeOK
  <2> QED
    BY <1>1, <1>3, <2>1, <2>2, AbsentIsNoRecord DEF ClaimWrite, Copies, StoreTypeOK
<1>4. CASE RequestCancel(j)
  <2>1. CASE CancelRunning(j)
    <3>1. "running" \in Copies(j) /\ files[j]["running"] \in Record
      BY <2>1, CopiesAreRecords DEF CancelRunning, Sole
    <3>2. [files[j]["running"] EXCEPT !.cancel = TRUE] \in Record
      BY <3>1 DEF Record
    <3> QED
      BY <1>1, <2>1, <3>1, <3>2, AbsentIsNoRecord DEF CancelRunning, Copies, StoreTypeOK
  <2>2. CASE CancelPending(j) \/ CancelWaiting(j)
    <3>1. PICK from \in {"pending", "waiting"} :
             \E s \in {[Ended(files[j][from]) EXCEPT !.cancel = TRUE],
                       [Cancelled(files[j][from]) EXCEPT !.cancel = TRUE]} :
                 Sole(j, from) /\ MoveWith(j, from, "done", s, NoProcess)
      BY <2>2 DEF CancelPending, CancelWaiting
    <3>2. from \in Copies(j) /\ files[j][from] \in Record
      BY <3>1, CopiesAreRecords DEF Sole
    <3>3. /\ [Ended(files[j][from]) EXCEPT !.cancel = TRUE] \in Record
          /\ [Cancelled(files[j][from]) EXCEPT !.cancel = TRUE] \in Record
      BY <3>2, TransformsKeepShape
    <3> QED
      BY <1>1, <3>1, <3>2, <3>3, MoveKeepsCopies
  <2> QED
    BY <1>4, <2>1, <2>2 DEF RequestCancel
<1>5. CASE ClaimRefused(j) \/ RecoverUnverifiable(j)
  <2>1. PICK from \in {"pending", "running"} :
           \E s \in {Indeterminate(files[j][from]), Failed(files[j][from]),
                     Ended(files[j][from])} :
           Sole(j, from) /\ MoveWith(j, from, "done", s, NoProcess)
    BY <1>5 DEF ClaimRefused, RecoverUnverifiable
  <2>2. from \in Copies(j) /\ files[j][from] \in Record
    BY <2>1, CopiesAreRecords DEF Sole
  <2>3. /\ Indeterminate(files[j][from]) \in Record /\ Failed(files[j][from]) \in Record
        /\ Ended(files[j][from]) \in Record
    BY <2>2, TransformsKeepShape
  <2> QED
    BY <1>1, <2>1, <2>2, <2>3, MoveKeepsCopies
<1>6. CASE Recover(j)
  BY <1>1, <1>6, SettleKeepsCopies DEF Recover
<1>7. CASE ReconcileWaiting(j) /\ FailWaiting(j)
  <2>1. "waiting" \in Copies(j) /\ files[j]["waiting"] \in Record
    BY <1>7, CopiesAreRecords DEF ReconcileWaiting, Copies, Buckets
  <2>2. Failed(files[j]["waiting"]) \in Record
    BY <2>1, TransformsKeepShape
  <2> QED
    BY <1>1, <1>7, <2>1, <2>2, MoveKeepsCopies DEF FailWaiting
<1> QED
  BY <1>2, <1>3, <1>4, <1>5, <1>6, <1>7

\* The lease operations rewrite the running record where it is.
LEMMA LeaseKeepsCopies ==
    ASSUME Inv, NEW j \in Jobs, NEW w \in Workers, LeaseStep(j, w)
    PROVE  \A i \in Jobs : Copies(i)' = Copies(i)
<1> USE DEF Inv
<1> DEFINE r == files[j]["running"]
<1>1. ASSUME NEW s \in Record, "running" \in Copies(j), files' = [files EXCEPT ![j]["running"] = s]
      PROVE  \A i \in Jobs : Copies(i)' = Copies(i)
  BY <1>1, AbsentIsNoRecord DEF Copies, StoreTypeOK
<1>2. /\ "running" \in Copies(j) => r \in Record
      /\ Sole(j, "running") => "running" \in Copies(j)
  BY CopiesAreRecords DEF Sole
<1>3. CASE Bind(j, w) \/ Prepare(j, w) \/ Commit(j, w)
  <2>1. "running" \in Copies(j)
    BY <1>2, <1>3 DEF Bind, CanBind, Prepare, CanPrepare, Commit, CanCommit
  <2>2. /\ [r EXCEPT !.worker = w] \in Record
        /\ [r EXCEPT !.phase = "prepared"] \in Record
        /\ [r EXCEPT !.phase = "committed"] \in Record
    BY <1>2, <2>1 DEF Record, Phases
  <2>3. PICK s \in {[r EXCEPT !.worker = w], [r EXCEPT !.phase = "prepared"],
                    [r EXCEPT !.phase = "committed"]} :
           files' = [files EXCEPT ![j]["running"] = s]
    BY <1>3 DEF Bind, Prepare, Commit
  <2> QED
    BY <1>1, <2>1, <2>2, <2>3
<1>4. CASE Release(j, w)
  BY <1>4, SettleKeepsCopies DEF Release
<1>5. ASSUME NEW q \in Requests, RecordWaiting(j, q)
      PROVE  \A i \in Jobs : Copies(i)' = Copies(i)
  <2>1. "running" \in Copies(j)
    BY <1>5 DEF RecordWaiting, CanRecordWaiting, Copies, Buckets
  <2>2. [r EXCEPT !.waitingOn = @ \cup {q}] \in Record
    BY <1>2, <2>1 DEF Record
  <2>3. files' = [files EXCEPT ![j]["running"] = [r EXCEPT !.waitingOn = @ \cup {q}]]
    BY <1>5 DEF RecordWaiting
  <2> QED
    BY <1>1, <2>1, <2>2, <2>3
<1>6. ASSUME NEW o \in Outcomes, NEW asked \in SUBSET Requests, Finish(j, o, asked, w)
      PROVE  \A i \in Jobs : Copies(i)' = Copies(i)
  <2> DEFINE e == Effective(r, o)
  <2>1. e \in Outcomes /\ r \in Record /\ "running" \in Copies(j)
    BY <1>2, <1>6 DEF Finish, Effective, Outcomes
  <2>2. FinishedRecord(r, e, asked) \in Record
    BY <2>1, FinishKeepsShape
  <2>3. \E to : MoveWith(j, "running", to, FinishedRecord(r, e, asked), w)
    BY <1>6 DEF Finish
  <2> HIDE DEF e, r
  <2> QED
    BY <2>1, <2>2, <2>3, MoveKeepsCopies
<1> QED
  BY <1>3, <1>4, <1>5, <1>6 DEF LeaseStep

\* Of the lease operations only the commit is seen: the work begins.
LEMMA LeaseKeepsContract ==
    ASSUME Inv, NEW j \in Jobs, NEW w \in Workers, LeaseStep(j, w)
    PROVE  Contract!ContractNext \/ UNCHANGED Contract!contractVars
<1> USE DEF Inv
<1>1. \A i \in Jobs : Copies(i)' = Copies(i)
  BY LeaseKeepsCopies
<1>2. CASE Commit(j, w)
  <2>1. TaskState' = TaskState
    BY <1>1 DEF TaskState
  <2>2. TaskState[j] = "active" /\ "running" \in Copies(j)
    BY <1>2 DEF Commit, CanCommit, Sole, TaskState
  <2>3. runs[j] <= resumes[j]
    BY <1>2, <2>2 DEF Commit, CanCommit, MovesAreSound, CopiesAgree, ReplaySafe
  <2> QED
    BY <1>2, <2>1, <2>2, <2>3
    DEF Commit, Contract!ContractNext, Contract!Begin, Contract!Unbegun
<1>3. CASE ~Commit(j, w)
  <2>1. UNCHANGED <<runs, resumes>>
    BY <1>3 DEF LeaseStep, Bind, Prepare, Release, RecordWaiting, Finish, history
  <2> QED
    BY <1>1, <2>1, SameCopiesSameState
<1> QED
  BY <1>2, <1>3

\* A power loss during claims offers those tasks again: they had not begun.
LEMMA RestartKeepsContract ==
    ASSUME Inv, Restart
    PROVE  Contract!ContractNext
<1> USE DEF Inv, MovesAreSound
<1>1. UNCHANGED <<runs, resumes>>
  BY DEF Restart, history
<1>2. PICK back \in SUBSET Jobs : files' = [j \in Jobs |-> AfterRestart(j, back)]
  BY DEF Restart
<1> DEFINE T == {j \in back : op[j].step = "claim_sync"}
<1>3. ASSUME NEW j \in T
      PROVE  j \in Jobs /\ TaskState[j] = "active" /\ TaskState'[j] = "queued"
             /\ runs[j] <= resumes[j]
  <2>1. /\ Sole(j, "running") /\ Startable(files[j]["running"])
        /\ op[j].from = "pending" /\ op[j].to = "running"
    BY <1>3 DEF ClaimReady
  <2>2. files'[j] = [files[j] EXCEPT !["pending"] = files[j]["running"]]
    BY <1>2, <1>3, <2>1 DEF AfterRestart, NoOp
  <2>3. "pending" \in Copies(j)' /\ "done" \notin Copies(j)'
    BY <1>3, <2>1, <2>2 DEF Sole, Copies, StoreTypeOK, Buckets
  <2> QED
    BY <1>3, <2>1, <2>3 DEF TaskState, Sole, Startable, CopiesAgree, ReplaySafe
<1>4. ASSUME NEW j \in Jobs \ T
      PROVE  TaskState'[j] = TaskState[j]
  <2>1. CASE files'[j] = files[j]
    BY <2>1 DEF TaskState, Copies
  <2>2. CASE files'[j] # files[j]
    <3> DEFINE from == op[j].from
               to == op[j].to
    <3>1. /\ op[j].step = "sync"
          /\ files'[j] = [files[j] EXCEPT ![from] = files[j][to]]
      BY <1>2, <1>4, <2>2 DEF AfterRestart
    <3>2. /\ from \in Buckets /\ to \in Copies(j) /\ from \notin {to, "done"} /\ to # "running"
          /\ from \notin {"waiting", "done"} => Sole(j, to)
          /\ to = "waiting" => from = "running"
      BY <3>1 DEF SyncReady, StoreTypeOK, Operation, NoOp
    <3>3. Copies(j)' = Copies(j) \cup {from}
      BY <3>1, <3>2 DEF Copies, StoreTypeOK
    <3>4. from # "pending" \/ to = "done"
      BY <3>1, <3>2 DEF Copies, Buckets
    <3> QED
      BY <3>2, <3>3, <3>4 DEF TaskState, Copies, Buckets, Sole
  <2> QED
    BY <2>1, <2>2
<1> HIDE DEF T
<1>5. T \in SUBSET Jobs
  BY <1>3
<1>6. TaskState' = [j \in Jobs |-> IF j \in T THEN "queued" ELSE TaskState[j]]
  BY <1>3, <1>4 DEF TaskState
<1>7. Contract!GiveBack(T)
  BY <1>1, <1>3, <1>6 DEF Contract!GiveBack, Contract!Unbegun
<1> QED
  BY <1>5, <1>7 DEF Contract!ContractNext

\* Submission is the contract's acceptance.
LEMMA SubmitKeepsContract ==
    ASSUME Inv, NEW j \in Jobs, Submit(j)
    PROVE  Contract!ContractNext
<1> USE DEF Inv
<1>1. files'[j] = [files[j] EXCEPT !["pending"] = NewRecord] /\ NewRecord # Absent
  BY DEF Submit, StoreTypeOK, NewRecord, Absent
<1>2. Copies(j) = {} /\ Copies(j)' = {"pending"}
  BY <1>1 DEF Submit, Copies, StoreTypeOK, Buckets
<1>3. \A i \in Jobs \ {j} : files'[i] = files[i]
  BY DEF Submit, StoreTypeOK
<1>4. TaskState' = [TaskState EXCEPT ![j] = TaskState'[j]]
  BY <1>3, OneStateChanges
<1>5. TaskState[j] = "none" /\ TaskState'[j] = "queued"
  BY <1>2 DEF TaskState
<1> QED
  BY <1>4, <1>5 DEF Submit, history, Contract!ContractNext, Contract!Accept, Contract!Become

\* Initially no task exists.
LEMMA ContractStarts == StoreInit => Contract!ContractInit
<1> SUFFICES ASSUME StoreInit PROVE Contract!ContractInit
  OBVIOUS
<1>1. \A j \in Jobs : Copies(j) = {}
  BY DEF StoreInit, Copies
<1>2. TaskState = [j \in Jobs |-> "none"]
  BY <1>1 DEF TaskState
<1> QED
  BY <1>2 DEF StoreInit, Contract!ContractInit

\* Every step of the store is a step of the contract or leaves it alone.
LEMMA ContractSteps ==
    Inv /\ [StoreNext]_storeVars => [Contract!ContractNext]_Contract!contractVars
<1> SUFFICES ASSUME Inv, [StoreNext]_storeVars
             PROVE  Contract!ContractNext \/ UNCHANGED Contract!contractVars
  OBVIOUS
<1>1. ASSUME NEW j \in Jobs, FileStep(j)
      PROVE  Contract!ContractNext \/ UNCHANGED Contract!contractVars
  BY <1>1, RenameKeepsContract, RemovalKeepsContract, QuietSteps, SameCopiesSameState
  DEF FileStep
<1>2. ASSUME NEW j \in Jobs, QueueStep(j)
      PROVE  Contract!ContractNext \/ UNCHANGED Contract!contractVars
  <2>1. CASE Submit(j)
    BY <2>1, SubmitKeepsContract
  <2>2. CASE ReconcileDuplicates(j) \/ ReconcileMoved(j)
    BY <2>2, ReconcileKeepsContract
  <2>3. CASE ReconcileWaiting(j)
    <3>1. FailWaiting(j) \/ Resume(j)
      BY <2>3 DEF ReconcileWaiting
    <3> QED
      BY <2>3, <3>1, ResumeKeepsContract, QuietSteps, SameCopiesSameState
  <2>4. CASE \/ RequestCancel(j) \/ Claim(j) \/ ClaimRefused(j) \/ Recover(j)
             \/ RecoverUnverifiable(j) \/ EightHoursPass(j)
    BY <2>4, QuietSteps, SameCopiesSameState
  <2> QED
    BY <1>2, <2>1, <2>2, <2>3, <2>4 DEF QueueStep
<1>3. ASSUME NEW j \in Jobs, NEW w \in Workers, LeaseStep(j, w)
      PROVE  Contract!ContractNext \/ UNCHANGED Contract!contractVars
  BY <1>3, LeaseKeepsContract
<1>4. CASE \/ \E w \in Workers : WorkerStarts(w) \/ WorkerExits(w)
           \/ \E q \in Requests : File(q) \/ Decide(q) \/ Spend(q)
           \/ (\E S \in SUBSET Requests : Withdraw(S)) \/ FailsEarly
           \/ UNCHANGED storeVars
  <2>1. UNCHANGED <<files, runs, resumes>>
    BY <1>4 DEF WorkerStarts, WorkerExits, File, Decide, Spend, Withdraw, FailsEarly, history, storeVars
  <2>2. \A j \in Jobs : Copies(j)' = Copies(j)
    BY <2>1 DEF Copies
  <2> QED
    BY <2>1, <2>2, SameCopiesSameState
<1>5. CASE Restart
  BY <1>5, RestartKeepsContract
<1> QED
  BY <1>1, <1>2, <1>3, <1>4, <1>5 DEF StoreNext

\* The queue of files, with its two-step moves, crashes, power losses and
\* removals of duplicates, implements the contract of the task: work that
\* began is not offered again without consent, and what ended stays ended.
THEOREM StoreImplementsContract == StoreSpec => KeepsContract
<1>1. StoreSpec => []Inv
  BY StoreInvariant
<1> QED
  BY <1>1, ContractStarts, ContractSteps, PTL
  DEF StoreSpec, KeepsContract, Contract!ContractSpec

-----------------------------------------------------------------------------
\* Records are never lost, and a terminal record is final.

\* What each step does to the buckets that hold a copy of a job.
LEMMA CopiesSurvive ==
    ASSUME Inv, [StoreNext]_storeVars, NEW i \in Jobs
    PROVE  /\ Copies(i) # {} => Copies(i)' # {}
           /\ "done" \in Copies(i) => "done" \in Copies(i)'
<1> USE DEF Inv, StoreTypeOK
<1>1. CASE Copies(i)' = Copies(i)
  BY <1>1
<1>2. ASSUME NEW j \in Jobs, FileStep(j) \/ QueueStep(j) \/ \E w \in Workers : LeaseStep(j, w),
             i # j
      PROVE  Copies(i)' = Copies(i)
  BY <1>2, OthersUntouched DEF Copies
<1>3. CASE Rename(i)
  <2>1. /\ op[i].from \in Copies(i) /\ op[i].from # "done" /\ op[i].from # op[i].to
        /\ op[i].to \in Buckets
    BY <1>3 DEF Rename, Operation, NoOp, MovesAreSound, RenameReady, ClaimReady, Sole, Copies
  <2>2. op[i].to \in Copies(i)'
    BY <1>3, <2>1 DEF Rename, Copies
  <2>3. "done" \in Copies(i) => "done" \in Copies(i)'
    BY <1>3, <2>1 DEF Rename, Copies
  <2> QED
    BY <2>2, <2>3
<1>4. CASE RemoveDuplicate(i)
  <2>1. /\ op[i].to \in Copies(i) /\ op[i].to \notin op[i].drop
        /\ op[i].to # "done" => "done" \notin op[i].drop
    BY <1>4 DEF RemoveDuplicate, MovesAreSound, RemoveReady
  <2>2. PICK b \in op[i].drop : files' = [files EXCEPT ![i][b] = Absent]
    BY <1>4 DEF RemoveDuplicate
  <2>3. b # op[i].to /\ (op[i].to # "done" => b # "done")
    BY <2>1, <2>2
  <2>4. Copies(i) \ {b} \subseteq Copies(i)'
    BY <2>2 DEF Copies
  <2> QED
    BY <2>1, <2>3, <2>4
<1>5. CASE ReconcileDuplicates(i) \/ ReconcileMoved(i)
  BY <1>1, <1>5, ReconcileCopies DEF Copies
<1>6. CASE Submit(i)
  <2>1. NewRecord # Absent
    BY DEF NewRecord, Absent
  <2> QED
    BY <1>6, <2>1 DEF Submit, Copies, Buckets
<1>7. CASE ReconcileWaiting(i) /\ Resume(i)
  <2>1. "waiting" \in Copies(i) /\ files[i]["waiting"] \in Record
    BY <1>7, CopiesAreRecords DEF ReconcileWaiting, Copies, Buckets
  <2>2. Resumed(files[i]["waiting"]) \in Record
    BY <2>1, TransformsKeepShape
  <2> QED
    BY <1>1, <1>7, <2>1, <2>2, MoveKeepsCopies DEF Resume
<1>8. CASE \E w \in Workers : LeaseStep(i, w)
  BY <1>1, <1>8, LeaseKeepsCopies
<1>9. CASE Restart
  BY <1>9 DEF Restart, AfterRestart, MovesAreSound, SyncReady, ClaimReady, Sole, Copies, Operation,
              NoOp
<1>10. CASE \/ \E w \in Workers : WorkerStarts(w) \/ WorkerExits(w)
            \/ \E q \in Requests : File(q) \/ Decide(q) \/ Spend(q)
            \/ (\E S \in SUBSET Requests : Withdraw(S)) \/ FailsEarly
            \/ UNCHANGED storeVars
  BY <1>1, <1>10 DEF WorkerStarts, WorkerExits, File, Decide, Spend, Withdraw, FailsEarly, storeVars, Copies
<1>11. CASE FileStep(i)
  BY <1>1, <1>3, <1>4, <1>11, QuietSteps DEF FileStep
<1>12. CASE QueueStep(i)
  <2>1. ReconcileWaiting(i) => FailWaiting(i) \/ Resume(i)
    BY DEF ReconcileWaiting
  <2> QED
    BY <1>1, <1>5, <1>6, <1>7, <1>12, <2>1, QuietSteps DEF QueueStep
<1> QED
  BY <1>1, <1>2, <1>8, <1>9, <1>10, <1>11, <1>12 DEF StoreNext

\* An accepted job keeps at least one record through every move, crash,
\* power loss and removal of duplicates.
THEOREM JobsAreNeverLost == StoreSpec => NoJobLost
<1>1. Inv /\ [StoreNext]_storeVars =>
        [\A j \in Jobs : Copies(j) # {} => \E b \in Buckets : files'[j][b] # Absent]_storeVars
  <2> SUFFICES ASSUME Inv, [StoreNext]_storeVars, NEW j \in Jobs, Copies(j) # {}
               PROVE  \E b \in Buckets : files'[j][b] # Absent
    OBVIOUS
  <2>1. Copies(j)' # {}
    BY CopiesSurvive
  <2> QED
    BY <2>1 DEF Copies
<1> QED
  BY <1>1, StoreInvariant, PTL DEF StoreSpec, NoJobLost

\* A job with a terminal copy keeps it, and neither a claim nor a commit of
\* another copy can follow.
THEOREM DoneIsFinal == StoreSpec => DoneAbsorbs
<1>1. ASSUME Inv, [StoreNext]_storeVars, NEW j \in Jobs, "done" \in Copies(j)
      PROVE  runs'[j] = runs[j] /\ claims'[j] = claims[j]
  <2> USE DEF Inv, StoreTypeOK
  <2>1. ~Sole(j, "running")
    BY <1>1 DEF Sole
  <2>2. ~(\E w \in Workers : Commit(j, w)) /\ ~ClaimWrite(j)
    BY <1>1, <2>1 DEF Commit, CanCommit, ClaimWrite, MovesAreSound, ClaimReady
  <2>3. ASSUME NEW i \in Jobs, FileStep(i)
        PROVE  runs'[j] = runs[j] /\ claims'[j] = claims[j]
    BY <1>1, <2>2, <2>3
    DEF FileStep, Rename, Synced, ClaimWrite, RemoveDuplicate, OpFails, ScanReads, history
  <2>4. ASSUME NEW i \in Jobs, QueueStep(i)
        PROVE  runs'[j] = runs[j] /\ claims'[j] = claims[j]
    BY <1>1, <2>4 DEF QueueStep, Submit, RequestCancel, ReconcileDuplicates, ReconcileMoved,
       Reconcile, Claim, ClaimRefused, Recover, RecoverUnverifiable, ReconcileWaiting, EightHoursPass, history
  <2>5. ASSUME NEW i \in Jobs, NEW w \in Workers, LeaseStep(i, w)
        PROVE  runs'[j] = runs[j] /\ claims'[j] = claims[j]
    BY <1>1, <2>2, <2>5
    DEF LeaseStep, Bind, Prepare, Commit, Release, RecordWaiting, Finish, history
  <2> QED
    BY <1>1, <2>3, <2>4, <2>5
    DEF StoreNext, WorkerStarts, WorkerExits, File, Decide, Spend, Withdraw, FailsEarly, Restart,
        history, storeVars
<1>2. Inv /\ [StoreNext]_storeVars =>
        [\A j \in Jobs : files[j]["done"] # Absent =>
            /\ files'[j]["done"] # Absent
            /\ runs'[j] = runs[j] /\ claims'[j] = claims[j]]_storeVars
  <2> SUFFICES ASSUME Inv, [StoreNext]_storeVars, NEW j \in Jobs, files[j]["done"] # Absent
               PROVE  /\ files'[j]["done"] # Absent
                      /\ runs'[j] = runs[j] /\ claims'[j] = claims[j]
    OBVIOUS
  <2>1. "done" \in Copies(j)
    BY DEF Copies, Buckets
  <2>2. "done" \in Copies(j)'
    BY <2>1, CopiesSurvive
  <2> QED
    BY <1>1, <2>1, <2>2 DEF Copies
<1> QED
  BY <1>2, StoreInvariant, PTL DEF StoreSpec, DoneAbsorbs

-----------------------------------------------------------------------------
\* The queue uses consent requests as the approval store offers them.

\* Denying refuses requests that are open, or does nothing.
LEMMA DenyingRefuses ==
    ASSUME StoreTypeOK, NEW S, consent' = Denying(S)
    PROVE  Consents!ConsentNext \/ UNCHANGED consent
<1> DEFINE open == {q \in Requests : q \in S /\ consent[q] = "pending"}
<1>1. consent' = [q \in Requests |-> IF q \in open THEN "denied" ELSE consent[q]]
  BY DEF Denying
<1>2. CASE open = {}
  BY <1>1, <1>2 DEF StoreTypeOK
<1>3. CASE open # {}
  <2>1. open \in SUBSET Requests /\ Consents!Refuse(open)
    BY <1>1, <1>3 DEF Consents!Refuse, Consents!MoveAll
  <2> QED
    BY <2>1 DEF Consents!ConsentNext
<1> QED
  BY <1>2, <1>3

\* A reviewer or a spender takes the step of the same name.
LEMMA AnswersKeepContract ==
    ASSUME StoreTypeOK, NEW q \in Requests, File(q) \/ Decide(q) \/ Spend(q)
    PROVE  Consents!ConsentNext
<1>1. PICK from, to \in Consents!Standings :
        /\ consent[q] = from /\ consent' = [consent EXCEPT ![q] = to]
        /\ <<from, to>> \in {<<"unknown", "pending">>, <<"pending", "approved">>,
                             <<"pending", "denied">>, <<"approved", "consumed">>}
  BY DEF File, Decide, Spend, Consents!Standings
<1>2. consent' = [p \in Requests |-> IF p \in {q} THEN to ELSE consent[p]]
  BY <1>1 DEF StoreTypeOK
<1>3. Consents!MoveAll({q}, from, to)
  BY <1>1, <1>2 DEF Consents!MoveAll
<1> QED
  BY <1>1, <1>3 DEF Consents!ConsentNext, Consents!File, Consents!Approve, Consents!Refuse,
     Consents!UseUp

\* What a step of the queue does to the requests.
LEMMA ConsentSteps ==
    ASSUME StoreTypeOK, [StoreNext]_storeVars
    PROVE  Consents!ConsentNext \/ UNCHANGED consent
<1>1. ASSUME NEW j \in Jobs, FileStep(j) PROVE UNCHANGED consent
  BY <1>1 DEF FileStep, Rename, Synced, ClaimWrite, RemoveDuplicate, OpFails, ScanReads
<1>2. ASSUME NEW j \in Jobs, NEW by, SettleInterrupted(j, by)
      PROVE  UNCHANGED consent \/ \E S : consent' = Denying(S)
  BY <1>2 DEF SettleInterrupted
<1>3. ASSUME NEW j \in Jobs, QueueStep(j)
      PROVE  UNCHANGED consent \/ \E S : consent' = Denying(S)
  <2>1. CASE RequestCancel(j)
    BY <2>1 DEF RequestCancel, CancelPending, CancelRunning, CancelWaiting
  <2>2. CASE Recover(j)
    BY <1>2, <2>2 DEF Recover
  <2>3. CASE ReconcileWaiting(j)
    BY <2>3 DEF ReconcileWaiting, FailWaiting, Resume
  <2>4. Submit(j) => UNCHANGED consent
    BY DEF Submit
  <2>5. ReconcileDuplicates(j) \/ ReconcileMoved(j) => UNCHANGED consent
    <3>1. \A S : Reconcile(j, S) => UNCHANGED consent
      BY DEF Reconcile
    <3> QED
      BY <3>1 DEF ReconcileDuplicates, ReconcileMoved
  <2>6. Claim(j) \/ ClaimRefused(j) => UNCHANGED consent
    BY DEF Claim, ClaimRefused
  <2>7. RecoverUnverifiable(j) \/ EightHoursPass(j) => UNCHANGED consent
    BY DEF RecoverUnverifiable, EightHoursPass
  <2> QED
    BY <1>3, <2>1, <2>2, <2>3, <2>4, <2>5, <2>6, <2>7 DEF QueueStep
<1>4. ASSUME NEW j \in Jobs, NEW w \in Workers, LeaseStep(j, w)
      PROVE  UNCHANGED consent \/ \E S : consent' = Denying(S)
  <2>1. CASE Release(j, w)
    BY <1>2, <2>1 DEF Release
  <2>2. ASSUME NEW o \in Outcomes, NEW asked \in SUBSET Requests, Finish(j, o, asked, w)
        PROVE  UNCHANGED consent \/ \E S : consent' = Denying(S)
    BY <2>2 DEF Finish
  <2>3. Bind(j, w) \/ Prepare(j, w) \/ Commit(j, w) => UNCHANGED consent
    BY DEF Bind, Prepare, Commit
  <2>4. \A q \in Requests : RecordWaiting(j, q) => UNCHANGED consent
    BY DEF RecordWaiting
  <2> QED
    BY <1>4, <2>1, <2>2, <2>3, <2>4 DEF LeaseStep
<1>5. Restart \/ FailsEarly \/ UNCHANGED storeVars => UNCHANGED consent
  BY DEF Restart, FailsEarly, storeVars
<1>6. \A w \in Workers : WorkerStarts(w) \/ WorkerExits(w) => UNCHANGED consent
  BY DEF WorkerStarts, WorkerExits
<1>7. \A S \in SUBSET Requests : Withdraw(S) => consent' = Denying(S)
  BY DEF Withdraw
<1> QED
  BY <1>1, <1>3, <1>5, <1>6, <1>7, <1>4, DenyingRefuses, AnswersKeepContract DEF StoreNext

\* The queue never refuses a request that was answered, never answers for a
\* reviewer and files no request twice: all it does to consent is what the
\* contract of the approval store allows.
THEOREM RequestsKeepTheirContract == StoreSpec => RequestsKeepContract
<1>1. StoreInit => Consents!ConsentInit
  BY DEF StoreInit, Consents!ConsentInit
<1>2. StoreTypeOK /\ [StoreNext]_storeVars => [Consents!ConsentNext]_consent
  BY ConsentSteps
<1> QED
  BY <1>1, <1>2, StoreTypeCorrect, PTL
  DEF StoreSpec, RequestsKeepContract, Consents!ConsentSpec

-----------------------------------------------------------------------------
\* The ways an operation rewrites a record r as s.

Retires(r, s) ==
    /\ s.status \in Terminal /\ (r.cancel => s.cancel)
    /\ s.cancel => s.status # "ok"
    /\ s.phase \in {r.phase, "indeterminate"}
    /\ s.recoveries \in {r.recoveries, r.recoveries + 1}
Holds(r, s) ==
    /\ s.status = "waiting_approval" /\ ~r.cancel /\ ~s.cancel
    /\ s.phase = r.phase /\ s.recoveries = r.recoveries
Requeues(r, s) ==
    /\ ~r.cancel /\ ReplaySafe(r.phase) /\ r.recoveries < MaxRecoveries
    /\ s.status = "pending" /\ s.recoveries = r.recoveries + 1
Reopens(r, s) ==
    /\ r.status = "waiting_approval"
    /\ s.status = "pending" /\ s.recoveries = r.recoveries
Touches(r, s) ==
    /\ s.status = r.status /\ s.recoveries = r.recoveries /\ (r.cancel => s.cancel)
    /\ ReplaySafe(s.phase) => ReplaySafe(r.phase)
    /\ s.phase = "unprepared" => r.phase = "unprepared"

\* The five forms an operation takes on its job: it submits it, it leaves the
\* files alone, it reconciles duplicates, it moves a record, or it touches
\* the running one.
Moving(j, from, to, s) ==
    LET r == files[j][from] IN
    /\ from \in Copies(j) \ {"done"} /\ s \in Record
    /\ \E by \in Workers \cup {NoProcess} : MoveWith(j, from, to, s, by)
    /\ \/ to = "done" /\ Retires(r, s) /\ resumes' = resumes
       \/ to = "waiting" /\ Holds(r, s) /\ resumes' = resumes
       \/ to = "pending" /\ Requeues(r, s) /\ resumes' = resumes
       \/ /\ from = "waiting" /\ to = "pending" /\ Reopens(r, s)
          /\ resumes' = [resumes EXCEPT ![j] = @ + 1]
    /\ cancelAsked' # cancelAsked => Sole(j, from) /\ s.cancel /\ cancelAsked' = cancelAsked \cup {j}
Touching(j, s) ==
    LET r == files[j]["running"] IN
    /\ Free(j) /\ "running" \in Copies(j) /\ s \in Record /\ Touches(r, s)
    /\ files' = [files EXCEPT ![j]["running"] = s] /\ op' = op /\ resumes' = resumes
    /\ cancelAsked' # cancelAsked =>
          Sole(j, "running") /\ s.cancel /\ cancelAsked' = cancelAsked \cup {j}
Idling(j) ==
    /\ files' = files /\ UNCHANGED <<resumes, cancelAsked>>
    /\ op' = op \/ op'[j].step = "claim_rename"

-----------------------------------------------------------------------------
\* Every operation has one of the forms.

\* What the transformations make of a record.
LEMMA RecordForms ==
    ASSUME NEW r \in Record
    PROVE  /\ Retires(r, Cancelled(r)) /\ Retires(r, Ended(r))
           /\ Retires(r, Indeterminate(r)) /\ Retires(r, Failed(r))
           /\ Retires(r, Failed(Counted(r)))
           /\ Retires(r, [Ended(r) EXCEPT !.cancel = TRUE])
           /\ Retires(r, [Cancelled(r) EXCEPT !.cancel = TRUE])
           /\ ~r.cancel => Holds(r, Suspended(r))
           /\ ~r.cancel /\ ReplaySafe(r.phase) /\ BudgetLeft(r) =>
                 Requeues(r, Requeued(Counted(r)))
           /\ r.status = "waiting_approval" => Reopens(r, Resumed(r))
<1> USE DEF Record, Terminal
<1>1. Retires(r, Cancelled(r)) /\ Retires(r, Ended(r))
  BY DEF Retires, Cancelled, Ended
<1>2. Retires(r, Indeterminate(r)) /\ Retires(r, Failed(r))
  BY DEF Retires, Indeterminate, Failed
<1>3. Retires(r, Failed(Counted(r)))
  BY DEF Retires, Failed, Counted
<1>4. /\ Retires(r, [Ended(r) EXCEPT !.cancel = TRUE])
      /\ Retires(r, [Cancelled(r) EXCEPT !.cancel = TRUE])
  BY DEF Retires, Cancelled, Ended
<1>5. ~r.cancel => Holds(r, Suspended(r))
  BY DEF Holds, Suspended
<1>6. ~r.cancel /\ ReplaySafe(r.phase) /\ BudgetLeft(r) => Requeues(r, Requeued(Counted(r)))
  BY DEF Requeues, Requeued, Counted, BudgetLeft
<1>7. r.status = "waiting_approval" => Reopens(r, Resumed(r))
  BY DEF Reopens, Resumed, Requeued
<1> QED
  BY <1>1, <1>2, <1>3, <1>4, <1>5, <1>6, <1>7

\* Settling an interrupted run retires, holds or requeues its record.
LEMMA SettleForm ==
    ASSUME Inv, NEW j \in Jobs, NEW by \in Workers \cup {NoProcess},
           Sole(j, "running"), SettleInterrupted(j, by), UNCHANGED <<resumes, cancelAsked>>
    PROVE  \E to \in Buckets, s \in Record : Moving(j, "running", to, s)
<1> DEFINE r == files[j]["running"]
<1>1. "running" \in Copies(j) \ {"done"} /\ r \in Record
  BY CopiesAreRecords DEF Sole, Inv
<1>2. /\ Cancelled(r) \in Record /\ Suspended(r) \in Record
      /\ Indeterminate(r) \in Record /\ Counted(r) \in Record
  BY <1>1, TransformsKeepShape
<1>3. Failed(Counted(r)) \in Record /\ Requeued(Counted(r)) \in Record
  BY <1>2, TransformsKeepShape
<1>4. ASSUME NEW s \in Record, MoveWith(j, "running", "done", s, by), Retires(r, s)
      PROVE  Moving(j, "running", "done", s)
  BY <1>1, <1>4 DEF Moving
<1>5. CASE r.cancel /\ MoveWith(j, "running", "done", Cancelled(r), by)
  BY <1>1, <1>2, <1>4, <1>5, RecordForms DEF Buckets
<1>6. CASE ~r.cancel /\ MoveWith(j, "running", "waiting", Suspended(r), by)
  <2>1. Holds(r, Suspended(r))
    BY <1>1, <1>6, RecordForms
  <2>2. Moving(j, "running", "waiting", Suspended(r))
    BY <1>1, <1>2, <1>6, <2>1 DEF Moving
  <2> QED
    BY <1>2, <2>2 DEF Buckets
<1>7. CASE MoveWith(j, "running", "done", Indeterminate(r), by)
  BY <1>1, <1>2, <1>4, <1>7, RecordForms DEF Buckets
<1>8. CASE MoveWith(j, "running", "done", Failed(Counted(r)), by)
  BY <1>1, <1>3, <1>4, <1>8, RecordForms DEF Buckets
<1>9. CASE /\ ~r.cancel /\ ReplaySafe(r.phase) /\ BudgetLeft(r)
           /\ MoveWith(j, "running", "pending", Requeued(Counted(r)), by)
  <2>1. Requeues(r, Requeued(Counted(r)))
    BY <1>1, <1>9, RecordForms
  <2>2. Moving(j, "running", "pending", Requeued(Counted(r)))
    BY <1>1, <1>3, <1>9, <2>1 DEF Moving
  <2> QED
    BY <1>3, <2>2 DEF Buckets
<1> QED
  BY <1>5, <1>6, <1>7, <1>8, <1>9 DEF SettleInterrupted

\* Retiring a record from where it is, in one of the ways of the queue.
LEMMA RetireForm ==
    ASSUME Inv, NEW j \in Jobs, NEW from \in Copies(j) \ {"done"}, NEW s \in Record,
           NEW by \in Workers \cup {NoProcess},
           MoveWith(j, from, "done", s, by), Retires(files[j][from], s), resumes' = resumes,
           \/ cancelAsked' = cancelAsked
           \/ Sole(j, from) /\ s.cancel /\ cancelAsked' = cancelAsked \cup {j}
    PROVE  Moving(j, from, "done", s)
    BY DEF Moving

\* The result of a run retires its record, or holds it for consent.
LEMMA FinishForm ==
    ASSUME Inv, NEW j \in Jobs, NEW w \in Workers, NEW o \in Outcomes,
           NEW asked \in SUBSET Requests, Finish(j, o, asked, w)
    PROVE  \E to \in Buckets, s \in Record : Moving(j, "running", to, s)
<1> DEFINE r == files[j]["running"]
           e == Effective(r, o)
           s == FinishedRecord(r, e, asked)
<1>1. "running" \in Copies(j) \ {"done"} /\ r \in Record /\ e \in Outcomes
  BY CopiesAreRecords DEF Sole, Inv, Finish, Effective, Outcomes
<1>2. s \in Record
  BY <1>1, FinishKeepsShape
<1>3. UNCHANGED <<resumes, cancelAsked>>
  BY DEF Finish, history
<1>4. e # "cancelled" => ~r.cancel
  BY DEF Effective
<1>5. CASE e = "waiting"
  <2>1. s = [Suspended(r) EXCEPT !.waitingOn = asked]
    BY <1>5 DEF FinishedRecord
  <2>2. Holds(r, s)
    BY <1>1, <1>4, <1>5, <2>1 DEF Holds, Suspended, Record
  <2>3. MoveWith(j, "running", "waiting", s, w)
    BY <1>5 DEF Finish
  <2> HIDE DEF s
  <2>4. Moving(j, "running", "waiting", s)
    BY <1>1, <1>2, <1>3, <2>2, <2>3 DEF Moving
  <2> QED
    BY <1>2, <2>4 DEF Buckets
<1>6. CASE e # "waiting"
  <2>1. MoveWith(j, "running", "done", s, w)
    BY <1>6 DEF Finish
  <2>2. CASE e = "cancelled"
    <3>1. s = Cancelled(r)
      BY <2>2 DEF FinishedRecord
    <3> HIDE DEF s
    <3> QED
      BY <1>1, <1>2, <1>3, <2>1, <3>1, RecordForms, RetireForm DEF Buckets
  <2>3. CASE e # "cancelled"
    <3>1. ~r.cancel
      BY <1>4, <2>3
    <3>2. s.status \in Terminal /\ s.phase \in {r.phase, "indeterminate"}
          /\ s.recoveries = r.recoveries /\ s.cancel = r.cancel
      <4> HIDE DEF e
      <4> QED
        BY <1>1, <1>6, <2>3 DEF FinishedRecord, Outcomes, Indeterminate, Failed, Record, Terminal
    <3>3. Retires(r, s)
      BY <3>1, <3>2 DEF Retires
    <3> HIDE DEF s
    <3> QED
      BY <1>1, <1>2, <1>3, <2>1, <3>3, RetireForm DEF Buckets
  <2> QED
    BY <2>2, <2>3
<1> QED
  BY <1>5, <1>6

\* A form of operation, for some bucket and record.
Formed(j) ==
    \/ Submit(j) \/ Idling(j)
    \/ Copies(j) # {} /\ \E S \in SUBSET Buckets : Reconcile(j, S)
    \/ \E from, to \in Buckets, s \in Record : Moving(j, from, to, s)
    \/ \E s \in Record : Touching(j, s)

\* Every operation of the queue's own callers has one of the forms.
LEMMA QueueForms ==
    ASSUME Inv, NEW j \in Jobs, QueueStep(j)
    PROVE  Formed(j) /\ claims' = claims
<1> USE DEF Inv
<1>0. claims' = claims
  BY DEF QueueStep, Submit, RequestCancel, ReconcileDuplicates, ReconcileMoved, Reconcile, Claim,
         ClaimRefused, Recover, RecoverUnverifiable, ReconcileWaiting, EightHoursPass, history
<1> SUFFICES Formed(j)
  BY <1>0
<1>1. ASSUME NEW from \in {"pending", "running", "waiting"}, "done" # from,
             Sole(j, from) \/ from \in Copies(j)
      PROVE  from \in Copies(j) \ {"done"} /\ files[j][from] \in Record /\ from \in Buckets
  BY <1>1, CopiesAreRecords DEF Sole, Buckets
<1>2. ASSUME NEW from \in Buckets, NEW s \in Record, Moving(j, from, "done", s)
      PROVE  Formed(j)
  BY <1>2 DEF Formed, Buckets
<1>3. CASE Submit(j)
  BY <1>3 DEF Formed
<1>4. CASE RequestCancel(j)
  <2>1. resumes' = resumes /\ cancelAsked' = cancelAsked \cup {j}
    BY <1>4 DEF RequestCancel
  <2>2. CASE CancelPending(j)
    <3> DEFINE r == files[j]["pending"]
               s == [Ended(r) EXCEPT !.cancel = TRUE]
    <3>1. /\ Sole(j, "pending") /\ "pending" \in Copies(j) \ {"done"} /\ r \in Record
          /\ "pending" \in Buckets
      BY <1>1, <2>2 DEF CancelPending
    <3>2. s \in Record /\ s.cancel /\ Retires(r, s)
      BY <3>1, TransformsKeepShape, RecordForms DEF Ended, Record
    <3>3. MoveWith(j, "pending", "done", s, NoProcess)
      BY <2>2 DEF CancelPending
    <3> HIDE DEF s
    <3>4. Moving(j, "pending", "done", s)
      BY <2>1, <3>1, <3>2, <3>3, RetireForm
    <3> QED
      BY <1>2, <3>1, <3>2, <3>4
  <2>3. CASE CancelRunning(j)
    <3> DEFINE r == files[j]["running"]
               s == [r EXCEPT !.cancel = TRUE]
    <3>1. Free(j) /\ Sole(j, "running") /\ "running" \in Copies(j) /\ r \in Record
      BY <1>1, <1>4, <2>3 DEF CancelRunning, RequestCancel
    <3>2. s \in Record /\ s.cancel /\ Touches(r, s)
      BY <3>1 DEF Record, Touches
    <3>3. files' = [files EXCEPT ![j]["running"] = s] /\ op' = op
      BY <2>3 DEF CancelRunning
    <3> HIDE DEF s
    <3>4. Touching(j, s)
      BY <2>1, <3>1, <3>2, <3>3 DEF Touching
    <3> QED
      BY <3>2, <3>4 DEF Formed
  <2>4. CASE CancelWaiting(j)
    <3> DEFINE r == files[j]["waiting"]
               s == [Cancelled(r) EXCEPT !.cancel = TRUE]
    <3>1. /\ Sole(j, "waiting") /\ "waiting" \in Copies(j) \ {"done"} /\ r \in Record
          /\ "waiting" \in Buckets
      BY <1>1, <2>4 DEF CancelWaiting
    <3>2. s \in Record /\ s.cancel /\ Retires(r, s)
      BY <3>1, TransformsKeepShape, RecordForms DEF Cancelled, Ended, Record
    <3>3. MoveWith(j, "waiting", "done", s, NoProcess)
      BY <2>4 DEF CancelWaiting
    <3> HIDE DEF s
    <3>4. Moving(j, "waiting", "done", s)
      BY <2>1, <3>1, <3>2, <3>3, RetireForm
    <3> QED
      BY <1>2, <3>1, <3>2, <3>4
  <2> QED
    BY <1>4, <2>2, <2>3, <2>4 DEF RequestCancel
<1>5. CASE ReconcileDuplicates(j) \/ ReconcileMoved(j)
  BY <1>5, ScansFindJobs DEF Formed
<1>6. CASE Claim(j)
  <2>1. Idling(j)
    BY <1>6 DEF Claim, Idling, history, StoreTypeOK
  <2> QED
    BY <2>1 DEF Formed
<1>7. CASE ClaimRefused(j) \/ RecoverUnverifiable(j)
  <2>1. PICK from \in {"pending", "running"} :
           \E s \in {Indeterminate(files[j][from]), Failed(files[j][from]),
                     Ended(files[j][from])} :
           /\ Sole(j, from) /\ MoveWith(j, from, "done", s, NoProcess)
           /\ UNCHANGED <<resumes, cancelAsked>>
    BY <1>7 DEF ClaimRefused, RecoverUnverifiable, history
  <2>2. PICK s \in {Indeterminate(files[j][from]), Failed(files[j][from]),
                    Ended(files[j][from])} :
           MoveWith(j, from, "done", s, NoProcess)
    BY <2>1
  <2>3. from \in Copies(j) \ {"done"} /\ files[j][from] \in Record /\ from \in Buckets
    BY <1>1, <2>1
  <2>4. s \in Record /\ Retires(files[j][from], s)
    BY <2>2, <2>3, TransformsKeepShape, RecordForms
  <2>5. Moving(j, from, "done", s)
    BY <2>1, <2>2, <2>3, <2>4, RetireForm
  <2> QED
    BY <1>2, <2>3, <2>4, <2>5
<1>8. CASE Recover(j)
  BY <1>8, SettleForm DEF Recover, history, Formed, Buckets
<1>9. CASE ReconcileWaiting(j)
  <2> DEFINE r == files[j]["waiting"]
  <2>1. "waiting" \in Copies(j) \ {"done"} /\ r \in Record /\ "waiting" \in Buckets
    BY <1>1, <1>9 DEF ReconcileWaiting, Copies, Buckets
  <2>2. Failed(r) \in Record /\ Retires(r, Failed(r)) /\ Resumed(r) \in Record
    BY <2>1, TransformsKeepShape, RecordForms
  <2>3. CASE FailWaiting(j)
    <3>1. /\ MoveWith(j, "waiting", "done", Failed(r), NoProcess)
          /\ resumes' = resumes /\ cancelAsked' = cancelAsked
      BY <1>9, <2>3 DEF FailWaiting, ReconcileWaiting
    <3>2. Moving(j, "waiting", "done", Failed(r))
      BY <2>1, <2>2, <3>1, RetireForm
    <3> QED
      BY <1>2, <2>1, <2>2, <3>2
  <2>4. CASE ValidWait(r) /\ Resume(j)
    <3>1. Reopens(r, Resumed(r))
      BY <2>1, <2>4, RecordForms DEF ValidWait
    <3>2. /\ MoveWith(j, "waiting", "pending", Resumed(r), NoProcess)
          /\ resumes' = [resumes EXCEPT ![j] = @ + 1] /\ cancelAsked' = cancelAsked
      BY <1>9, <2>4 DEF Resume, ReconcileWaiting
    <3>3. Moving(j, "waiting", "pending", Resumed(r))
      BY <2>1, <2>2, <3>1, <3>2 DEF Moving
    <3> QED
      BY <2>1, <2>2, <3>3 DEF Formed, Buckets
  <2> QED
    BY <1>9, <2>3, <2>4 DEF ReconcileWaiting
<1>10. CASE EightHoursPass(j)
  <2>1. Idling(j)
    BY <1>10 DEF EightHoursPass, Idling, history
  <2> QED
    BY <2>1 DEF Formed
<1> QED
  BY <1>3, <1>4, <1>5, <1>6, <1>7, <1>8, <1>9, <1>10 DEF QueueStep

\* Every operation of a worker's lease moves or touches the running record.
LEMMA LeaseForms ==
    ASSUME Inv, NEW j \in Jobs, NEW w \in Workers, LeaseStep(j, w)
    PROVE  Formed(j) /\ claims' = claims
<1> USE DEF Inv
<1> DEFINE r == files[j]["running"]
<1>0. claims' = claims
  BY DEF LeaseStep, Bind, Prepare, Commit, Release, RecordWaiting, Finish, history
<1> SUFFICES Formed(j)
  BY <1>0
<1>1. /\ "running" \in Copies(j) => r \in Record
      /\ Sole(j, "running") => "running" \in Copies(j)
  BY CopiesAreRecords DEF Sole
<1>2. ASSUME NEW s \in Record, Free(j), "running" \in Copies(j), Touches(r, s),
             files' = [files EXCEPT ![j]["running"] = s], op' = op,
             UNCHANGED <<resumes, cancelAsked>>
      PROVE  Formed(j)
  <2>1. Touching(j, s)
    BY <1>2 DEF Touching
  <2> QED
    BY <2>1 DEF Formed
<1>3. CASE Bind(j, w)
  <2> DEFINE s == [r EXCEPT !.worker = w]
  <2>1. "running" \in Copies(j) /\ r \in Record
    BY <1>1, <1>3 DEF Bind, CanBind
  <2>2. s \in Record /\ Touches(r, s)
    BY <2>1 DEF Record, Touches
  <2> QED
    BY <1>2, <1>3, <2>1, <2>2 DEF Bind, CanBind, history
<1>4. CASE Prepare(j, w) \/ Commit(j, w)
  <2>1. PICK p \in {"prepared", "committed"} :
           /\ files' = [files EXCEPT ![j]["running"].phase = p] /\ op' = op
           /\ UNCHANGED <<resumes, cancelAsked>>
           /\ Free(j) /\ Sole(j, "running") /\ ReplaySafe(r.phase)
    BY <1>4 DEF Prepare, CanPrepare, Commit, CanCommit, history, ReplaySafe
  <2> DEFINE s == [r EXCEPT !.phase = p]
  <2>2. "running" \in Copies(j) /\ r \in Record
    BY <1>1, <2>1
  <2>3. s \in Record /\ Touches(r, s)
    BY <2>1, <2>2 DEF Record, Touches, Phases
  <2> QED
    BY <1>2, <2>1, <2>2, <2>3
<1>5. CASE Release(j, w)
  BY <1>5, SettleForm DEF Release, history, Formed, Buckets
<1>6. ASSUME NEW q \in Requests, RecordWaiting(j, q)
      PROVE  Formed(j)
  <2> DEFINE s == [r EXCEPT !.waitingOn = @ \cup {q}]
  <2>1. "running" \in Copies(j) /\ r \in Record
    BY <1>1, <1>6 DEF RecordWaiting, CanRecordWaiting, Copies, Buckets
  <2>2. s \in Record /\ Touches(r, s)
    BY <2>1 DEF Record, Touches
  <2> QED
    BY <1>2, <1>6, <2>1, <2>2 DEF RecordWaiting, CanRecordWaiting, history
<1>7. ASSUME NEW o \in Outcomes, NEW asked \in SUBSET Requests, Finish(j, o, asked, w)
      PROVE  Formed(j)
  BY <1>7, FinishForm DEF Formed, Buckets
<1> QED
  BY <1>3, <1>4, <1>5, <1>6, <1>7 DEF LeaseStep

-----------------------------------------------------------------------------
\* What any step of the system does to one job.

Rests(j) == files'[j] = files[j] /\ op'[j] = op[j]
Drops(j) ==
    /\ op'[j].step \in {"none", "remove"}
    /\ \A b \in Copies(j)' : b \in Copies(j) /\ files'[j][b] = files[j][b]
Carries(j) ==
    /\ op[j].from \in Copies(j) \ {"done"} /\ op[j].to \in Buckets \ {op[j].from}
    /\ files'[j] = [files[j] EXCEPT ![op[j].to] = files[j][op[j].from], ![op[j].from] = Absent]
    /\ \/ op[j].step = "rename" /\ op'[j].step = "sync"
       \/ op[j].step = "claim_rename" /\ op'[j].step = "claim_sync" /\ op[j].to = "running"
    /\ op'[j].to = op[j].to
Resurrects(j) ==
    /\ op[j].from \in Buckets \ {"done"} /\ op[j].to \in Copies(j) \ {op[j].from}
    /\ files'[j] = [files[j] EXCEPT ![op[j].from] = files[j][op[j].to]]
    /\ op[j].step = "sync" \/ (op[j].step = "claim_sync" /\ op[j].to = "running")
    /\ op[j].from = "waiting" => WaitSettled(files[j][op[j].to])
    /\ op'[j].step = "none"
LeavesHistory(j) ==
    /\ claims'[j] = claims[j] /\ resumes'[j] = resumes[j]
    /\ j \in cancelAsked' => j \in cancelAsked

\* The file steps rest, drop copies, carry a record or write a claim.
LEMMA FileStepKinds ==
    ASSUME Inv, NEW j \in Jobs, FileStep(j), ~ClaimWrite(j)
    PROVE  LeavesHistory(j) /\ (Rests(j) \/ Drops(j) \/ Carries(j))
<1> USE DEF Inv, StoreTypeOK
<1>1. LeavesHistory(j)
  BY DEF FileStep, Rename, Synced, RemoveDuplicate, OpFails, ScanReads, LeavesHistory, history
<1>2. CASE Rename(j)
  <2>1. RenameReady(j) /\ ClaimReady(j) /\ op[j] \in Operation
    BY <1>2 DEF MovesAreSound, Rename, NoOp
  <2>2. op[j].from \in Copies(j) \ {"done"} /\ op[j].to \in Buckets \ {op[j].from}
    BY <1>2, <2>1 DEF Rename, RenameReady, ClaimReady, Sole, Operation
  <2>3. files'[j] = [files[j] EXCEPT ![op[j].to] = files[j][op[j].from], ![op[j].from] = Absent]
    BY <1>2 DEF Rename
  <2>4. op'[j] = [op[j] EXCEPT !.step = IF op[j].step = "rename" THEN "sync" ELSE "claim_sync"]
    BY <1>2 DEF Rename
  <2>5. op'[j].to = op[j].to
    BY <2>1, <2>4 DEF Operation
  <2>6. \/ op[j].step = "rename" /\ op'[j].step = "sync"
        \/ op[j].step = "claim_rename" /\ op'[j].step = "claim_sync" /\ op[j].to = "running"
    BY <1>2, <2>1, <2>4 DEF Rename, ClaimReady, Operation
  <2> QED
    BY <1>1, <2>2, <2>3, <2>5, <2>6 DEF Carries
<1>3. CASE Synced(j) \/ OpFails(j)
  <2>1. files' = files /\ op'[j] = NoOp
    BY <1>3 DEF Synced, OpFails
  <2> QED
    BY <1>1, <2>1 DEF Drops, NoOp, Copies
<1>4. CASE RemoveDuplicate(j)
  <2>1. op[j] \in Operation /\ op[j].step = "remove"
    BY <1>4 DEF RemoveDuplicate, NoOp
  <2>2. PICK b \in op[j].drop :
           /\ files' = [files EXCEPT ![j][b] = Absent]
           /\ \/ op' = [op EXCEPT ![j] = NoOp]
              \/ op' = [op EXCEPT ![j].drop = op[j].drop \ {b}]
    BY <1>4 DEF RemoveDuplicate
  <2>3. op'[j].step \in {"none", "remove"}
    BY <2>1, <2>2 DEF NoOp, Operation
  <2>4. b \in Buckets
    BY <2>1, <2>2 DEF Operation
  <2>5. \A c \in Copies(j)' : c \in Copies(j) /\ files'[j][c] = files[j][c]
    BY <2>2, <2>4 DEF Copies
  <2> QED
    BY <1>1, <2>3, <2>5 DEF Drops
<1>5. CASE ScanReads(j)
  BY <1>1, <1>5 DEF ScanReads, Rests
<1> QED
  BY <1>2, <1>3, <1>4, <1>5 DEF FileStep

\* A restart ends the operation under way and may bring a name back.
LEMMA RestartKinds ==
    ASSUME Inv, Restart, NEW j \in Jobs
    PROVE  LeavesHistory(j) /\ (Drops(j) \/ Resurrects(j))
<1> USE DEF Inv, StoreTypeOK
<1>1. LeavesHistory(j) /\ op'[j].step = "none"
  BY DEF Restart, LeavesHistory, history, NoOp
<1>2. PICK back \in SUBSET Jobs : files'[j] = AfterRestart(j, back)
  BY DEF Restart
<1>3. CASE files'[j] = files[j]
  BY <1>1, <1>3 DEF Drops, Copies
<1>4. CASE files'[j] # files[j]
  <2>1. /\ op[j].step \in {"sync", "claim_sync"} /\ op[j] \in Operation
        /\ files'[j] = [files[j] EXCEPT ![op[j].from] = files[j][op[j].to]]
    BY <1>2, <1>4 DEF AfterRestart, NoOp
  <2>2. SyncReady(j) /\ ClaimReady(j)
    BY DEF MovesAreSound
  <2>3. op[j].from \in Buckets \ {"done"} /\ op[j].to \in Copies(j) \ {op[j].from}
    BY <2>1, <2>2 DEF SyncReady, ClaimReady, Sole, Operation
  <2>4. op[j].step = "sync" \/ (op[j].step = "claim_sync" /\ op[j].to = "running")
    BY <2>1, <2>2 DEF ClaimReady
  <2>5. op[j].from = "waiting" => WaitSettled(files[j][op[j].to])
    BY <2>1, <2>2 DEF SyncReady, ClaimReady
  <2> QED
    BY <1>1, <2>1, <2>3, <2>4, <2>5 DEF Resurrects
<1> QED
  BY <1>3, <1>4

\* The two kinds of step that make history for a job, and the four that do not.
LEMMA StepKinds ==
    ASSUME Inv, [StoreNext]_storeVars, NEW j \in Jobs
    PROVE  \/ Formed(j) /\ claims' = claims
           \/ ClaimWrite(j)
           \/ LeavesHistory(j) /\ (Rests(j) \/ Drops(j) \/ Carries(j) \/ Resurrects(j))
<1> USE DEF Inv, StoreTypeOK
<1>1. ASSUME NEW i \in Jobs \ {j},
             FileStep(i) \/ QueueStep(i) \/ \E w \in Workers : LeaseStep(i, w)
      PROVE  LeavesHistory(j) /\ Rests(j)
  <2>1. Rests(j) /\ resumes'[j] = resumes[j]
    BY <1>1, OthersUntouched DEF Rests
  <2>2. claims'[j] = claims[j] /\ (j \in cancelAsked' => j \in cancelAsked)
    <3>1. CASE FileStep(i)
      BY <3>1 DEF FileStep, Rename, Synced, ClaimWrite, RemoveDuplicate, OpFails, ScanReads, history
    <3>2. CASE QueueStep(i)
      BY <3>2 DEF QueueStep, Submit, RequestCancel, ReconcileDuplicates, ReconcileMoved,
         Reconcile, Claim, ClaimRefused, Recover, RecoverUnverifiable, ReconcileWaiting,
         EightHoursPass, history
    <3>3. CASE \E w \in Workers : LeaseStep(i, w)
      BY <3>3 DEF LeaseStep, Bind, Prepare, Commit, Release, RecordWaiting, Finish, history
    <3> QED
      BY <1>1, <3>1, <3>2, <3>3
  <2> QED
    BY <2>1, <2>2 DEF LeavesHistory
<1>2. CASE \/ \E w \in Workers : WorkerStarts(w) \/ WorkerExits(w)
           \/ \E q \in Requests : File(q) \/ Decide(q) \/ Spend(q)
           \/ (\E S \in SUBSET Requests : Withdraw(S)) \/ FailsEarly
           \/ UNCHANGED storeVars
  BY <1>2 DEF WorkerStarts, WorkerExits, File, Decide, Spend, Withdraw, FailsEarly, history,
              storeVars, LeavesHistory, Rests
<1>3. CASE Restart
  BY <1>3, RestartKinds
<1>4. CASE FileStep(j) \/ QueueStep(j) \/ \E w \in Workers : LeaseStep(j, w)
  BY <1>4, FileStepKinds, QueueForms, LeaseForms
<1> QED
  BY <1>1, <1>2, <1>3, <1>4 DEF StoreNext

-----------------------------------------------------------------------------
\* Consent alone reopens a job that may not be run.

\* No step but a consented resumption brings a copy that may be run.
LEMMA ClosedStep ==
    ASSUME Inv, [StoreNext]_storeVars, NEW j \in Jobs, Closed(j)
    PROVE  Closed(j)' \/ resumes'[j] = resumes[j] + 1
<1> USE DEF Inv, StoreTypeOK
<1>1. Copies(j)' # {}
  BY CopiesSurvive DEF Closed
<1>2. /\ Copies(j) # {} /\ Copies(j) \subseteq Buckets
      /\ \A b \in Copies(j) : ~ReplaySafe(files[j][b].phase)
  BY DEF Closed, Copies
<1>3. SUFFICES ASSUME resumes'[j] # resumes[j] + 1, NEW b \in Copies(j)'
               PROVE  ~ReplaySafe(files'[j][b].phase)
  BY <1>1 DEF Closed
<1>4. b \in Buckets /\ files'[j][b] # Absent
  BY DEF Copies
<1>5. CASE Formed(j)
  <2>1. ~Submit(j)
    BY <1>2 DEF Submit
  <2>2. CASE Idling(j)
    BY <1>2, <1>4, <2>2 DEF Idling, Copies
  <2>3. ASSUME NEW S \in SUBSET Buckets, Reconcile(j, S)
        PROVE  ~ReplaySafe(files'[j][b].phase)
    <3>1. PICK v \in Record : /\ ~ReplaySafe(v.phase)
                              /\ files' = files \/ files' = [files EXCEPT ![j]["done"] = v]
      BY <2>3, ReconcileGives
    <3> QED
      BY <1>2, <1>4, <3>1 DEF Copies
  <2>4. ASSUME NEW from \in Buckets, NEW to \in Buckets, NEW s \in Record,
               Moving(j, from, to, s)
        PROVE  ~ReplaySafe(files'[j][b].phase)
    <3>1. from \in Copies(j) /\ files' = [files EXCEPT ![j][from] = s]
      BY <2>4 DEF Moving, MoveWith
    <3>2. ~ReplaySafe(s.phase)
      BY <1>2, <1>3, <2>4, <3>1 DEF Moving, Retires, Holds, Requeues, ReplaySafe
    <3> QED
      BY <1>2, <1>4, <3>1, <3>2 DEF Copies
  <2>5. ASSUME NEW s \in Record, Touching(j, s)
        PROVE  ~ReplaySafe(files'[j][b].phase)
    <3>1. /\ "running" \in Copies(j) /\ files' = [files EXCEPT ![j]["running"] = s]
          /\ ~ReplaySafe(s.phase)
      BY <1>2, <2>5 DEF Touching, Touches
    <3> QED
      BY <1>2, <1>4, <3>1 DEF Copies
  <2> QED
    BY <1>5, <2>1, <2>2, <2>3, <2>4, <2>5 DEF Formed
<1>6. ~ClaimWrite(j)
  <2>1. ClaimWrite(j) => Sole(j, "running") /\ Startable(files[j]["running"])
    BY DEF ClaimWrite, MovesAreSound, ClaimReady
  <2> QED
    BY <1>2, <2>1 DEF Sole, Startable, ReplaySafe
<1>7. CASE Rests(j) \/ Drops(j)
  BY <1>2, <1>4, <1>7 DEF Rests, Drops, Copies
<1>8. CASE Carries(j)
  <2>1. files'[j][b] = files[j][b] \/ files'[j][b] = files[j][op[j].from]
    BY <1>4, <1>8 DEF Carries, Copies
  <2> QED
    BY <1>2, <1>4, <1>8, <2>1 DEF Carries, Copies
<1>9. CASE Resurrects(j)
  <2>1. files'[j][b] = files[j][b] \/ files'[j][b] = files[j][op[j].to]
    BY <1>4, <1>9 DEF Resurrects, Copies
  <2> QED
    BY <1>2, <1>4, <1>9, <2>1 DEF Resurrects, Copies
<1> QED
  BY <1>5, <1>6, <1>7, <1>8, <1>9, StepKinds

\* Once no copy of a job permits a run, only a consented resumption makes one
\* that does, in every interleaving of old leases, moves, crashes and scans.
THEOREM ReopeningNeedsConsent == StoreSpec => OnlyConsentReopens
<1>1. Inv /\ [StoreNext]_storeVars =>
        [\A j \in Jobs : Closed(j) => Closed(j)' \/ resumes'[j] = resumes[j] + 1]_storeVars
  BY ClosedStep
<1> QED
  BY <1>1, StoreInvariant, PTL DEF StoreSpec, OnlyConsentReopens

-----------------------------------------------------------------------------
\* A cancellation that was acknowledged is never followed by success.

\* A job whose cancellation was acknowledged carries the mark in every copy, a
\* verdict on duplicates excepted; a marked record neither waits nor ends in
\* success.
CancelHeld(j) ==
    /\ j \in cancelAsked =>
          /\ Copies(j) # {}
          /\ \A b \in Copies(j) :
                files[j][b].cancel \/ (b = "done" /\ files[j][b].status = "error")
          /\ op[j].step = "sync" => files[j][op[j].to].cancel
    /\ "done" \in Copies(j) /\ files[j]["done"].cancel => files[j]["done"].status # "ok"
    /\ "waiting" \in Copies(j) /\ files[j]["waiting"].cancel =>
          files[j]["waiting"].status # "waiting_approval"
    /\ op[j].step = "rename" /\ files[j][op[j].from].cancel =>
          op[j].to # "waiting" /\ (op[j].to = "done" => files[j][op[j].from].status # "ok")

\* An operation of the queue keeps the mark.
LEMMA FormsHoldCancel ==
    ASSUME Inv, NEW j \in Jobs, Formed(j), CancelHeld(j), Copies(j)' # {} \/ Copies(j) = {}
    PROVE  CancelHeld(j)'
<1> USE DEF Inv, StoreTypeOK
<1>1. Copies(j) \subseteq Buckets
  BY DEF Copies
<1>2. CASE Submit(j)
  <2>1. j \notin cancelAsked' /\ op'[j].step = "none"
    BY <1>2 DEF Submit, CancelHeld, Free, NoOp, history
  <2>2. files'[j]["done"] = Absent /\ files'[j]["waiting"] = Absent
    BY <1>2 DEF Submit, Copies, Buckets
  <2> QED
    BY <2>1, <2>2 DEF CancelHeld, Copies
<1>3. CASE Idling(j)
  <2>1. files' = files /\ cancelAsked' = cancelAsked /\ Copies(j)' = Copies(j)
    BY <1>3 DEF Idling, Copies
  <2> QED
    BY <1>3, <2>1 DEF CancelHeld, Idling
<1>4. ASSUME NEW S \in SUBSET Buckets, Reconcile(j, S), Copies(j) # {}
      PROVE  CancelHeld(j)'
  <2>1. PICK v \in Record : /\ v.status = "error"
                            /\ op'[j].step = "remove"
                            /\ files' = files \/ files' = [files EXCEPT ![j]["done"] = v]
    BY <1>4, ReconcileGives
  <2>2. cancelAsked' = cancelAsked /\ Copies(j)' # {}
    BY <1>4 DEF Reconcile, history
  <2>3. \A b \in Buckets : \/ b = "done" /\ files'[j][b] = v
                           \/ files'[j][b] = files[j][b]
    BY <2>1
  <2> QED
    BY <2>1, <2>2, <2>3 DEF CancelHeld, Copies
<1>5. ASSUME NEW from \in Buckets, NEW to \in Buckets, NEW s \in Record, Moving(j, from, to, s)
      PROVE  CancelHeld(j)'
  <2> DEFINE r == files[j][from]
  <2>1. /\ from \in Copies(j) \ {"done"} /\ op'[j].step = "rename"
        /\ op'[j].from = from /\ op'[j].to = to
        /\ files'[j][from] = s /\ \A b \in Buckets \ {from} : files'[j][b] = files[j][b]
    BY <1>5 DEF Moving, MoveWith
  <2>2. Copies(j)' = Copies(j)
    BY <2>1, AbsentIsNoRecord DEF Copies
  <2>3. r.cancel => s.cancel \/ Reopens(r, s)
    BY <1>5 DEF Moving, Retires, Holds, Requeues
  <2>4. ~(r.cancel /\ Reopens(r, s) /\ from = "waiting")
    BY <2>1 DEF CancelHeld, Reopens
  <2>5. r.cancel => s.cancel
    BY <1>5, <2>3, <2>4 DEF Moving, Retires, Holds, Requeues
  <2>6. ASSUME j \in cancelAsked'
        PROVE  \A b \in Copies(j) :
                  files'[j][b].cancel \/ (b = "done" /\ files'[j][b].status = "error")
    <3>1. CASE j \in cancelAsked
      BY <1>1, <2>1, <2>5, <3>1 DEF CancelHeld
    <3>2. CASE j \notin cancelAsked
      <4>1. Sole(j, from) /\ s.cancel
        BY <1>5, <2>6, <3>2 DEF Moving
      <4> QED
        BY <2>1, <4>1 DEF Sole
    <3> QED
      BY <3>1, <3>2
  <2>7. s.status # "waiting_approval" \/ ~s.cancel
    BY <1>5 DEF Moving, Retires, Holds, Requeues, Reopens, Terminal
  <2>8. s.cancel => to # "waiting" /\ (to = "done" => s.status # "ok")
    BY <1>5 DEF Moving, Retires, Holds, Requeues, Reopens
  <2> HIDE DEF r
  <2> QED
    BY <2>1, <2>2, <2>6, <2>7, <2>8 DEF CancelHeld, Buckets
<1>6. ASSUME NEW s \in Record, Touching(j, s)
      PROVE  CancelHeld(j)'
  <2>1. /\ "running" \in Copies(j) /\ op'[j].step = "none"
        /\ files'[j]["running"] = s /\ \A b \in Buckets \ {"running"} : files'[j][b] = files[j][b]
    BY <1>6 DEF Touching, Free, NoOp, Buckets
  <2>2. Copies(j)' = Copies(j)
    BY <2>1, AbsentIsNoRecord DEF Copies
  <2>3. files[j]["running"].cancel => s.cancel
    BY <1>6 DEF Touching, Touches
  <2>4. ASSUME j \in cancelAsked'
        PROVE  \A b \in Copies(j) :
                  files'[j][b].cancel \/ (b = "done" /\ files'[j][b].status = "error")
    <3>1. CASE j \in cancelAsked
      BY <1>1, <2>1, <2>3, <3>1 DEF CancelHeld
    <3>2. CASE j \notin cancelAsked
      <4>1. Sole(j, "running") /\ s.cancel
        BY <1>6, <2>4, <3>2 DEF Touching
      <4> QED
        BY <2>1, <4>1 DEF Sole
    <3> QED
      BY <3>1, <3>2
  <2> QED
    BY <2>1, <2>2, <2>4 DEF CancelHeld, Buckets
<1> QED
  BY <1>2, <1>3, <1>4, <1>5, <1>6 DEF Formed

\* So does every other step.
LEMMA CancelHeldStep ==
    ASSUME Inv, [StoreNext]_storeVars, NEW j \in Jobs, CancelHeld(j)
    PROVE  CancelHeld(j)'
<1> USE DEF Inv, StoreTypeOK
<1>1. Copies(j) # {} => Copies(j)' # {}
  BY CopiesSurvive
<1>2. CASE Formed(j)
  BY <1>1, <1>2, FormsHoldCancel
<1>3. CASE ClaimWrite(j)
  <2> DEFINE r == files[j]["running"]
  <2>1. Copies(j) = {"running"} /\ r \in Record
    BY <1>3, CopiesAreRecords DEF ClaimWrite, MovesAreSound, ClaimReady, Sole
  <2>2. /\ ClaimedBy(r, incarnation) \in Record
        /\ ClaimedBy(r, incarnation).cancel = r.cancel
    BY <2>1, ClaimKeepsShape DEF ClaimedBy, Record
  <2>3. /\ files'[j] = [files[j] EXCEPT !["running"] = ClaimedBy(r, incarnation)]
        /\ op'[j].step = "none" /\ cancelAsked' = cancelAsked
    BY <1>3 DEF ClaimWrite, NoOp
  <2>4. /\ files'[j]["running"].cancel = r.cancel
        /\ files'[j]["done"] = files[j]["done"] /\ files'[j]["waiting"] = files[j]["waiting"]
    BY <2>2, <2>3 DEF Buckets
  <2>5. Copies(j)' = {"running"}
    BY <2>1, <2>2, <2>3, AbsentIsNoRecord DEF Copies, Buckets
  <2> QED
    BY <2>1, <2>3, <2>4, <2>5 DEF CancelHeld
<1>4. CASE Rests(j) /\ LeavesHistory(j)
  BY <1>4 DEF Rests, LeavesHistory, CancelHeld, Copies
<1>5. CASE Drops(j) /\ LeavesHistory(j)
  BY <1>1, <1>5 DEF Drops, LeavesHistory, CancelHeld
<1>6. CASE Carries(j) /\ LeavesHistory(j)
  <2> DEFINE from == op[j].from
             to == op[j].to
  <2>1. /\ from \in Copies(j) \ {"done"} /\ from \in Buckets /\ to \in Buckets \ {from}
        /\ files'[j][to] = files[j][from] /\ files'[j][from] = Absent
        /\ \A b \in Buckets \ {from, to} : files'[j][b] = files[j][b]
    BY <1>6 DEF Carries, Copies
  <2>2. /\ op'[j].step \in {"sync", "claim_sync"} /\ op'[j].to = to
        /\ op[j].step = "rename" \/ to = "running"
    BY <1>6 DEF Carries
  <2>3. \A b \in Copies(j)' : b = to \/ (b \in Copies(j) /\ b # from /\ files'[j][b] = files[j][b])
    BY <2>1 DEF Copies
  <2>4. j \in cancelAsked => files[j][from].cancel
    BY <2>1 DEF CancelHeld
  <2>5. j \in cancelAsked' => j \in cancelAsked
    BY <1>6 DEF LeavesHistory
  <2>6. files[j][from].cancel => to # "waiting" /\ (to = "done" => files[j][from].status # "ok")
    BY <2>2 DEF CancelHeld
  <2> HIDE DEF from, to
  <2>7. ASSUME j \in cancelAsked'
        PROVE  /\ \A b \in Copies(j)' :
                     files'[j][b].cancel \/ (b = "done" /\ files'[j][b].status = "error")
               /\ files'[j][to].cancel
    <3>1. files'[j][to].cancel
      BY <2>1, <2>4, <2>5, <2>7
    <3>2. ASSUME NEW b \in Copies(j)', b # to
          PROVE  files'[j][b].cancel \/ (b = "done" /\ files'[j][b].status = "error")
      BY <2>3, <2>5, <2>7, <3>2 DEF CancelHeld
    <3> QED
      BY <3>1, <3>2
  <2>8. "done" \in Copies(j)' /\ files'[j]["done"].cancel => files'[j]["done"].status # "ok"
    BY <2>1, <2>3, <2>6 DEF CancelHeld
  <2>9. "waiting" \in Copies(j)' /\ files'[j]["waiting"].cancel =>
           files'[j]["waiting"].status # "waiting_approval"
    BY <2>1, <2>3, <2>6 DEF CancelHeld
  <2> QED
    BY <1>1, <2>1, <2>2, <2>5, <2>7, <2>8, <2>9 DEF CancelHeld
<1>7. CASE Resurrects(j) /\ LeavesHistory(j)
  <2> DEFINE from == op[j].from
             to == op[j].to
  <2>1. /\ to \in Copies(j) /\ from \in Buckets \ {"done"}
        /\ files'[j][from] = files[j][to]
        /\ \A b \in Buckets \ {from} : files'[j][b] = files[j][b]
        /\ op'[j].step = "none"
    BY <1>7 DEF Resurrects
  <2>2. j \in cancelAsked => files[j][to].cancel
    BY <1>7, <2>1 DEF CancelHeld, Resurrects
  <2>3. j \in cancelAsked' => j \in cancelAsked
    BY <1>7 DEF LeavesHistory
  <2>4. \A b \in Copies(j)' : b = from \/ (b \in Copies(j) /\ files'[j][b] = files[j][b])
    BY <2>1 DEF Copies
  <2>5. from = "waiting" => files[j][to].status # "waiting_approval"
    BY <1>7 DEF Resurrects, WaitSettled
  <2> HIDE DEF from, to
  <2> QED
    BY <1>1, <2>1, <2>2, <2>3, <2>4, <2>5 DEF CancelHeld
<1> QED
  BY <1>2, <1>3, <1>4, <1>5, <1>6, <1>7, StepKinds

\* An acknowledged cancellation wins over every result that arrives later, on
\* every path that retires, requeues, suspends or resumes the record.
THEOREM CancellationWins == StoreSpec => []CancelledNeverSucceeds
<1> DEFINE Held == \A j \in Jobs : CancelHeld(j)
<1>1. StoreInit => Held
  BY DEF StoreInit, CancelHeld, Copies, NoOp
<1>2. Held /\ Inv /\ [StoreNext]_storeVars => Held'
  BY CancelHeldStep
<1>3. Held /\ Inv => CancelledNeverSucceeds
  <2> SUFFICES ASSUME Held, Inv, NEW j \in cancelAsked PROVE files[j]["done"].status # "ok"
    BY DEF CancelledNeverSucceeds
  <2>1. j \in Jobs
    BY DEF Inv, StoreTypeOK
  <2>2. CASE "done" \in Copies(j)
    BY <2>1, <2>2 DEF CancelHeld
  <2>3. CASE "done" \notin Copies(j)
    BY <2>3 DEF Copies, Buckets, Absent
  <2> QED
    BY <2>2, <2>3
<1> HIDE DEF Held
<1> QED
  BY <1>1, <1>2, <1>3, StoreInvariant, PTL DEF StoreSpec

-----------------------------------------------------------------------------
\* Starts: every claim is covered by the submission, a counted recovery or a
\* consented resumption, and one of them is left for a record that may start.
Counts(r) == IF r.recoveries < MaxRecoveries THEN r.recoveries ELSE MaxRecoveries
Covers(j, r) ==
    /\ claims[j] <= 1 + Counts(r) + resumes[j]
    /\ Startable(r) => claims[j] <= Counts(r) + resumes[j]
StartsCovered(j) ==
    /\ claims[j] <= 1 + MaxRecoveries + resumes[j]
    /\ Copies(j) = {} => claims[j] = 0
    /\ \A b \in Copies(j) \ {"done"} : Covers(j, files[j][b])
    /\ op[j].step = "sync" => Covers(j, files[j][op[j].to])
\* The recovery budget a record used grows with its recoveries.
LEMMA CountsGrow ==
    ASSUME NEW r, NEW s, r.recoveries \in Nat, s.recoveries \in Nat
    PROVE  /\ Counts(r) \in 0 .. MaxRecoveries
           /\ s.recoveries \in {r.recoveries, r.recoveries + 1} => Counts(r) <= Counts(s)
           /\ s.recoveries = r.recoveries => Counts(s) = Counts(r)
           /\ s.recoveries = r.recoveries + 1 /\ r.recoveries < MaxRecoveries =>
                 Counts(s) = Counts(r) + 1
    BY BoundsAreNatural DEF Counts

\* An operation of the queue keeps the starts covered.
LEMMA FormsCoverStarts ==
    ASSUME Inv, NEW j \in Jobs, Formed(j), claims' = claims, StartsCovered(j),
           Copies(j)' = {} => Copies(j) = {}
    PROVE  StartsCovered(j)'
<1> USE DEF Inv, StoreTypeOK
<1>1. /\ claims[j] \in Nat /\ resumes[j] \in Nat /\ MaxRecoveries \in Nat
      /\ Copies(j) \subseteq Buckets /\ \A b \in Copies(j) : files[j][b] \in Record
      /\ \A r \in Record : r.recoveries \in Nat /\ Counts(r) \in Nat
  <2>1. \A r \in Record : r.recoveries \in Nat
    BY DEF Record
  <2>2. \A r \in Record : Counts(r) \in Nat
    BY <2>1, CountsGrow, BoundsAreNatural
  <2> QED
    BY <2>1, <2>2, BoundsAreNatural, CopiesAreRecords DEF Copies
<1>2. CASE Submit(j)
  <2>1. /\ claims[j] = 0 /\ op'[j].step = "none" /\ resumes' = resumes
        /\ files'[j] = [files[j] EXCEPT !["pending"] = NewRecord] /\ Copies(j) = {}
    BY <1>2 DEF Submit, StartsCovered, Free, NoOp, history
  <2>2. Copies(j)' \subseteq {"pending"} /\ files'[j]["pending"] = NewRecord
    BY <2>1 DEF Copies, Buckets
  <2>3. NewRecord \in Record /\ Copies(j)' # {}
    BY <2>1 DEF NewRecord, Record, Statuses, Phases, Terminal, Copies, Buckets, Absent
  <2>4. Counts(NewRecord) \in Nat
    BY <1>1, <2>3
  <2>5. Covers(j, NewRecord)'
    BY <1>1, <2>1, <2>4 DEF Covers
  <2> QED
    BY <1>1, <2>1, <2>2, <2>3, <2>5 DEF StartsCovered, Covers
<1>3. CASE Idling(j)
  <2>1. files' = files /\ resumes' = resumes /\ Copies(j)' = Copies(j)
    BY <1>3 DEF Idling, Copies
  <2> QED
    BY <1>3, <2>1 DEF StartsCovered, Covers, Idling
<1>4. ASSUME NEW S \in SUBSET Buckets, Reconcile(j, S), Copies(j) # {}
      PROVE  StartsCovered(j)'
  <2>1. PICK v \in Record : /\ op'[j].step = "remove"
                            /\ files' = files \/ files' = [files EXCEPT ![j]["done"] = v]
    BY <1>4, ReconcileGives
  <2>2. resumes' = resumes /\ Copies(j)' # {}
    BY <1>4 DEF Reconcile, history
  <2>3. \A b \in Buckets \ {"done"} : files'[j][b] = files[j][b]
    BY <2>1
  <2> QED
    BY <2>1, <2>2, <2>3 DEF StartsCovered, Covers, Copies
<1>5. ASSUME NEW from \in Buckets, NEW to \in Buckets, NEW s \in Record, Moving(j, from, to, s)
      PROVE  StartsCovered(j)'
  <2> DEFINE r == files[j][from]
  <2>1. /\ from \in Copies(j) \ {"done"} /\ op'[j].step = "rename"
        /\ files'[j][from] = s /\ \A b \in Buckets \ {from} : files'[j][b] = files[j][b]
    BY <1>5 DEF Moving, MoveWith
  <2>2. Copies(j)' = Copies(j)
    BY <2>1, AbsentIsNoRecord DEF Copies
  <2>3. r \in Record /\ r.recoveries \in Nat /\ s.recoveries \in Nat
    BY <1>1, <2>1
  <2>4. Counts(r) \in Nat /\ Counts(s) \in Nat
    BY <1>1, <2>3
  <2>5. claims[j] <= 1 + Counts(r) + resumes[j]
    BY <2>1 DEF StartsCovered, Covers
  <2>6. resumes'[j] \in Nat /\ resumes'[j] >= resumes[j]
    BY <1>1, <1>5 DEF Moving
  <2>7. Covers(j, s)'
    <3>1. CASE Retires(r, s) \/ Holds(r, s)
      <4>1. ~Startable(s) /\ Counts(r) <= Counts(s)
        BY <2>3, <3>1, CountsGrow DEF Retires, Holds, Startable, Terminal
      <4> QED
        BY <1>1, <2>4, <2>5, <2>6, <4>1 DEF Covers
    <3>2. CASE Requeues(r, s)
      <4>1. Counts(s) = Counts(r) + 1
        BY <2>3, <3>2, CountsGrow DEF Requeues
      <4> QED
        BY <1>1, <2>4, <2>5, <2>6, <4>1 DEF Covers
    <3>3. CASE Reopens(r, s) /\ resumes' = [resumes EXCEPT ![j] = @ + 1]
      <4>1. Counts(s) = Counts(r) /\ resumes'[j] = resumes[j] + 1
        BY <2>3, <3>3, CountsGrow DEF Reopens
      <4> QED
        BY <1>1, <2>4, <2>5, <4>1 DEF Covers
    <3> QED
      BY <1>5, <3>1, <3>2, <3>3 DEF Moving
  <2>8. ASSUME NEW b \in Copies(j) \ {"done"}, b # from
        PROVE  Covers(j, files[j][b])'
    <3>1. Covers(j, files[j][b]) /\ Counts(files[j][b]) \in Nat /\ files'[j][b] = files[j][b]
      BY <1>1, <2>1, <2>8 DEF StartsCovered
    <3> QED
      BY <1>1, <2>6, <3>1 DEF Covers
  <2>9. claims'[j] <= 1 + MaxRecoveries + resumes'[j]
    BY <1>1, <2>6 DEF StartsCovered
  <2> HIDE DEF r
  <2> QED
    BY <2>1, <2>2, <2>7, <2>8, <2>9 DEF StartsCovered, Covers
<1>6. ASSUME NEW s \in Record, Touching(j, s)
      PROVE  StartsCovered(j)'
  <2> DEFINE r == files[j]["running"]
  <2>1. /\ "running" \in Copies(j) /\ op'[j].step = "none" /\ resumes' = resumes
        /\ files'[j]["running"] = s /\ \A b \in Buckets \ {"running"} : files'[j][b] = files[j][b]
    BY <1>6 DEF Touching, Free, NoOp, Buckets
  <2>2. Copies(j)' = Copies(j)
    BY <2>1, AbsentIsNoRecord DEF Copies
  <2>3. /\ r \in Record /\ s.recoveries = r.recoveries /\ (Startable(s) => Startable(r))
        /\ Covers(j, r)
    BY <1>1, <1>6, <2>1 DEF Touching, Touches, Startable, StartsCovered
  <2>4. Counts(s) = Counts(r)
    BY <2>3 DEF Counts
  <2>5. Covers(j, s)'
    BY <2>1, <2>3, <2>4 DEF Covers
  <2>6. ASSUME NEW b \in Copies(j) \ {"done"}, b # "running"
        PROVE  Covers(j, files[j][b])'
    BY <1>1, <2>1, <2>6 DEF Covers, StartsCovered
  <2> HIDE DEF r
  <2> QED
    BY <2>1, <2>2, <2>5, <2>6 DEF StartsCovered, Covers
<1> QED
  BY <1>2, <1>3, <1>4, <1>5, <1>6 DEF Formed

\* So does every other step; the write of a claim uses up one start.
LEMMA StartsCoveredStep ==
    ASSUME Inv, [StoreNext]_storeVars, NEW j \in Jobs, StartsCovered(j)
    PROVE  StartsCovered(j)'
<1> USE DEF Inv, StoreTypeOK
<1>1. Copies(j)' = {} => Copies(j) = {}
  BY CopiesSurvive
<1>2. CASE Formed(j) /\ claims' = claims
  BY <1>1, <1>2, FormsCoverStarts
<1>3. CASE ClaimWrite(j)
  <2> DEFINE r == files[j]["running"]
             s == ClaimedBy(r, incarnation)
  <2>1. Copies(j) = {"running"} /\ r \in Record /\ Startable(r)
    BY <1>3, CopiesAreRecords DEF ClaimWrite, MovesAreSound, ClaimReady, Sole
  <2>2. s \in Record /\ s.recoveries = r.recoveries /\ ~Startable(s)
    BY <2>1, ClaimKeepsShape DEF ClaimedBy, Record, Startable
  <2>3. /\ files'[j] = [files[j] EXCEPT !["running"] = s] /\ op'[j].step = "none"
        /\ claims'[j] = claims[j] + 1 /\ resumes' = resumes
    BY <1>3 DEF ClaimWrite, NoOp, history
  <2>4. Copies(j)' = {"running"} /\ files'[j]["running"] = s
    BY <2>1, <2>2, <2>3, AbsentIsNoRecord DEF Copies, Buckets
  <2>5. claims[j] <= Counts(r) + resumes[j]
    BY <2>1 DEF StartsCovered, Covers, Buckets
  <2>6. r.recoveries \in Nat
    BY <2>1 DEF Record
  <2>7. Counts(r) \in 0 .. MaxRecoveries /\ Counts(s) = Counts(r)
    BY <2>2, <2>6, CountsGrow
  <2>8. claims[j] \in Nat /\ resumes[j] \in Nat /\ MaxRecoveries \in Nat
    BY BoundsAreNatural
  <2> HIDE DEF r, s
  <2>9. Covers(j, files[j]["running"])' /\ claims'[j] <= 1 + MaxRecoveries + resumes'[j]
    BY <2>2, <2>3, <2>4, <2>5, <2>7, <2>8 DEF Covers
  <2> QED
    BY <2>3, <2>4, <2>9 DEF StartsCovered
<1>4. CASE Rests(j) /\ LeavesHistory(j)
  BY <1>4 DEF Rests, LeavesHistory, StartsCovered, Covers, Copies
<1>5. CASE Drops(j) /\ LeavesHistory(j)
  BY <1>1, <1>5 DEF Drops, LeavesHistory, StartsCovered, Covers
<1>6. CASE Carries(j) /\ LeavesHistory(j)
  <2> DEFINE from == op[j].from
             to == op[j].to
  <2>1. /\ from \in Copies(j) \ {"done"} /\ from \in Buckets /\ to \in Buckets \ {from}
        /\ files'[j][to] = files[j][from] /\ files'[j][from] = Absent
        /\ \A b \in Buckets \ {from, to} : files'[j][b] = files[j][b]
        /\ op'[j].to = to
    BY <1>6 DEF Carries, Copies
  <2>2. \A b \in Copies(j)' : b = to \/ (b \in Copies(j) /\ files'[j][b] = files[j][b])
    BY <2>1 DEF Copies
  <2>3. claims'[j] = claims[j] /\ resumes'[j] = resumes[j]
    BY <1>6 DEF LeavesHistory
  <2>4. Covers(j, files[j][from])
    BY <2>1 DEF StartsCovered
  <2> HIDE DEF from, to
  <2>6. Covers(j, files[j][op[j].to])'
    BY <2>1, <2>3, <2>4 DEF Covers
  <2>7. ASSUME NEW b \in Copies(j)' \ {"done"}
        PROVE  Covers(j, files[j][b])'
    <3>1. CASE b = to
      BY <2>1, <2>6, <3>1
    <3>2. CASE b # to
      BY <2>2, <2>3, <2>7, <3>2 DEF Covers, StartsCovered
    <3> QED
      BY <3>1, <3>2
  <2> QED
    BY <1>1, <2>1, <2>3, <2>6, <2>7 DEF StartsCovered
<1>7. CASE Resurrects(j) /\ LeavesHistory(j)
  <2> DEFINE from == op[j].from
             to == op[j].to
  <2>1. /\ to \in Copies(j) /\ from \in Buckets \ {"done"}
        /\ files'[j][from] = files[j][to]
        /\ \A b \in Buckets \ {from} : files'[j][b] = files[j][b]
        /\ op'[j].step = "none" /\ (to = "done" => op[j].step = "sync")
    BY <1>7 DEF Resurrects
  <2>2. \A b \in Copies(j)' : b = from \/ (b \in Copies(j) /\ files'[j][b] = files[j][b])
    BY <2>1 DEF Copies
  <2>3. claims'[j] = claims[j] /\ resumes'[j] = resumes[j]
    BY <1>7 DEF LeavesHistory
  <2>4. Covers(j, files[j][to])
    BY <2>1 DEF StartsCovered
  <2> HIDE DEF from, to
  <2>5. ASSUME NEW b \in Copies(j)' \ {"done"}
        PROVE  Covers(j, files[j][b])'
    <3>1. CASE b = from
      BY <2>1, <2>3, <2>4, <3>1 DEF Covers
    <3>2. CASE b # from
      BY <2>2, <2>3, <2>5, <3>2 DEF Covers, StartsCovered
    <3> QED
      BY <3>1, <3>2
  <2> QED
    BY <1>1, <2>1, <2>3, <2>5 DEF StartsCovered
<1> QED
  BY <1>2, <1>3, <1>4, <1>5, <1>6, <1>7, StepKinds

\* A job is handed out at most once per submission, counted recovery and
\* consented resumption, however recovery is itself interrupted.
THEOREM StartsStayBounded == StoreSpec => []StartsAreBounded
<1> DEFINE Covered == \A j \in Jobs : StartsCovered(j)
<1>1. StoreInit => Covered
  <2> SUFFICES ASSUME StoreInit, NEW j \in Jobs PROVE StartsCovered(j)
    OBVIOUS
  <2>1. /\ claims[j] = 0 /\ resumes[j] = 0 /\ Copies(j) = {} /\ op[j].step = "none"
        /\ MaxRecoveries \in Nat
    BY BoundsAreNatural DEF StoreInit, Copies, NoOp
  <2> QED
    BY <2>1 DEF StartsCovered
<1>2. Covered /\ Inv /\ [StoreNext]_storeVars => Covered'
  BY StartsCoveredStep
<1>3. Covered => StartsAreBounded
  BY DEF StartsCovered, StartsAreBounded
<1> HIDE DEF Covered
<1> QED
  BY <1>1, <1>2, <1>3, StoreInvariant, PTL DEF StoreSpec
=============================================================================
