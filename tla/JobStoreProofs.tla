--------------------------- MODULE JobStoreProofs ---------------------------
(***************************************************************************)
(* Theorems about JobStore.tla for every number of jobs, workers, requests,*)
(* crashes and I/O errors.  The inductive invariant is StoreTypeOK with    *)
(* MovesAreSound.  Most operations write one record over another and leave *)
(* a rename behind, so they share the two lemmas on MoveWith.              *)
(***************************************************************************)
EXTENDS JobStore, TLAPS

Inv == StoreTypeOK /\ MovesAreSound

-----------------------------------------------------------------------------
\* Records keep their shape.

\* Every transformation of a record that the queue applies gives a record.
LEMMA TransformsKeepShape ==
    ASSUME NEW r \in Record
    PROVE  /\ Cancelled(r) \in Record /\ Suspended(r) \in Record
           /\ Indeterminate(r) \in Record /\ Failed(r) \in Record
           /\ Counted(r) \in Record /\ Requeued(r) \in Record
           /\ Resumed(r) \in Record /\ Ended(r) \in Record
           /\ [Ended(r) EXCEPT !.cancel = TRUE] \in Record
           /\ [Cancelled(r) EXCEPT !.cancel = TRUE] \in Record
<1> USE DEF Record, Statuses, Phases, Terminal
<1>1. /\ Ended(r) \in Record /\ [Ended(r) EXCEPT !.cancel = TRUE] \in Record
      /\ Cancelled(r) \in Record /\ [Cancelled(r) EXCEPT !.cancel = TRUE] \in Record
  BY DEF Ended, Cancelled
<1>2. Suspended(r) \in Record
  BY DEF Suspended
<1>3. Indeterminate(r) \in Record /\ Failed(r) \in Record
  BY DEF Indeterminate, Failed
<1>4. Counted(r) \in Record
  BY DEF Counted
<1>5. Requeued(r) \in Record
  BY DEF Requeued
<1>6. Resumed(r) \in Record
  BY <1>5 DEF Resumed
<1> QED
  BY <1>1, <1>2, <1>3, <1>4, <1>5, <1>6

\* A claimed record names the claiming broker.
LEMMA ClaimKeepsShape ==
    ASSUME NEW r \in Record, NEW broker \in Incarnations
    PROVE  ClaimedBy(r, broker) \in Record
    BY DEF Record, Statuses, Phases, ClaimedBy

\* Replacing the linked requests or the status keeps a record a record.
LEMMA FieldsKeepShape ==
    ASSUME NEW r \in Record, NEW S \in SUBSET Requests
    PROVE  /\ [r EXCEPT !.waitingOn = S] \in Record
           /\ [r EXCEPT !.status = "ok", !.waitingOn = {}] \in Record
<1> USE DEF Record
<1>1. [r EXCEPT !.waitingOn = S] \in Record
  OBVIOUS
<1>2. [r EXCEPT !.status = "ok", !.waitingOn = {}] \in Record
  BY DEF Statuses, Terminal
<1> QED
  BY <1>1, <1>2

\* What a run's outcome makes of its record is a record.
LEMMA FinishKeepsShape ==
    ASSUME NEW r \in Record, NEW outcome \in Outcomes, NEW asked \in SUBSET Requests
    PROVE  FinishedRecord(r, outcome, asked) \in Record
<1>1. CASE outcome = "ok" /\ r.phase = "committed"
  <2>1. FinishedRecord(r, outcome, asked) = [r EXCEPT !.status = "ok", !.waitingOn = {}]
    BY <1>1 DEF FinishedRecord
  <2> QED
    BY <2>1, FieldsKeepShape
<1>2. CASE (outcome = "ok" /\ r.phase # "committed") \/ outcome = "indeterminate"
  <2>0. Indeterminate(r) \in Record /\ {} \in SUBSET Requests
    BY TransformsKeepShape
  <2>1. FinishedRecord(r, outcome, asked) = [Indeterminate(r) EXCEPT !.waitingOn = {}]
    BY <1>2 DEF FinishedRecord
  <2> QED
    BY <2>0, <2>1, FieldsKeepShape
<1>3. CASE outcome = "error"
  <2>0. Failed(r) \in Record /\ {} \in SUBSET Requests
    BY TransformsKeepShape
  <2>1. FinishedRecord(r, outcome, asked) = [Failed(r) EXCEPT !.waitingOn = {}]
    BY <1>3 DEF FinishedRecord
  <2> QED
    BY <2>0, <2>1, FieldsKeepShape
<1>4. CASE outcome = "cancelled"
  <2>1. FinishedRecord(r, outcome, asked) = Cancelled(r)
    BY <1>4 DEF FinishedRecord
  <2> QED
    BY <2>1, TransformsKeepShape
<1>5. CASE outcome = "waiting"
  <2>0. Suspended(r) \in Record
    BY TransformsKeepShape
  <2>1. FinishedRecord(r, outcome, asked) = [Suspended(r) EXCEPT !.waitingOn = asked]
    BY <1>5 DEF FinishedRecord
  <2> QED
    BY <2>0, <2>1, FieldsKeepShape
<1> QED
  BY <1>1, <1>2, <1>3, <1>4, <1>5 DEF Outcomes

\* "Absent" is no record.
LEMMA AbsentIsNoRecord == Absent \notin Record
    BY DEF Absent, Record, Statuses, Terminal

\* A copy is a record in a bucket.
LEMMA CopiesAreRecords ==
    ASSUME StoreTypeOK, NEW j \in Jobs, NEW b \in Copies(j)
    PROVE  b \in Buckets /\ files[j][b] \in Record
    BY DEF StoreTypeOK, Copies

\* Retiring requests leaves every request with a status.
LEMMA DenyingKeepsShape ==
    ASSUME StoreTypeOK, NEW S
    PROVE  Denying(S) \in [Requests -> {"unknown", "pending", "approved", "consumed", "denied"}]
    BY DEF StoreTypeOK, Denying

\* The step every operation shares keeps the shape of files and operations.
LEMMA MoveKeepsShape ==
    ASSUME StoreTypeOK, NEW j \in Jobs, NEW from \in Buckets, NEW to \in Buckets,
           NEW r \in Record, NEW by \in Workers \cup {NoProcess},
           MoveWith(j, from, to, r, by)
    PROVE  /\ files' \in [Jobs -> [Buckets -> Record \cup {Absent}]]
           /\ op' \in [Jobs -> Operation \cup {NoOp}]
    BY DEF StoreTypeOK, MoveWith, Operation

-----------------------------------------------------------------------------
\* The copy that duplicate reconciliation keeps.

\* Among finitely many buckets one weighs most.
LEMMA HeaviestExists ==
    ASSUME NEW S \in SUBSET Buckets, S # {}, NEW f \in [Buckets -> Nat]
    PROVE  \E b \in S : \A c \in S : f[c] <= f[b]
<1> DEFINE P(u) == u = {} \/ \E b \in u : \A c \in u : f[c] <= f[b]
<1>1. ASSUME NEW u \in SUBSET Buckets, NEW x \in Buckets, P(u)
      PROVE  P(u \cup {x})
  <2>1. CASE u = {}
    BY <2>1
  <2>2. CASE u # {}
    <3>1. PICK b \in u : \A c \in u : f[c] <= f[b]
      BY <1>1, <2>2
    <3>2. CASE f[x] <= f[b]
      BY <3>1, <3>2
    <3>3. CASE ~(f[x] <= f[b])
      BY <3>1, <3>3
    <3> QED BY <3>2, <3>3
  <2> QED BY <2>1, <2>2
<1> HIDE DEF P
<1>2. ASSUME NEW u \in SUBSET Buckets, NEW x \in Buckets, P(S \cap u)
      PROVE  P(S \cap (u \cup {x}))
  <2>1. CASE x \in S
    <3>1. S \cap (u \cup {x}) = (S \cap u) \cup {x}
      BY <2>1
    <3> QED BY <1>1, <1>2, <3>1
  <2>2. CASE x \notin S
    <3>1. S \cap (u \cup {x}) = S \cap u
      BY <2>2
    <3> QED BY <1>2, <3>1
  <2> QED BY <2>1, <2>2
<1>3. P(S \cap {})
  BY DEF P
<1>4. P(S \cap {"pending"})
  <2>1. {} \cup {"pending"} = {"pending"} OBVIOUS
  <2> QED BY <1>2, <1>3, <2>1 DEF Buckets
<1>5. P(S \cap {"pending", "running"})
  <2>1. {"pending"} \cup {"running"} = {"pending", "running"} OBVIOUS
  <2> QED BY <1>2, <1>4, <2>1 DEF Buckets
<1>6. P(S \cap {"pending", "running", "waiting"})
  <2>1. {"pending", "running"} \cup {"waiting"} = {"pending", "running", "waiting"} OBVIOUS
  <2> QED BY <1>2, <1>5, <2>1 DEF Buckets
<1>7. P(S \cap Buckets)
  <2>1. {"pending", "running", "waiting"} \cup {"done"} = Buckets BY DEF Buckets
  <2> QED BY <1>2, <1>6, <2>1 DEF Buckets
<1>8. S \cap Buckets = S
  OBVIOUS
<1> QED
  BY <1>7, <1>8 DEF P

\* The dominant copy is one of the copies.
LEMMA DominantIsACopy ==
    ASSUME StoreTypeOK, NEW j \in Jobs, NEW S \in SUBSET Copies(j), S # {}
    PROVE  Dominant(j, S) \in S
<1> DEFINE f == [b \in Buckets |-> IF b \in S THEN Weight(j, b) ELSE 0]
<1>1. \A b \in S : Weight(j, b) \in Nat
  <2> TAKE b \in S
  <2>1. b \in Buckets /\ files[j][b].phase \in Phases
    BY CopiesAreRecords DEF Record
  <2>2. PhaseRank[files[j][b].phase] \in Nat
    BY <2>1 DEF PhaseRank, Phases
  <2>3. BucketRank[b] \in Nat
    BY <2>1 DEF BucketRank, Buckets
  <2> QED
    BY <2>2, <2>3 DEF Weight
<1>2. f \in [Buckets -> Nat]
  BY <1>1
<1>3. S \in SUBSET Buckets
  BY DEF Copies
<1>4. \A b \in S : f[b] = Weight(j, b)
  BY <1>3
<1> HIDE DEF f
<1>5. \E b \in S : \A c \in S : f[c] <= f[b]
  BY <1>2, <1>3, HeaviestExists
<1>6. \E b \in S : \A c \in S : Weight(j, c) <= Weight(j, b)
  BY <1>4, <1>5
<1> QED
  BY <1>6 DEF Dominant

\* What reconciliation writes in done/ never allows a run.
LEMMA VerdictKeepsShape ==
    ASSUME NEW r \in Record \cup {CorruptRecord}
    PROVE  /\ Indeterminate(r) \in Record /\ Indeterminate(r).status = "error"
           /\ ~ReplaySafe(Indeterminate(r).phase)
<1>1. CorruptRecord \in Record
  BY DEF CorruptRecord, NewRecord, Record, Statuses, Phases, Terminal
<1>2. r \in Record
  BY <1>1
<1>3. Indeterminate(r) \in Record
  BY <1>2, TransformsKeepShape
<1>4. Indeterminate(r).phase = "indeterminate" /\ Indeterminate(r).status = "error"
  BY <1>2 DEF Indeterminate, Record
<1> QED
  BY <1>3, <1>4 DEF ReplaySafe

\* Reconciliation either writes such a verdict, or keeps a copy that may be
\* replayed among those its scan found.
LEMMA ReconcileGives ==
    ASSUME StoreTypeOK, NEW j \in Jobs, NEW S \in SUBSET Buckets, Reconcile(j, S)
    PROVE  \E keep \in Buckets, v \in Record :
             /\ ~ReplaySafe(v.phase) /\ v.status = "error"
             /\ op' = [op EXCEPT ![j] = [step |-> "remove", from |-> keep, to |-> keep,
                                        drop |-> S \ {keep}, by |-> NoProcess]]
             /\ \/ keep = "done" /\ files' = [files EXCEPT ![j]["done"] = v]
                \/ /\ keep \in Copies(j) /\ S \subseteq Copies(j)
                   /\ "done" \notin S \cup {keep} /\ ReplaySafe(files[j][keep].phase)
                   /\ files' = files
<1> DEFINE found == S \cap Copies(j)
           refused == S # found \/ \E b \in found : UnsafeCopy(j, b)
           keep == IF refused THEN "done" ELSE Dominant(j, found)
           v == Indeterminate(IF found = {} THEN CorruptRecord
                              ELSE files[j][Dominant(j, found)])
<1>1. found # {} => Dominant(j, found) \in found
  BY DominantIsACopy
<1>2. v \in Record /\ ~ReplaySafe(v.phase) /\ v.status = "error"
  <2>1. found # {} => files[j][Dominant(j, found)] \in Record
    BY <1>1, CopiesAreRecords
  <2> QED
    BY <2>1, VerdictKeepsShape
<1>3. op' = [op EXCEPT ![j] = [step |-> "remove", from |-> keep, to |-> keep,
                               drop |-> S \ {keep}, by |-> NoProcess]]
  BY DEF Reconcile
<1>4. CASE refused
  <2>1. keep = "done" /\ files' = [files EXCEPT ![j]["done"] = v]
    BY <1>4 DEF Reconcile
  <2>2. keep \in Buckets
    BY <2>1 DEF Buckets
  <2> HIDE DEF keep, v
  <2> QED
    BY <1>2, <1>3, <2>1, <2>2
<1>5. CASE ~refused
  <2>1. S # {}
    BY DEF Reconcile
  <2>2. /\ keep \in S /\ S \subseteq Copies(j) /\ files' = files
        /\ \A b \in S : ~UnsafeCopy(j, b)
    BY <1>1, <1>5, <2>1 DEF Reconcile
  <2>3. keep \in Buckets /\ "done" \notin S \cup {keep} /\ ReplaySafe(files[j][keep].phase)
    BY <2>2 DEF UnsafeCopy
  <2> HIDE DEF keep, v
  <2> QED
    BY <1>2, <1>3, <2>2, <2>3
<1> QED
  BY <1>4, <1>5

\* A scan reads a job only where it has a record, or had one and moved on.
LEMMA ScansFindJobs ==
    ASSUME Inv, NEW j \in Jobs, ReconcileDuplicates(j) \/ ReconcileMoved(j)
    PROVE  Copies(j) # {} /\ \E S \in SUBSET Buckets : Reconcile(j, S)
<1>1. Copies(j) \subseteq Buckets /\ seen[j] \subseteq Buckets
  BY DEF Inv, StoreTypeOK, Copies
<1>2. CASE ReconcileDuplicates(j)
  BY <1>1, <1>2 DEF ReconcileDuplicates, Reconcile
<1>3. CASE ReconcileMoved(j)
  <2>1. Copies(j) # {}
    BY <1>3 DEF ReconcileMoved, Inv, MovesAreSound, CopiesAgree
  <2>2. \E S \in SUBSET (seen[j] \cup Copies(j)) : Reconcile(j, S)
    BY <1>3 DEF ReconcileMoved
  <2> QED
    BY <1>1, <2>1, <2>2
<1> QED
  BY <1>2, <1>3

-----------------------------------------------------------------------------
\* Type correctness, one lemma per group of actions.

\* The file steps keep the types.
LEMMA FileStepTypes ==
    ASSUME Inv, NEW j \in Jobs, FileStep(j)
    PROVE  StoreTypeOK'
<1> USE DEF Inv, StoreTypeOK, history, world
<1>1. CASE Rename(j)
  <2>1. op[j] \in Operation
    BY <1>1 DEF Rename, NoOp
  <2>2. op[j].from \in Buckets /\ op[j].to \in Buckets
    BY <2>1 DEF Operation
  <2>3. files' \in [Jobs -> [Buckets -> Record \cup {Absent}]]
    BY <1>1, <2>2 DEF Rename
  <2>4. \A t \in {"sync", "claim_sync"} : [op[j] EXCEPT !.step = t] \in Operation
    BY <2>1 DEF Operation
  <2>5. op' \in [Jobs -> Operation \cup {NoOp}]
    <3>1. PICK t \in {"sync", "claim_sync"} : op' = [op EXCEPT ![j] = [op[j] EXCEPT !.step = t]]
      BY <1>1 DEF Rename
    <3> QED
      BY <2>4, <3>1
  <2> QED
    BY <1>1, <2>3, <2>5 DEF Rename
<1>2. CASE Synced(j)
  BY <1>2 DEF Synced
<1>3. CASE ClaimWrite(j)
  <2>1. files[j]["running"] \in Record
    BY <1>3 DEF ClaimWrite, MovesAreSound, ClaimReady, Sole, Copies, Buckets
  <2>2. ClaimedBy(files[j]["running"], incarnation) \in Record
    BY <2>1, ClaimKeepsShape
  <2>3. files' \in [Jobs -> [Buckets -> Record \cup {Absent}]]
    BY <1>3, <2>2 DEF ClaimWrite, Buckets
  <2> QED
    BY <1>3, <2>3 DEF ClaimWrite
<1>4. CASE RemoveDuplicate(j)
  <2>1. op[j] \in Operation
    BY <1>4 DEF RemoveDuplicate, NoOp
  <2>2. PICK b \in op[j].drop :
           /\ files' = [files EXCEPT ![j][b] = Absent]
           /\ \/ op' = [op EXCEPT ![j] = NoOp]
              \/ op' = [op EXCEPT ![j].drop = op[j].drop \ {b}]
    BY <1>4 DEF RemoveDuplicate
  <2>3. b \in Buckets /\ [op[j] EXCEPT !.drop = op[j].drop \ {b}] \in Operation
    BY <2>1 DEF Operation
  <2>4. files' \in [Jobs -> [Buckets -> Record \cup {Absent}]]
    BY <2>2, <2>3
  <2>5. op' \in [Jobs -> Operation \cup {NoOp}]
    BY <2>2, <2>3
  <2> QED
    BY <1>4, <2>4, <2>5 DEF RemoveDuplicate
<1>5. CASE OpFails(j)
  BY <1>5, BoundsAreNatural DEF OpFails
<1>6. CASE ScanReads(j)
  <2>1. op[j] \in Operation
    BY <1>6 DEF ScanReads
  <2>2. op[j].from \in Buckets
    BY <2>1 DEF Operation
  <2> QED
    BY <1>6, <2>2 DEF ScanReads
<1> QED
  BY <1>1, <1>2, <1>3, <1>4, <1>5, <1>6 DEF FileStep

\* A move that starts from a copy keeps the types.
LEMMA MoveTypes ==
    ASSUME StoreTypeOK, NEW j \in Jobs, NEW from \in Buckets, NEW to \in Buckets,
           NEW r \in Record, NEW by \in Workers \cup {NoProcess},
           MoveWith(j, from, to, r, by),
           consent' \in [Requests -> {"unknown", "pending", "approved", "consumed", "denied"}],
           resumes' \in [Jobs -> 0 .. MaxResumes],
           overdue' \subseteq Jobs, cancelAsked' \subseteq Jobs,
           UNCHANGED <<seen, alive, incarnation, faults, runs, claims>>
    PROVE  StoreTypeOK'
    BY MoveKeepsShape DEF StoreTypeOK

\* Settling an interrupted run keeps the types.
LEMMA SettleTypes ==
    ASSUME StoreTypeOK, NEW j \in Jobs, NEW by \in Workers \cup {NoProcess},
           Sole(j, "running"), SettleInterrupted(j, by),
           UNCHANGED <<overdue, world, history>>
    PROVE  StoreTypeOK'
<1> DEFINE r == files[j]["running"]
<1>1. r \in Record
  BY CopiesAreRecords DEF Sole
<1>2. /\ Cancelled(r) \in Record /\ Suspended(r) \in Record
      /\ Indeterminate(r) \in Record
      /\ Failed(Counted(r)) \in Record /\ Requeued(Counted(r)) \in Record
  <2>1. Counted(r) \in Record
    BY <1>1, TransformsKeepShape
  <2> QED
    BY <1>1, <2>1, TransformsKeepShape
<1>3. consent' \in [Requests -> {"unknown", "pending", "approved", "consumed", "denied"}]
  BY DenyingKeepsShape DEF SettleInterrupted, StoreTypeOK
<1>4. \E to \in Buckets, s \in Record : MoveWith(j, "running", to, s, by)
  BY <1>2 DEF SettleInterrupted, Buckets
<1>5. /\ resumes' \in [Jobs -> 0 .. MaxResumes]
      /\ overdue' \subseteq Jobs /\ cancelAsked' \subseteq Jobs
      /\ UNCHANGED <<seen, alive, incarnation, faults, runs, claims>>
  BY DEF StoreTypeOK, world, history
<1>6. "running" \in Buckets
  BY DEF Buckets
<1> HIDE DEF r
<1> QED
  BY <1>3, <1>4, <1>5, <1>6, MoveTypes

\* Submission, claims, cancellation, recovery and the passes over the queue
\* keep the types.
LEMMA QueueStepTypes ==
    ASSUME Inv, NEW j \in Jobs, QueueStep(j)
    PROVE  StoreTypeOK'
<1> USE DEF Inv
<1>1. \A b \in Copies(j) : b \in Buckets /\ files[j][b] \in Record
  BY CopiesAreRecords
<1>2. CASE Submit(j)
  <2>1. NewRecord \in Record
    BY DEF NewRecord, Record, Statuses, Phases
  <2> QED
    BY <1>2, <2>1 DEF Submit, StoreTypeOK, Buckets, world, history
<1>3. CASE RequestCancel(j)
  <2>1. cancelAsked' \subseteq Jobs /\ UNCHANGED <<overdue, world, runs, claims, resumes>>
    BY <1>3 DEF RequestCancel, StoreTypeOK
  <2>2. CASE CancelPending(j)
    <3>1. [Ended(files[j]["pending"]) EXCEPT !.cancel = TRUE] \in Record
      BY <1>1, <2>2, TransformsKeepShape DEF CancelPending, Sole
    <3> QED
      BY <2>1, <2>2, <3>1, MoveTypes DEF CancelPending, Buckets, world, StoreTypeOK
  <2>3. CASE CancelRunning(j)
    <3>1. [files[j]["running"] EXCEPT !.cancel = TRUE] \in Record
      BY <1>1, <2>3 DEF CancelRunning, Sole, Record
    <3>2. files' \in [Jobs -> [Buckets -> Record \cup {Absent}]]
      BY <2>3, <3>1 DEF CancelRunning, StoreTypeOK, Buckets
    <3> QED
      BY <2>1, <2>3, <3>2 DEF CancelRunning, world, StoreTypeOK
  <2>4. CASE CancelWaiting(j)
    <3>1. [Cancelled(files[j]["waiting"]) EXCEPT !.cancel = TRUE] \in Record
      BY <1>1, <2>4, TransformsKeepShape DEF CancelWaiting, Sole
    <3> QED
      BY <2>1, <2>4, <3>1, MoveTypes, DenyingKeepsShape
      DEF CancelWaiting, Buckets, world, StoreTypeOK
  <2> QED
    BY <1>3, <2>2, <2>3, <2>4 DEF RequestCancel
<1>4. CASE ReconcileDuplicates(j) \/ ReconcileMoved(j)
  <2>1. PICK S \in SUBSET Buckets : Reconcile(j, S)
    BY <1>4, ScansFindJobs
  <2>2. PICK keep \in Buckets, v \in Record :
           /\ op' = [op EXCEPT ![j] = [step |-> "remove", from |-> keep, to |-> keep,
                                      drop |-> S \ {keep}, by |-> NoProcess]]
           /\ files' = files \/ files' = [files EXCEPT ![j]["done"] = v]
    BY <2>1, ReconcileGives
  <2>3. files' \in [Jobs -> [Buckets -> Record \cup {Absent}]]
    <3>1. CASE files' = files
      BY <3>1 DEF StoreTypeOK
    <3>2. CASE files' = [files EXCEPT ![j]["done"] = v]
      <4>1. [files[j] EXCEPT !["done"] = v] \in [Buckets -> Record \cup {Absent}]
        BY DEF StoreTypeOK
      <4> QED
        BY <3>2, <4>1 DEF StoreTypeOK
    <3> QED
      BY <2>2, <3>1, <3>2
  <2>4. op' \in [Jobs -> Operation \cup {NoOp}]
    BY <2>2 DEF StoreTypeOK, Operation
  <2> QED
    BY <2>1, <2>3, <2>4 DEF Reconcile, StoreTypeOK, history
<1>5. CASE Claim(j)
  BY <1>5 DEF Claim, StoreTypeOK, Operation, Buckets, world, history
<1>6. CASE ClaimRefused(j)
  <2>1. /\ Indeterminate(files[j]["pending"]) \in Record
        /\ Failed(files[j]["pending"]) \in Record
        /\ Ended(files[j]["pending"]) \in Record
    BY <1>1, <1>6, TransformsKeepShape DEF ClaimRefused, Sole
  <2> QED
    BY <1>6, <2>1, MoveTypes DEF ClaimRefused, Buckets, world, history, StoreTypeOK
<1>7. CASE Recover(j)
  BY <1>7, SettleTypes DEF Recover
<1>8. CASE RecoverUnverifiable(j)
  <2>1. Indeterminate(files[j]["running"]) \in Record
    BY <1>1, <1>8, TransformsKeepShape DEF RecoverUnverifiable, Sole
  <2> QED
    BY <1>8, <2>1, MoveTypes DEF RecoverUnverifiable, Buckets, world, history, StoreTypeOK
<1>9. CASE ReconcileWaiting(j)
  <2>1. files[j]["waiting"] \in Record
    BY <1>9 DEF ReconcileWaiting, StoreTypeOK, Buckets
  <2>2. Failed(files[j]["waiting"]) \in Record /\ Resumed(files[j]["waiting"]) \in Record
    BY <2>1, TransformsKeepShape
  <2>3. CASE FailWaiting(j)
    BY <1>9, <2>2, <2>3, MoveTypes, DenyingKeepsShape
    DEF ReconcileWaiting, FailWaiting, Buckets, world, StoreTypeOK
  <2>4. CASE Resume(j)
    <3>1. resumes' \in [Jobs -> 0 .. MaxResumes]
      BY <2>4, BoundsAreNatural DEF Resume, StoreTypeOK
    <3>2. /\ consent' = consent /\ overdue' \subseteq Jobs
          /\ UNCHANGED <<world, runs, claims, cancelAsked>>
      BY <1>9, <2>4 DEF ReconcileWaiting, Resume, StoreTypeOK
    <3>3. MoveWith(j, "waiting", "pending", Resumed(files[j]["waiting"]), NoProcess)
      BY <2>4 DEF Resume
    <3> QED
      BY <2>2, <3>1, <3>2, <3>3, MoveTypes DEF Buckets, world, StoreTypeOK
  <2> QED
    BY <1>9, <2>3, <2>4 DEF ReconcileWaiting
<1>10. CASE EightHoursPass(j)
  BY <1>10 DEF EightHoursPass, StoreTypeOK, world, history
<1> QED
  BY <1>2, <1>3, <1>4, <1>5, <1>6, <1>7, <1>8, <1>9, <1>10 DEF QueueStep

\* What a worker's supervisor does to the record keeps the types.
LEMMA LeaseStepTypes ==
    ASSUME Inv, NEW j \in Jobs, NEW w \in Workers, LeaseStep(j, w)
    PROVE  StoreTypeOK'
<1> USE DEF Inv
<1>1. Sole(j, "running") => files[j]["running"] \in Record
  BY CopiesAreRecords DEF Sole
<1>2. CASE Bind(j, w)
  <2>1. [files[j]["running"] EXCEPT !.worker = w] \in Record
    BY <1>1, <1>2 DEF Bind, CanBind, Record
  <2> QED
    BY <1>2, <2>1 DEF Bind, StoreTypeOK, Buckets, world, history
<1>3. CASE Prepare(j, w)
  <2>1. [files[j]["running"] EXCEPT !.phase = "prepared"] \in Record
    BY <1>1, <1>3 DEF Prepare, CanPrepare, Record, Phases
  <2> QED
    BY <1>3, <2>1 DEF Prepare, StoreTypeOK, Buckets, world, history
<1>4. CASE Commit(j, w)
  <2>1. [files[j]["running"] EXCEPT !.phase = "committed"] \in Record
    BY <1>1, <1>4 DEF Commit, CanCommit, Record, Phases
  <2> QED
    BY <1>4, <2>1 DEF Commit, StoreTypeOK, Buckets, world
<1>5. CASE Release(j, w)
  BY <1>5, SettleTypes DEF Release
<1>6. ASSUME NEW q \in Requests, RecordWaiting(j, q)
      PROVE  StoreTypeOK'
  <2>1. files[j]["running"] \in Record
    BY <1>6 DEF RecordWaiting, CanRecordWaiting, StoreTypeOK, Buckets
  <2>2. [files[j]["running"] EXCEPT !.waitingOn = @ \cup {q}] \in Record
    BY <2>1 DEF Record
  <2> QED
    BY <1>6, <2>2 DEF RecordWaiting, StoreTypeOK, Buckets, world, history
<1>7. ASSUME NEW o \in Outcomes, NEW asked \in SUBSET Requests, Finish(j, o, asked, w)
      PROVE  StoreTypeOK'
  <2> DEFINE r == files[j]["running"]
  <2>1. Effective(r, o) \in Outcomes
    BY DEF Effective, Outcomes
  <2>2. r \in Record
    BY <1>1, <1>7 DEF Finish
  <2>3. FinishedRecord(r, Effective(r, o), asked) \in Record
    BY <2>1, <2>2, FinishKeepsShape
  <2>4. \E to \in Buckets : MoveWith(j, "running", to, FinishedRecord(r, Effective(r, o), asked), w)
    BY <1>7 DEF Finish, Buckets
  <2>5. consent' \in [Requests -> {"unknown", "pending", "approved", "consumed", "denied"}]
    BY <1>7, DenyingKeepsShape DEF Finish, StoreTypeOK
  <2>6. "running" \in Buckets
    BY DEF Buckets
  <2> HIDE DEF r
  <2> QED
    BY <1>7, <2>3, <2>4, <2>5, <2>6, MoveTypes DEF Finish, StoreTypeOK, world, history
<1> QED
  BY <1>2, <1>3, <1>4, <1>5, <1>6, <1>7 DEF LeaseStep

\* Processes, people, time and restarts keep the types.
LEMMA WorldTypes ==
    ASSUME Inv,
           \/ \E w \in Workers : WorkerStarts(w) \/ WorkerExits(w)
           \/ \E q \in Requests : File(q) \/ Decide(q) \/ Spend(q)
           \/ \E S \in SUBSET Requests : Withdraw(S)
           \/ FailsEarly \/ Restart
    PROVE  StoreTypeOK'
<1> USE DEF Inv, StoreTypeOK, world, history
<1>1. CASE \E w \in Workers : WorkerStarts(w) \/ WorkerExits(w)
  BY <1>1 DEF WorkerStarts, WorkerExits
<1>2. CASE \E q \in Requests : File(q) \/ Decide(q) \/ Spend(q)
  BY <1>2 DEF File, Decide, Spend
<1>3. CASE \E S \in SUBSET Requests : Withdraw(S)
  BY <1>3, DenyingKeepsShape DEF Withdraw
<1>4. CASE Restart
  <2>1. PICK resurrected \in SUBSET Jobs :
           files' = [j \in Jobs |-> AfterRestart(j, resurrected)]
    BY <1>4 DEF Restart
  <2>2. \A j \in Jobs : AfterRestart(j, resurrected) \in [Buckets -> Record \cup {Absent}]
    BY DEF AfterRestart, Operation
  <2>3. op' \in [Jobs -> Operation \cup {NoOp}]
    BY <1>4 DEF Restart
  <2>4. incarnation' \in Incarnations
    BY <1>4, BoundsAreNatural DEF Restart, Incarnations
  <2> QED
    BY <1>4, <2>1, <2>2, <2>3, <2>4 DEF Restart
<1>5. CASE FailsEarly
  BY <1>5, BoundsAreNatural DEF FailsEarly
<1> QED
  BY <1>1, <1>2, <1>3, <1>4, <1>5

-----------------------------------------------------------------------------
\* Soundness of moves, job by job.

Sound(j) ==
    RenameReady(j) /\ SyncReady(j) /\ ClaimReady(j) /\ RemoveReady(j) /\ CopiesAgree(j)

\* A job whose files, operation, scan and history stay as they are stays sound.
LEMMA FrameSound ==
    ASSUME NEW i \in Jobs, Sound(i), files'[i] = files[i], op'[i] = op[i],
           seen'[i] = seen[i], runs'[i] = runs[i], resumes'[i] = resumes[i]
    PROVE  Sound(i)'
<1>1. Copies(i)' = Copies(i)
  BY DEF Copies
<1> QED
  BY <1>1 DEF Sound, RenameReady, SyncReady, ClaimReady, RemoveReady, CopiesAgree, Sole

\* Writing a settled record over a copy, to be renamed, keeps the job sound.
LEMMA MoveSound ==
    ASSUME StoreTypeOK, NEW j \in Jobs, Sound(j),
           NEW from \in Copies(j), NEW to \in Buckets, NEW r \in Record,
           NEW by \in Workers \cup {NoProcess},
           MoveWith(j, from, to, r, by),
           from # "done", to \notin {from, "running"},
           from # "waiting" => Sole(j, from),
           to = "waiting" => from = "running",
           to = "pending" => r.phase = "unprepared",
           to # "waiting" => WaitSettled(r),
           runs' = runs, resumes'[j] \in Nat, resumes[j] <= resumes'[j],
           ReplaySafe(r.phase) => runs[j] <= resumes'[j]
    PROVE  Sound(j)'
<1> USE DEF Sound
<1>1. /\ from \in Buckets
      /\ files'[j] = [files[j] EXCEPT ![from] = r]
      /\ op'[j] = [step |-> "rename", from |-> from, to |-> to, drop |-> {}, by |-> by]
  BY DEF StoreTypeOK, MoveWith, Copies
<1>2. Copies(j)' = Copies(j)
  BY <1>1, AbsentIsNoRecord DEF Copies, StoreTypeOK
<1>3. files'[j][from] = r /\ \A b \in Buckets \ {from} : files'[j][b] = files[j][b]
  BY <1>1 DEF StoreTypeOK
<1>4. RenameReady(j)'
  BY <1>1, <1>2, <1>3 DEF RenameReady, Sole
<1>5. SyncReady(j)' /\ ClaimReady(j)' /\ RemoveReady(j)'
  BY <1>1 DEF SyncReady, ClaimReady, RemoveReady
<1>6. runs[j] \in Nat /\ resumes[j] \in Nat
  BY BoundsAreNatural DEF StoreTypeOK
<1>7. CopiesAgree(j)'
  <2>1. ASSUME NEW b \in Copies(j), ReplaySafe(files'[j][b].phase)
        PROVE  runs'[j] <= resumes'[j]
    <3>1. CASE b = from
      BY <1>3, <2>1, <3>1
    <3>2. CASE b # from
      BY <1>3, <1>6, <2>1, <3>2 DEF CopiesAgree, Copies
    <3> QED
      BY <3>1, <3>2
  <2>2. ASSUME "pending" \in Copies(j), NEW b \in Copies(j) \ {"running", "done"}
        PROVE  WaitSettled(files'[j][b])
    <3>1. CASE b = from
      BY <1>3, <2>2, <3>1 DEF Sole
    <3>2. CASE b # from
      BY <1>3, <2>2, <3>2 DEF CopiesAgree, Copies
    <3> QED
      BY <3>1, <3>2
  <2>3. runs'[j] <= resumes'[j] + 1
    BY <1>6 DEF CopiesAgree
  <2> QED
    BY <1>2, <2>1, <2>2, <2>3 DEF CopiesAgree
<1> QED
  BY <1>4, <1>5, <1>7

\* Rewriting the running record in place keeps the job sound, when what the
\* new record allows is still to come.
LEMMA RewriteSound ==
    ASSUME StoreTypeOK, NEW j \in Jobs, Sound(j), NEW r \in Record,
           Free(j), "running" \in Copies(j),
           files' = [files EXCEPT ![j]["running"] = r], op'[j] = NoOp,
           runs'[j] \in Nat, resumes'[j] = resumes[j],
           runs'[j] = runs[j] \/ Sole(j, "running"),
           runs'[j] <= resumes[j] + 1,
           ReplaySafe(r.phase) => runs'[j] <= resumes[j]
    PROVE  Sound(j)'
<1> USE DEF Sound
<1>1. files'[j] = [files[j] EXCEPT !["running"] = r]
  BY DEF StoreTypeOK
<1>2. Copies(j)' = Copies(j)
  BY <1>1, AbsentIsNoRecord DEF Copies, StoreTypeOK
<1>3. files'[j]["running"] = r /\ \A b \in Buckets \ {"running"} : files'[j][b] = files[j][b]
  BY <1>1 DEF StoreTypeOK, Buckets
<1>4. RenameReady(j)' /\ SyncReady(j)' /\ ClaimReady(j)' /\ RemoveReady(j)'
  BY DEF RenameReady, SyncReady, ClaimReady, RemoveReady, NoOp
<1>5. CopiesAgree(j)'
  <2>1. ASSUME NEW b \in Copies(j), ReplaySafe(files'[j][b].phase)
        PROVE  runs'[j] <= resumes'[j]
    <3>1. CASE b = "running"
      BY <1>3, <2>1, <3>1
    <3>2. CASE b # "running"
      BY <1>3, <2>1, <3>2 DEF CopiesAgree, Copies, Sole
    <3> QED
      BY <3>1, <3>2
  <2>2. \A b \in Copies(j) \ {"running", "done"} : files'[j][b] = files[j][b]
    BY <1>3 DEF Copies
  <2> QED
    BY <1>2, <2>1, <2>2 DEF CopiesAgree
<1> QED
  BY <1>4, <1>5

\* The file steps keep their job sound.
LEMMA FileStepSound ==
    ASSUME Inv, NEW j \in Jobs, FileStep(j)
    PROVE  Sound(j)'
<1> USE DEF Inv, MovesAreSound, Sound
<1>0. runs[j] \in Nat /\ resumes[j] \in Nat
  BY BoundsAreNatural DEF StoreTypeOK
<1>1. CASE Rename(j)
  <2> DEFINE from == op[j].from
             to == op[j].to
  <2>1. from \in Copies(j) /\ from \in Buckets /\ to \in Buckets /\ from # to
    BY <1>1 DEF Rename, StoreTypeOK, Operation, NoOp, RenameReady, ClaimReady, Sole, Copies
  <2>2. /\ files'[j][to] = files[j][from] /\ files'[j][from] = Absent
        /\ \A b \in Buckets \ {from, to} : files'[j][b] = files[j][b]
    BY <1>1, <2>1 DEF Rename, StoreTypeOK
  <2>3. Copies(j)' = (Copies(j) \ {from}) \cup {to}
    BY <2>1, <2>2 DEF Copies
  <2>4. /\ op'[j].from = from /\ op'[j].to = to
        /\ op[j].step = "rename" => op'[j].step = "sync"
        /\ op[j].step = "claim_rename" => op'[j].step = "claim_sync"
    BY <1>1, <2>1 DEF Rename, StoreTypeOK, Operation, NoOp
  <2>5. CopiesAgree(j)'
    <3>1. runs' = runs /\ resumes' = resumes
      BY <1>1 DEF Rename, history
    <3>2. \A b \in Copies(j)' : ReplaySafe(files'[j][b].phase) => runs[j] <= resumes[j]
      BY <2>1, <2>2, <2>3 DEF CopiesAgree, Copies
    <3>3. ASSUME "pending" \in Copies(j)', NEW b \in Copies(j)' \ {"running", "done"}
          PROVE  WaitSettled(files'[j][b])
      <4>1. CASE b = to
        <5>1. CASE op[j].step = "rename"
          <6>1. to # "waiting" => WaitSettled(files[j][from])
            BY <1>1, <5>1 DEF RenameReady
          <6>2. to = "waiting" => from = "running" /\ Copies(j) = {from}
            BY <1>1, <5>1 DEF RenameReady, Sole
          <6>3. to # "waiting"
            BY <2>3, <3>3, <6>2
          <6> QED
            BY <2>2, <4>1, <6>1, <6>3
        <5>2. CASE op[j].step = "claim_rename"
          BY <1>1, <2>2, <4>1, <5>2 DEF ClaimReady, Startable, WaitSettled
        <5> QED
          BY <1>1, <5>1, <5>2 DEF Rename
      <4>2. CASE b # to
        <5>1. b \in Copies(j) /\ files'[j][b] = files[j][b] /\ from = "waiting"
          BY <1>1, <2>1, <2>2, <2>3, <3>3, <4>2
          DEF Rename, RenameReady, ClaimReady, Sole, Copies
        <5> QED
          BY <2>3, <3>3, <5>1 DEF CopiesAgree, Copies, Buckets
      <4> QED
        BY <4>1, <4>2
    <3> QED
      BY <2>3, <3>1, <3>2, <3>3 DEF CopiesAgree
  <2>6. SyncReady(j)' /\ ClaimReady(j)'
    <3>1. CASE op[j].step = "rename"
      <4>1. /\ from # "done" /\ to # "running"
            /\ from # "waiting" => Sole(j, from)
            /\ to = "waiting" => from = "running"
            /\ to # "waiting" => WaitSettled(files[j][from])
        BY <1>1, <3>1 DEF RenameReady
      <4>2. to \in Copies(j)' /\ (from # "waiting" => Sole(j, to)')
        <5>1. Copies(j) = {from} => Copies(j)' = {to}
          BY <2>3
        <5>2. to \in Copies(j)'
          BY <2>3
        <5> QED
          BY <2>4, <4>1, <5>1, <5>2 DEF Sole
      <4>3. SyncReady(j)'
        BY <2>1, <2>2, <2>4, <3>1, <4>1, <4>2 DEF SyncReady
      <4>4. ClaimReady(j)'
        BY <2>4, <3>1 DEF ClaimReady
      <4> QED
        BY <4>3, <4>4
    <3>2. CASE op[j].step = "claim_rename"
      <4>1. /\ from = "pending" /\ to = "running"
            /\ Sole(j, "pending") /\ Startable(files[j]["pending"])
        BY <1>1, <3>2 DEF ClaimReady
      <4>2. Sole(j, "running")' /\ Startable(files'[j]["running"])
        BY <2>2, <2>3, <4>1 DEF Sole
      <4>3. ClaimReady(j)'
        BY <2>4, <3>2, <4>1, <4>2 DEF ClaimReady
      <4>4. SyncReady(j)'
        BY <2>4, <3>2 DEF SyncReady
      <4> QED
        BY <4>3, <4>4
    <3> QED
      BY <1>1, <3>1, <3>2 DEF Rename
  <2>7. RenameReady(j)' /\ RemoveReady(j)'
    BY <1>1, <2>4 DEF Rename, RenameReady, RemoveReady
  <2> QED
    BY <2>5, <2>6, <2>7
<1>2. CASE Synced(j) \/ OpFails(j)
  <2>1. /\ op'[j] = NoOp /\ UNCHANGED <<files, seen, runs, resumes>>
    BY <1>2 DEF Synced, OpFails, StoreTypeOK, history, world
  <2>2. CopiesAgree(j)' /\ Free(j)'
    BY <2>1 DEF CopiesAgree, Copies, Free
  <2> QED
    BY <2>1, <2>2 DEF RenameReady, SyncReady, ClaimReady, RemoveReady, NoOp
<1>3. CASE ClaimWrite(j)
  <2> DEFINE r == files[j]["running"]
             s == ClaimedBy(r, incarnation)
  <2>1. Sole(j, "running") /\ Startable(r)
    BY <1>3 DEF ClaimWrite, ClaimReady
  <2>2. r \in Record /\ s \in Record
    BY <2>1, CopiesAreRecords, ClaimKeepsShape DEF Sole, StoreTypeOK
  <2>3. files'[j] = [files[j] EXCEPT !["running"] = s]
    BY <1>3 DEF ClaimWrite, StoreTypeOK
  <2>4. Copies(j)' = {"running"} /\ files'[j]["running"] = s
    BY <2>1, <2>2, <2>3, AbsentIsNoRecord DEF Copies, Sole, StoreTypeOK, Buckets
  <2>5. runs[j] <= resumes[j]
    BY <2>1 DEF CopiesAgree, Sole, Startable, ReplaySafe
  <2>6. UNCHANGED <<runs, resumes>> /\ op'[j] = NoOp
    BY <1>3 DEF ClaimWrite, StoreTypeOK
  <2> HIDE DEF s, r
  <2>7. CopiesAgree(j)'
    BY <1>0, <2>4, <2>5, <2>6 DEF CopiesAgree
  <2> QED
    BY <2>6, <2>7 DEF RenameReady, SyncReady, ClaimReady, RemoveReady, NoOp
<1>4. CASE RemoveDuplicate(j)
  <2> DEFINE to == op[j].to
  <2>1. op[j] \in Operation
    BY <1>4 DEF RemoveDuplicate, StoreTypeOK, NoOp
  <2>2. PICK b \in op[j].drop :
           /\ files' = [files EXCEPT ![j][b] = Absent]
           /\ \/ op' = [op EXCEPT ![j] = NoOp]
              \/ op' = [op EXCEPT ![j].drop = op[j].drop \ {b}]
    BY <1>4 DEF RemoveDuplicate
  <2>3. to \in Copies(j) /\ b # to /\ b \in Buckets
    BY <1>4, <2>1, <2>2 DEF RemoveDuplicate, RemoveReady, Operation
  <2>4. /\ Copies(j)' = Copies(j) \ {b}
        /\ \A c \in Copies(j) \ {b} : files'[j][c] = files[j][c]
    BY <2>2, <2>3 DEF Copies, StoreTypeOK
  <2>5. UNCHANGED <<seen, runs, resumes>>
    BY <1>4 DEF RemoveDuplicate, history, world
  <2>6. CopiesAgree(j)'
    BY <2>3, <2>4, <2>5 DEF CopiesAgree
  <2>7. op'[j] = NoOp \/ op'[j] = [op[j] EXCEPT !.drop = op[j].drop \ {b}]
    BY <2>2 DEF StoreTypeOK
  <2>8. op'[j] = NoOp \/ (/\ op'[j].step = "remove" /\ op'[j].to = to
                          /\ op'[j].drop = op[j].drop \ {b})
    BY <1>4, <2>1, <2>7 DEF RemoveDuplicate, Operation
  <2>9. RemoveReady(j)'
    BY <1>4, <2>3, <2>4, <2>8 DEF RemoveDuplicate, RemoveReady, NoOp
  <2> QED
    BY <2>6, <2>8, <2>9 DEF RenameReady, SyncReady, ClaimReady, NoOp
<1>5. CASE ScanReads(j)
  <2>1. Copies(j) # {}
    BY <1>5 DEF ScanReads, RenameReady, ClaimReady, Sole
  <2>2. Copies(j)' = Copies(j) /\ UNCHANGED <<files, op, runs, resumes>>
    BY <1>5 DEF ScanReads, Copies, history
  <2> QED
    BY <2>1, <2>2 DEF RenameReady, SyncReady, ClaimReady, RemoveReady, CopiesAgree, Sole
<1> QED
  BY <1>1, <1>2, <1>3, <1>4, <1>5 DEF FileStep

\* Settling an interrupted run keeps the job sound: what goes back to pending/
\* was never begun since the last consent.
LEMMA SettleSound ==
    ASSUME Inv, NEW j \in Jobs, NEW by \in Workers \cup {NoProcess},
           Sole(j, "running"), SettleInterrupted(j, by), UNCHANGED <<runs, resumes>>
    PROVE  Sound(j)'
<1> USE DEF Inv
<1> DEFINE r == files[j]["running"]
<1>1. Sound(j) /\ "running" \in Copies(j) /\ r \in Record
  BY CopiesAreRecords DEF MovesAreSound, Sound, Sole
<1>2. ReplaySafe(r.phase) => runs[j] <= resumes[j]
  BY <1>1 DEF Sound, CopiesAgree
<1>3. /\ Cancelled(r) \in Record /\ Suspended(r) \in Record /\ Indeterminate(r) \in Record
      /\ Failed(Counted(r)) \in Record /\ Requeued(Counted(r)) \in Record
  BY <1>1, TransformsKeepShape
<1>4. \E to \in Buckets, s \in Record :
         /\ MoveWith(j, "running", to, s, by)
         /\ to \notin {"running"}
         /\ to = "pending" => s.phase = "unprepared"
         /\ to # "waiting" => WaitSettled(s)
         /\ ReplaySafe(s.phase) => runs[j] <= resumes[j]
  <2>1. CASE r.cancel
    BY <1>1, <1>2, <1>3, <2>1 DEF SettleInterrupted, Ended, Cancelled, Record, WaitSettled, Buckets
  <2>2. CASE ~r.cancel /\ r.waitingOn # {}
    BY <1>1, <1>2, <1>3, <2>2 DEF SettleInterrupted, Suspended, Record, Buckets
  <2>3. CASE ~r.cancel /\ r.waitingOn = {} /\ ~ReplaySafe(r.phase)
    BY <1>1, <1>3, <2>3
    DEF SettleInterrupted, Indeterminate, Record, WaitSettled, ReplaySafe, Buckets
  <2>4. CASE ~r.cancel /\ r.waitingOn = {} /\ ReplaySafe(r.phase) /\ ~BudgetLeft(r)
    <3>1. WaitSettled(Failed(Counted(r)))
      BY <1>1 DEF Failed, Counted, Record, WaitSettled
    <3> QED
      BY <1>2, <1>3, <2>4, <3>1 DEF SettleInterrupted, Buckets
  <2>5. CASE ~r.cancel /\ r.waitingOn = {} /\ ReplaySafe(r.phase) /\ BudgetLeft(r)
    <3>1. /\ WaitSettled(Requeued(Counted(r)))
          /\ Requeued(Counted(r)).phase = "unprepared"
      BY <1>1 DEF Requeued, Counted, Record, WaitSettled
    <3> QED
      BY <1>2, <1>3, <2>5, <3>1 DEF SettleInterrupted, Buckets
  <2> QED
    BY <2>1, <2>2, <2>3, <2>4, <2>5
<1>5. resumes[j] \in Nat
  BY BoundsAreNatural DEF StoreTypeOK
<1> HIDE DEF r
<1> QED
  BY <1>1, <1>4, <1>5, MoveSound

\* The queue's operations keep their job sound.
LEMMA QueueStepSound ==
    ASSUME Inv, NEW j \in Jobs, QueueStep(j)
    PROVE  Sound(j)'
<1> USE DEF Inv
<1>1. Sound(j)
  BY DEF MovesAreSound, Sound
<1>2. /\ runs[j] \in Nat /\ resumes[j] \in Nat
      /\ \A b \in Copies(j) : b \in Buckets /\ files[j][b] \in Record
  BY BoundsAreNatural, CopiesAreRecords DEF StoreTypeOK
<1>3. \A b \in Copies(j) : ReplaySafe(files[j][b].phase) => runs[j] <= resumes[j]
  BY <1>1 DEF Sound, CopiesAgree
<1>4. CASE Submit(j)
  <2>1. files'[j] = [files[j] EXCEPT !["pending"] = NewRecord] /\ NewRecord # Absent
    BY <1>4 DEF Submit, StoreTypeOK, NewRecord, Absent
  <2>2. Copies(j)' = {"pending"} /\ files'[j]["pending"] = NewRecord
    BY <1>4, <2>1 DEF Submit, Copies, StoreTypeOK, Buckets
  <2>3. op'[j] = NoOp /\ UNCHANGED <<runs, resumes>>
    BY <1>4 DEF Submit, Free, history
  <2>4. runs[j] = 0
    BY <1>1, <1>4 DEF Submit, Sound, CopiesAgree
  <2>5. CopiesAgree(j)'
    BY <1>2, <2>2, <2>3, <2>4 DEF CopiesAgree, WaitSettled, NewRecord
  <2> QED
    BY <2>3, <2>5 DEF Sound, RenameReady, SyncReady, ClaimReady, RemoveReady, NoOp
<1>5. CASE RequestCancel(j)
  <2>1. UNCHANGED <<runs, resumes>> /\ Free(j)
    BY <1>5 DEF RequestCancel
  <2>2. ASSUME NEW b \in {"pending", "waiting"}, Sole(j, b),
               NEW s \in {[Ended(files[j][b]) EXCEPT !.cancel = TRUE],
                          [Cancelled(files[j][b]) EXCEPT !.cancel = TRUE]},
               MoveWith(j, b, "done", s, NoProcess)
        PROVE  Sound(j)'
    <3> DEFINE r == files[j][b]
    <3>1. b \in Copies(j) /\ r \in Record
      BY <1>2, <2>2 DEF Sole
    <3>2. s \in Record
      BY <2>2, <3>1, TransformsKeepShape
    <3>3. WaitSettled(s) /\ s.phase = r.phase
      BY <2>2, <3>1 DEF Ended, Cancelled, Record, WaitSettled
    <3>4. MoveWith(j, b, "done", s, NoProcess)
      BY <2>2
    <3> HIDE DEF r
    <3>5. ReplaySafe(s.phase) => runs[j] <= resumes[j]
      BY <1>3, <3>1, <3>3 DEF r
    <3> QED
      BY <1>1, <1>2, <2>1, <2>2, <3>1, <3>2, <3>3, <3>4, <3>5, MoveSound DEF Buckets
  <2>3. CASE CancelPending(j)
    BY <2>2, <2>3 DEF CancelPending
  <2>4. CASE CancelWaiting(j)
    BY <2>2, <2>4 DEF CancelWaiting
  <2>5. CASE CancelRunning(j)
    <3> DEFINE r == files[j]["running"]
               s == [r EXCEPT !.cancel = TRUE]
    <3>1. s \in Record /\ s.phase = r.phase
      BY <1>2, <2>5 DEF CancelRunning, Sole, Record
    <3>2. files' = [files EXCEPT ![j]["running"] = s] /\ op'[j] = NoOp
      BY <2>1, <2>5 DEF CancelRunning, Free
    <3>3. runs[j] <= resumes[j] + 1
      BY <1>1 DEF Sound, CopiesAgree
    <3>4. "running" \in Copies(j)
      BY <2>5 DEF CancelRunning, Sole
    <3> HIDE DEF s
    <3> QED
      BY <1>1, <1>2, <1>3, <2>1, <3>1, <3>2, <3>3, <3>4, RewriteSound
  <2> QED
    BY <1>5, <2>3, <2>4, <2>5 DEF RequestCancel
<1>6. CASE ReconcileDuplicates(j) \/ ReconcileMoved(j)
  <2>1. Copies(j) # {} /\ \E S \in SUBSET Buckets : Reconcile(j, S)
    BY <1>6, ScansFindJobs
  <2>2. PICK S \in SUBSET Buckets : Reconcile(j, S)
    BY <2>1
  <2>3. PICK keep \in Buckets, v \in Record :
           /\ ~ReplaySafe(v.phase)
           /\ op' = [op EXCEPT ![j] = [step |-> "remove", from |-> keep, to |-> keep,
                                      drop |-> S \ {keep}, by |-> NoProcess]]
           /\ \/ keep = "done" /\ files' = [files EXCEPT ![j]["done"] = v]
              \/ /\ keep \in Copies(j) /\ S \subseteq Copies(j)
                 /\ "done" \notin S \cup {keep} /\ ReplaySafe(files[j][keep].phase)
                 /\ files' = files
    BY <2>2, ReconcileGives
  <2>4. /\ UNCHANGED <<runs, resumes>>
        /\ op'[j] = [step |-> "remove", from |-> keep, to |-> keep,
                     drop |-> S \ {keep}, by |-> NoProcess]
    BY <2>2, <2>3 DEF Reconcile, StoreTypeOK, history
  <2>5. RenameReady(j)' /\ SyncReady(j)' /\ ClaimReady(j)'
    BY <2>4 DEF RenameReady, SyncReady, ClaimReady
  <2>6. CASE keep = "done" /\ files' = [files EXCEPT ![j]["done"] = v]
    <3>1. files'[j]["done"] = v /\ \A b \in Buckets \ {"done"} : files'[j][b] = files[j][b]
      BY <2>6 DEF StoreTypeOK, Buckets
    <3>2. Copies(j)' = Copies(j) \cup {"done"}
      BY <3>1, AbsentIsNoRecord DEF Copies, Buckets
    <3>3. CopiesAgree(j)'
      BY <1>1, <1>2, <2>1, <2>3, <2>4, <3>1, <3>2 DEF Sound, CopiesAgree
    <3>4. RemoveReady(j)'
      BY <2>4, <2>6, <3>2 DEF RemoveReady
    <3> QED
      BY <2>5, <3>3, <3>4 DEF Sound
  <2>7. CASE /\ keep \in Copies(j) /\ "done" \notin S \cup {keep}
             /\ ReplaySafe(files[j][keep].phase) /\ files' = files
    <3>1. Copies(j)' = Copies(j)
      BY <2>7 DEF Copies
    <3>2. CopiesAgree(j)'
      BY <1>1, <2>1, <2>4, <2>7, <3>1 DEF Sound, CopiesAgree
    <3>3. RemoveReady(j)'
      BY <2>4, <2>7, <3>1 DEF RemoveReady
    <3> QED
      BY <2>5, <3>2, <3>3 DEF Sound
  <2> QED
    BY <2>3, <2>6, <2>7
<1>7. CASE Claim(j)
  <2>1. /\ UNCHANGED <<files, seen, runs, resumes>>
        /\ op'[j] = [step |-> "claim_rename", from |-> "pending", to |-> "running",
                     drop |-> {}, by |-> NoProcess]
    BY <1>7 DEF Claim, StoreTypeOK, history, world
  <2>2. Copies(j)' = Copies(j) /\ CopiesAgree(j)'
    BY <1>1, <2>1 DEF Sound, CopiesAgree, Copies
  <2>3. ClaimReady(j)'
    BY <1>7, <2>1, <2>2 DEF Claim, ClaimReady, Sole
  <2> QED
    BY <2>1, <2>2, <2>3 DEF Sound, RenameReady, SyncReady, RemoveReady
<1>8. CASE ClaimRefused(j) \/ RecoverUnverifiable(j)
  <2>1. PICK from \in {"pending", "running"} :
           \E s \in {Indeterminate(files[j][from]), Failed(files[j][from]),
                     Ended(files[j][from])} :
           /\ Sole(j, from) /\ MoveWith(j, from, "done", s, NoProcess)
           /\ UNCHANGED <<runs, resumes>>
    BY <1>8 DEF ClaimRefused, RecoverUnverifiable, history
  <2>2. \A r \in Record :
           /\ WaitSettled(Indeterminate(r)) /\ WaitSettled(Failed(r)) /\ WaitSettled(Ended(r))
           /\ ~ReplaySafe(Indeterminate(r).phase)
           /\ Failed(r).phase = r.phase /\ Ended(r).phase = r.phase
    BY DEF Ended, Indeterminate, Failed, Record, WaitSettled, ReplaySafe
  <2>3. files[j][from] \in Record /\ from \in Copies(j)
    BY <1>2, <2>1 DEF Sole
  <2>4. PICK s \in {Indeterminate(files[j][from]), Failed(files[j][from]),
                    Ended(files[j][from])} :
           MoveWith(j, from, "done", s, NoProcess)
    BY <2>1
  <2>5. s \in Record /\ WaitSettled(s) /\ (ReplaySafe(s.phase) => runs[j] <= resumes[j])
    BY <1>3, <2>2, <2>3, <2>4, TransformsKeepShape
  <2> QED
    BY <1>1, <1>2, <2>1, <2>3, <2>4, <2>5, MoveSound DEF Buckets
<1>9. CASE Recover(j)
  BY <1>9, SettleSound DEF Recover, history
<1>10. CASE ReconcileWaiting(j)
  <2> DEFINE r == files[j]["waiting"]
  <2>1. "waiting" \in Copies(j) /\ r \in Record
    BY <1>2, <1>10 DEF ReconcileWaiting, Copies, Buckets
  <2>2. /\ Failed(r) \in Record /\ WaitSettled(Failed(r)) /\ Failed(r).phase = r.phase
        /\ Resumed(r) \in Record /\ WaitSettled(Resumed(r)) /\ Resumed(r).phase = "unprepared"
    BY <2>1, TransformsKeepShape DEF Failed, Resumed, Requeued, Record, WaitSettled
  <2>3. CASE FailWaiting(j)
    BY <1>1, <1>2, <1>3, <1>10, <2>1, <2>2, <2>3, MoveSound
    DEF FailWaiting, ReconcileWaiting, Buckets
  <2>4. CASE Resume(j)
    <3>1. /\ MoveWith(j, "waiting", "pending", Resumed(r), NoProcess)
          /\ resumes'[j] = resumes[j] + 1 /\ runs' = runs
      BY <1>10, <2>4 DEF Resume, ReconcileWaiting, StoreTypeOK
    <3>2. runs[j] <= resumes[j] + 1
      BY <1>1 DEF Sound, CopiesAgree
    <3> HIDE DEF r
    <3> QED
      BY <1>1, <1>2, <2>1, <2>2, <3>1, <3>2, MoveSound DEF Buckets
  <2> QED
    BY <1>10, <2>3, <2>4 DEF ReconcileWaiting
<1>11. CASE EightHoursPass(j)
  BY <1>1, <1>11, FrameSound DEF EightHoursPass, history, world
<1> QED
  BY <1>4, <1>5, <1>6, <1>7, <1>8, <1>9, <1>10, <1>11 DEF QueueStep

\* The worker's lease operations keep their job sound.
LEMMA LeaseStepSound ==
    ASSUME Inv, NEW j \in Jobs, NEW w \in Workers, LeaseStep(j, w)
    PROVE  Sound(j)'
<1> USE DEF Inv
<1> DEFINE r == files[j]["running"]
<1>1. Sound(j)
  BY DEF MovesAreSound, Sound
<1>2. /\ runs[j] \in Nat /\ resumes[j] \in Nat
      /\ "running" \in Copies(j) => r \in Record
      /\ Sole(j, "running") => "running" \in Copies(j)
  BY BoundsAreNatural, CopiesAreRecords DEF StoreTypeOK, Sole
<1>3. /\ "running" \in Copies(j) /\ ReplaySafe(r.phase) => runs[j] <= resumes[j]
      /\ runs[j] <= resumes[j] + 1
  BY <1>1 DEF Sound, CopiesAgree
<1>4. ASSUME NEW s \in Record, Free(j), "running" \in Copies(j),
             files' = [files EXCEPT ![j]["running"] = s], op' = op,
             runs' = runs, resumes' = resumes,
             ReplaySafe(s.phase) => ReplaySafe(r.phase)
      PROVE  Sound(j)'
  <2> HIDE DEF r
  <2> QED
    BY <1>1, <1>2, <1>3, <1>4, RewriteSound DEF Free
<1>5. CASE Bind(j, w)
  <2>1. [r EXCEPT !.worker = w] \in Record /\ [r EXCEPT !.worker = w].phase = r.phase
    BY <1>2, <1>5 DEF Bind, CanBind, Record
  <2> QED
    BY <1>2, <1>4, <1>5, <2>1 DEF Bind, CanBind, history
<1>6. CASE Prepare(j, w)
  <2>1. [r EXCEPT !.phase = "prepared"] \in Record /\ ReplaySafe(r.phase)
    BY <1>2, <1>6 DEF Prepare, CanPrepare, Record, Phases, ReplaySafe
  <2> QED
    BY <1>2, <1>4, <1>6, <2>1 DEF Prepare, CanPrepare, history
<1>7. CASE Commit(j, w)
  <2> DEFINE s == [r EXCEPT !.phase = "committed"]
  <2>1. s \in Record /\ ~ReplaySafe(s.phase) /\ ReplaySafe(r.phase)
    BY <1>2, <1>7 DEF Commit, CanCommit, Record, Phases, ReplaySafe
  <2>2. /\ files' = [files EXCEPT ![j]["running"] = s] /\ op'[j] = NoOp
        /\ runs'[j] = runs[j] + 1 /\ resumes' = resumes
        /\ Free(j) /\ Sole(j, "running")
    BY <1>7 DEF Commit, CanCommit, Free, StoreTypeOK
  <2>3. "running" \in Copies(j)
    BY <1>2, <2>2
  <2>4. runs'[j] \in Nat /\ runs'[j] <= resumes[j] + 1
    BY <1>2, <1>3, <2>1, <2>2, <2>3
  <2> HIDE DEF s, r
  <2> QED
    BY <1>1, <2>1, <2>2, <2>3, <2>4, RewriteSound
<1>8. CASE Release(j, w)
  BY <1>8, SettleSound DEF Release, history
<1>9. ASSUME NEW q \in Requests, RecordWaiting(j, q)
      PROVE  Sound(j)'
  <2> DEFINE s == [r EXCEPT !.waitingOn = @ \cup {q}]
  <2>1. "running" \in Copies(j) /\ r \in Record
    BY <1>2, <1>9 DEF RecordWaiting, CanRecordWaiting, Copies, Buckets
  <2>2. s \in Record /\ s.phase = r.phase
    BY <2>1 DEF Record
  <2> QED
    BY <1>4, <1>9, <2>1, <2>2 DEF RecordWaiting, CanRecordWaiting, history
<1>10. ASSUME NEW o \in Outcomes, NEW asked \in SUBSET Requests, Finish(j, o, asked, w)
       PROVE  Sound(j)'
  <2> DEFINE e == Effective(r, o)
             s == FinishedRecord(r, e, asked)
             to == IF e = "waiting" THEN "waiting" ELSE "done"
  <2>1. Sole(j, "running") /\ MoveWith(j, "running", to, s, w) /\ UNCHANGED <<runs, resumes>>
    BY <1>10 DEF Finish, history
  <2>2. r \in Record /\ e \in Outcomes
    BY <1>2, <2>1 DEF Effective, Outcomes
  <2>3. s \in Record
    BY <2>2, FinishKeepsShape
  <2>4. /\ to # "waiting" => WaitSettled(s)
        /\ ReplaySafe(s.phase) => ReplaySafe(r.phase)
    <3> HIDE DEF e
    <3> QED
      BY <2>2 DEF FinishedRecord, Outcomes, WaitSettled, ReplaySafe, Indeterminate, Failed,
                  Ended, Cancelled, Suspended, Record
  <2>5. to \in Buckets \ {"running", "pending"} /\ runs' = runs /\ resumes' = resumes
    BY <2>1 DEF Buckets
  <2>6. ReplaySafe(s.phase) => runs[j] <= resumes[j]
    BY <1>2, <1>3, <2>1, <2>4
  <2> HIDE DEF s, e, r, to
  <2> QED
    BY <1>1, <1>2, <2>1, <2>3, <2>4, <2>5, <2>6, MoveSound
<1> QED
  BY <1>5, <1>6, <1>7, <1>8, <1>9, <1>10 DEF LeaseStep

\* A restart frees every job; what a power loss brings back is a second copy
\* with the content of the first.
LEMMA RestartSound ==
    ASSUME Inv, Restart, NEW j \in Jobs
    PROVE  Sound(j)'
<1> USE DEF Inv, MovesAreSound
<1>1. op'[j] = NoOp /\ seen'[j] = {} /\ UNCHANGED <<runs, resumes>>
  BY DEF Restart, history
<1>2. PICK back \in SUBSET Jobs : files'[j] = AfterRestart(j, back)
  BY DEF Restart
<1>3. CopiesAgree(j)'
  <2>1. CASE files'[j] = files[j]
    BY <1>1, <2>1 DEF CopiesAgree, Copies
  <2>2. CASE files'[j] # files[j]
    <3> DEFINE from == op[j].from
               to == op[j].to
    <3>1. /\ op[j].step \in {"sync", "claim_sync"}
          /\ files'[j] = [files[j] EXCEPT ![from] = files[j][to]]
      BY <1>2, <2>2 DEF AfterRestart
    <3>2. op[j] \in Operation
      BY <3>1 DEF StoreTypeOK, NoOp
    <3>3. from \in Buckets /\ to \in Copies(j) /\ from # to
      BY <3>1, <3>2 DEF Operation, SyncReady, ClaimReady, Sole
    <3>4. /\ Copies(j)' = Copies(j) \cup {from}
          /\ files'[j][from] = files[j][to]
          /\ \A b \in Buckets \ {from} : files'[j][b] = files[j][b]
      BY <3>1, <3>3 DEF StoreTypeOK, Copies
    <3>5. ASSUME "pending" \in Copies(j)', NEW b \in Copies(j)' \ {"running", "done"}
          PROVE  WaitSettled(files'[j][b])
      <4>1. CASE b = from
        BY <3>1, <3>3, <3>4, <3>5, <4>1
        DEF SyncReady, ClaimReady, Startable, WaitSettled, Sole
      <4>2. CASE b # from
        BY <3>1, <3>3, <3>4, <3>5, <4>2
        DEF SyncReady, ClaimReady, Startable, WaitSettled, Sole, CopiesAgree, Copies
      <4> QED
        BY <4>1, <4>2
    <3> QED
      BY <1>1, <3>3, <3>4, <3>5 DEF CopiesAgree, Copies
  <2> QED
    BY <2>1, <2>2
<1> QED
  BY <1>1, <1>3 DEF Sound, RenameReady, SyncReady, ClaimReady, RemoveReady, NoOp

-----------------------------------------------------------------------------
\* The inductive invariant and what it gives.

\* A step on behalf of one job leaves the other jobs' files, operations,
\* scans and history alone.
LEMMA OthersUntouched ==
    ASSUME Inv, NEW j \in Jobs, NEW i \in Jobs \ {j},
           \/ FileStep(j) \/ QueueStep(j)
           \/ \E w \in Workers : LeaseStep(j, w)
    PROVE  /\ files'[i] = files[i] /\ op'[i] = op[i] /\ seen'[i] = seen[i]
           /\ runs'[i] = runs[i] /\ resumes'[i] = resumes[i]
<1> USE DEF Inv, StoreTypeOK, history, world
<1>1. CASE FileStep(j)
  BY <1>1 DEF FileStep, Rename, Synced, ClaimWrite, RemoveDuplicate, OpFails, ScanReads
<1>2. CASE QueueStep(j)
  BY <1>2 DEF QueueStep, Submit, RequestCancel, CancelPending, CancelRunning, CancelWaiting,
       ReconcileDuplicates, ReconcileMoved, Reconcile, Claim, ClaimRefused, Recover, SettleInterrupted,
       RecoverUnverifiable, ReconcileWaiting, FailWaiting, Resume, EightHoursPass, MoveWith
<1>3. CASE \E w \in Workers : LeaseStep(j, w)
  BY <1>3 DEF LeaseStep, Bind, Prepare, Commit, Release, SettleInterrupted,
       RecordWaiting, Finish, MoveWith
<1> QED
  BY <1>1, <1>2, <1>3

\* The invariant holds initially.
LEMMA InvInit == StoreInit => Inv
<1> SUFFICES ASSUME StoreInit PROVE Inv
  OBVIOUS
<1>1. StoreTypeOK
  BY BoundsAreNatural DEF StoreInit, StoreTypeOK, Incarnations
<1>2. \A j \in Jobs : /\ op[j] = NoOp /\ Copies(j) = {} /\ seen[j] = {}
                       /\ runs[j] = 0 /\ resumes[j] = 0
  BY DEF StoreInit, Copies
<1>3. MovesAreSound
  BY <1>2 DEF MovesAreSound, RenameReady, SyncReady, ClaimReady, RemoveReady, CopiesAgree, NoOp
<1> QED
  BY <1>1, <1>3 DEF Inv

\* Every step, of whichever actor, keeps the invariant.
LEMMA InvStep == Inv /\ [StoreNext]_storeVars => Inv'
<1> SUFFICES ASSUME Inv, [StoreNext]_storeVars PROVE Inv'
  OBVIOUS
<1>0. \A i \in Jobs : Sound(i)
  BY DEF Inv, MovesAreSound, Sound
<1>1. ASSUME NEW j \in Jobs, FileStep(j) \/ QueueStep(j) \/ \E w \in Workers : LeaseStep(j, w)
      PROVE  Inv'
  <2>1. StoreTypeOK'
    BY <1>1, FileStepTypes, QueueStepTypes, LeaseStepTypes
  <2>2. Sound(j)'
    BY <1>1, FileStepSound, QueueStepSound, LeaseStepSound
  <2>3. \A i \in Jobs \ {j} : Sound(i)'
    BY <1>0, <1>1, OthersUntouched, FrameSound
  <2> QED
    BY <2>1, <2>2, <2>3 DEF Inv, MovesAreSound, Sound
<1>2. CASE \/ \E w \in Workers : WorkerStarts(w) \/ WorkerExits(w)
           \/ \E q \in Requests : File(q) \/ Decide(q) \/ Spend(q)
           \/ (\E S \in SUBSET Requests : Withdraw(S)) \/ FailsEarly
  <2>1. StoreTypeOK'
    BY <1>2, WorldTypes
  <2>2. UNCHANGED <<files, op, seen, runs, resumes>>
    BY <1>2 DEF WorkerStarts, WorkerExits, File, Decide, Spend, Withdraw, FailsEarly,
                history, world
  <2>3. \A i \in Jobs : Sound(i)'
    BY <1>0, <2>2, FrameSound
  <2> QED
    BY <2>1, <2>3 DEF Inv, MovesAreSound, Sound
<1>3. CASE Restart
  <2>1. StoreTypeOK'
    BY <1>3, WorldTypes
  <2>2. \A i \in Jobs : Sound(i)'
    BY <1>3, RestartSound
  <2> QED
    BY <2>1, <2>2 DEF Inv, MovesAreSound, Sound
<1>4. CASE UNCHANGED storeVars
  <2>1. StoreTypeOK'
    BY <1>4 DEF storeVars, Inv, StoreTypeOK
  <2>2. \A i \in Jobs : Sound(i)'
    BY <1>0, <1>4, FrameSound DEF storeVars
  <2> QED
    BY <2>1, <2>2 DEF Inv, MovesAreSound, Sound
<1> QED
  BY <1>1, <1>2, <1>3, <1>4 DEF StoreNext

\* The store's records, operations and counters keep their shape, and the
\* copies of a job agree on whether its work may begin, through every
\* interleaving, crash, power loss and I/O error.
THEOREM StoreInvariant == StoreSpec => []Inv
  BY InvInit, InvStep, PTL DEF StoreSpec

\* Type correctness of the store.
THEOREM StoreTypeCorrect == StoreSpec => []StoreTypeOK
<1>1. Inv => StoreTypeOK
  BY DEF Inv
<1> QED
  BY <1>1, StoreInvariant, PTL

\* What the lock holder relies on holds whenever it takes its next file step.
THEOREM MovesStaySound == StoreSpec => []MovesAreSound
<1>1. Inv => MovesAreSound
  BY DEF Inv
<1> QED
  BY <1>1, StoreInvariant, PTL

\* The work of a job begins at most once for its submission and once more for
\* every consent that resumed it.
THEOREM RunsNeedConsent == StoreSpec => []AtMostOneRunPerConsent
<1>1. Inv => AtMostOneRunPerConsent
  BY DEF Inv, MovesAreSound, CopiesAgree, AtMostOneRunPerConsent
<1> QED
  BY <1>1, StoreInvariant, PTL
=============================================================================
