------------------------------ MODULE JobStore ------------------------------
(***************************************************************************)
(* The durable agent job queue of core/src/agent/service.rs ("Store"): one *)
(* JSON record per job, held in one of four directories (buckets).  A      *)
(* transition writes the new record over the old file and then renames it  *)
(* into its next bucket; a claim renames first and writes afterwards.      *)
(* Every operation holds the job's lock file, so two operations on one job *)
(* never overlap, but the broker can die between any two of these file     *)
(* steps, and a power loss can bring back the source name of a rename      *)
(* whose source directory was not yet synced.  The scan for duplicates,    *)
(* which comes before almost every operation, lists the buckets one after  *)
(* the other and takes no lock, so records move while it reads.            *)
(*                                                                         *)
(* This module leaves the callers open: any worker identity may call any   *)
(* operation at any time.  Supervision.tla supplies the real callers.      *)
(***************************************************************************)
EXTENDS Naturals, FiniteSets

CONSTANTS
    Jobs,           \* job ids
    Workers,        \* worker process identities (pid, start time)
    Requests,       \* approval request ids
    NoProcess,      \* "no worker recorded"
    MaxRecoveries,  \* MAX_RECOVERIES
    MaxRestarts,    \* bound: broker restarts
    MaxFaults,      \* bound: operations cut short by an I/O error
    MaxResumes      \* bound: resumptions of one job by consent

Incarnations == 0 .. MaxRestarts   \* identities of successive brokers

ASSUME BoundsAreNatural ==
    /\ MaxRecoveries \in Nat /\ MaxRestarts \in Nat
    /\ MaxFaults \in Nat /\ MaxResumes \in Nat
ASSUME ProcessesAreDistinct ==
    /\ NoProcess \notin Workers \cup Nat
    /\ Workers \cap Nat = {}

Buckets  == {"pending", "running", "waiting", "done"}
Terminal == {"ok", "error", "cancelled"}
Statuses == {"pending", "running", "waiting_approval"} \cup Terminal
Phases   == {"unprepared", "preparing", "prepared", "committed", "indeterminate"}
ReplaySafeOnceCommitted(phase) == phase # "indeterminate"
ReplaySafe(phase) == phase \in {"unprepared", "preparing", "prepared"}

\* A worker serves exactly one lease, so its identity also stands for the
\* prepare and commit nonces that the broker draws for that lease.
Record ==
    [status : Statuses, phase : Phases,
     worker : Workers \cup Incarnations \cup {NoProcess},
     cancel : BOOLEAN, waitingOn : SUBSET Requests,
     resumedAfter : SUBSET Requests, recoveries : Nat]

Absent == [status |-> "absent"]

\* The lock holder's remaining file steps: "rename" has its source written,
\* "sync" has renamed and still has to sync the source directory, "remove"
\* keeps the copy in "to" and still has to unlink those in "drop".
Operation ==
    [step : {"rename", "sync", "claim_rename", "claim_sync", "remove"},
     from : Buckets, to : Buckets, drop : SUBSET Buckets,
     by : Workers \cup {NoProcess}]
NoOp == [step |-> "none"]

VARIABLES
    files,        \* files[j][b]: the record of job j in bucket b, or Absent
    op,           \* op[j]: the operation holding j's lock, or NoOp
    seen,         \* seen[j]: where a scan under way read j's record before it moved
    alive,        \* worker processes the kernel reports as running
    incarnation,  \* identity of the current broker process
    consent,      \* approval store: status of each request
    overdue,      \* jobs whose approval wait is older than eight hours
    faults,       \* I/O errors so far
    runs,         \* history: durable commits of each job
    claims,       \* history: claims of each job
    resumes,      \* history: resumptions by consent of each job
    cancelAsked   \* history: jobs whose cancellation was acknowledged

history == <<runs, claims, resumes, cancelAsked>>
world == <<alive, incarnation, faults, seen>>
storeVars == <<files, op, seen, alive, incarnation, consent, overdue, faults,
               runs, claims, resumes, cancelAsked>>

Copies(j) == {b \in Buckets : files[j][b] # Absent}
SoleUnchecked(j, b) == b \in Copies(j)
Sole(j, b) == Copies(j) = {b}
Free(j) == op[j] = NoOp
Live(p) == p = incarnation \/ p \in alive

NewRecord ==
    [status |-> "pending", phase |-> "unprepared", worker |-> NoProcess,
     cancel |-> FALSE, waitingOn |-> {}, resumedAfter |-> {}, recoveries |-> 0]

StoreInit ==
    /\ files = [j \in Jobs |-> [b \in Buckets |-> Absent]]
    /\ op = [j \in Jobs |-> NoOp]
    /\ seen = [j \in Jobs |-> {}]
    /\ alive = {}
    /\ incarnation = 0
    /\ consent = [q \in Requests |-> "unknown"]
    /\ overdue = {}
    /\ faults = 0
    /\ runs = [j \in Jobs |-> 0]
    /\ claims = [j \in Jobs |-> 0]
    /\ resumes = [j \in Jobs |-> 0]
    /\ cancelAsked = {}

-----------------------------------------------------------------------------
\* Record transformations

Ended(r) == [r EXCEPT !.status = "cancelled"]
Cancelled(r) == [Ended(r) EXCEPT !.waitingOn = {}]
Suspended(r) == [r EXCEPT !.status = "waiting_approval", !.worker = NoProcess]
Indeterminate(r) == [r EXCEPT !.status = "error", !.phase = "indeterminate"]
Failed(r) == [r EXCEPT !.status = "error"]
Counted(r) == [r EXCEPT !.recoveries = @ + 1]
RequeuedFromDefaults(r) ==
    [status |-> "pending", phase |-> "unprepared", worker |-> NoProcess,
     cancel |-> FALSE]
RequeuedKeepingPhase(r) ==
    [r EXCEPT !.status = "pending", !.worker = NoProcess, !.cancel = FALSE]
Requeued(r) ==
    [r EXCEPT !.status = "pending", !.phase = "unprepared",
              !.worker = NoProcess, !.cancel = FALSE]
Resumed(r) ==
    [Requeued(r) EXCEPT !.resumedAfter = r.waitingOn, !.waitingOn = {}]
ClaimedBy(r, broker) ==
    [r EXCEPT !.status = "running", !.phase = "preparing", !.worker = broker]

DenyingLinked(S) == [q \in Requests |-> IF q \in S THEN "denied" ELSE consent[q]]

\* deny_waiting_approvals retires only the requests still undecided.
Denying(S) ==
    [q \in Requests |-> IF q \in S /\ consent[q] = "pending"
                        THEN "denied" ELSE consent[q]]

\* write_json_atomic over the source file, then durable_rename: two steps.
MoveWith(j, from, to, r, by) ==
    /\ files' = [files EXCEPT ![j][from] = r]
    /\ op' = [op EXCEPT ![j] = [step |-> "rename", from |-> from, to |-> to,
                                drop |-> {}, by |-> by]]

-----------------------------------------------------------------------------
\* The file steps every operation shares

Rename(j) ==
    LET o == op[j] IN
    /\ o.step \in {"rename", "claim_rename"}
    /\ files' = [files EXCEPT ![j][o.to] = files[j][o.from], ![j][o.from] = Absent]
    /\ op' = [op EXCEPT ![j].step = IF o.step = "rename" THEN "sync" ELSE "claim_sync"]
    /\ UNCHANGED <<consent, overdue, world, history>>

Synced(j) ==
    /\ op[j].step = "sync"
    /\ op' = [op EXCEPT ![j] = NoOp]
    /\ UNCHANGED <<files, consent, overdue, world, history>>

\* Only now does the claimed file say who owns it.
ClaimWrite(j) ==
    /\ op[j].step = "claim_sync"
    /\ files' = [files EXCEPT ![j]["running"] = ClaimedBy(@, incarnation)]
    /\ op' = [op EXCEPT ![j] = NoOp]
    /\ claims' = [claims EXCEPT ![j] = @ + 1]
    /\ UNCHANGED <<consent, overdue, world, runs, resumes, cancelAsked>>

\* An I/O error ends the operation: the steps already taken stay.
OpFails(j) ==
    /\ ~Free(j)
    /\ faults < MaxFaults
    /\ faults' = faults + 1
    /\ op' = [op EXCEPT ![j] = NoOp]
    /\ UNCHANGED <<files, seen, alive, incarnation, consent, overdue, history>>

\* An operation can also fail before it has written anything.
FailsEarly ==
    /\ faults < MaxFaults
    /\ faults' = faults + 1
    /\ UNCHANGED <<files, op, seen, alive, incarnation, consent, overdue, history>>

\* The broker dies and starts again.  Its workers die with it (PDEATHSIG).
\* A rename whose source directory was not synced may leave both names.
AfterRestartSourceFirst(j, resurrected) ==
    IF op[j] # NoOp /\ op[j].step \in {"sync", "claim_sync"} /\ j \in resurrected
    THEN [files[j] EXCEPT ![op[j].to] = Absent]
    ELSE files[j]
AfterRestart(j, resurrected) ==
    IF op[j] # NoOp /\ op[j].step \in {"sync", "claim_sync"} /\ j \in resurrected
    THEN [files[j] EXCEPT ![op[j].from] = files[j][op[j].to]]
    ELSE files[j]

Restart ==
    /\ incarnation < MaxRestarts
    /\ incarnation' = incarnation + 1
    /\ alive' = {}
    /\ \E resurrected \in SUBSET Jobs :
          files' = [j \in Jobs |-> AfterRestart(j, resurrected)]
    /\ op' = [j \in Jobs |-> NoOp]
    /\ seen' = [j \in Jobs |-> {}]
    /\ UNCHANGED <<consent, overdue, faults, history>>

-----------------------------------------------------------------------------
\* Duplicate reconciliation: every operation that takes Sole(j, b) below
\* calls it first, so none of them runs on a job with two copies.

PhaseRank ==
    [p \in Phases |-> CASE p = "unprepared" -> 0 [] p = "preparing" -> 1
                        [] p = "prepared" -> 2 [] p = "committed" -> 3
                        [] p = "indeterminate" -> 5]
BucketRank ==
    [b \in Buckets |-> CASE b = "pending" -> 0 [] b = "running" -> 1
                         [] b = "waiting" -> 2 [] b = "done" -> 3]
Weight(j, b) == 4 * PhaseRank[files[j][b].phase] + BucketRank[b]

UnsafeCopy(j, b) ==
    \/ b = "done"
    \/ ~ReplaySafe(files[j][b].phase)
    \/ files[j][b].status \in Terminal

Dominant(j, S) ==
    CHOOSE b \in S : \A c \in S : Weight(j, c) <= Weight(j, b)

CorruptRecord == [NewRecord EXCEPT !.status = "error", !.phase = "indeterminate"]

\* The scan lists pending/, running/, waiting/, done/ in this order and reads
\* a bucket at any time before the record leaves it: at the last moment here.
ScanReads(j) ==
    /\ op[j] # NoOp /\ op[j].step \in {"rename", "claim_rename"}
    /\ \E earlier \in {{}, seen[j]} :
          /\ \A b \in earlier : BucketRank[b] < BucketRank[op[j].from]
          /\ seen' = [seen EXCEPT ![j] = earlier \cup {op[j].from}]
    /\ UNCHANGED <<files, op, alive, incarnation, faults, consent, overdue, history>>

\* S: the buckets that listed the job.  Under the lock, a listed record that
\* cannot be read any more counts as corrupt.
Reconcile(j, S) ==
    LET found == S \cap Copies(j)
        refused == S # found \/ \E b \in found : UnsafeCopy(j, b)
        keep == IF refused THEN "done" ELSE Dominant(j, found)
        verdict == Indeterminate(IF found = {} THEN CorruptRecord
                                 ELSE files[j][Dominant(j, found)])
    IN
    /\ Free(j)
    /\ \E b, c \in S : b # c
    /\ files' = IF refused THEN [files EXCEPT ![j]["done"] = verdict] ELSE files
    /\ op' = [op EXCEPT ![j] = [step |-> "remove", from |-> keep, to |-> keep,
                                drop |-> S \ {keep}, by |-> NoProcess]]
    /\ seen' = [seen EXCEPT ![j] = {}]
    /\ UNCHANGED <<alive, incarnation, faults, consent, overdue, history>>

ReconcileDuplicates(j) == Reconcile(j, Copies(j))

\* The record moved on between two listings of one scan.
ReconcileMoved(j) ==
    /\ seen[j] # {}
    /\ \E S \in SUBSET (seen[j] \cup Copies(j)) : seen[j] \subseteq S /\ Reconcile(j, S)

\* Unlinking a name that is gone already succeeds.
RemoveDuplicate(j) ==
    /\ op[j].step = "remove"
    /\ \E b \in op[j].drop :
          /\ files' = [files EXCEPT ![j][b] = Absent]
          /\ op' = IF op[j].drop = {b} THEN [op EXCEPT ![j] = NoOp]
                   ELSE [op EXCEPT ![j].drop = op[j].drop \ {b}]
    /\ UNCHANGED <<consent, overdue, world, history>>

-----------------------------------------------------------------------------
\* Submission, claim and cancellation

Submit(j) ==
    /\ Free(j) /\ Copies(j) = {}
    /\ files' = [files EXCEPT ![j]["pending"] = NewRecord]
    /\ UNCHANGED <<op, consent, overdue, world, history>>

Startable(r) == r.status = "pending" /\ r.phase = "unprepared"

\* Admission (predecessors, Activity state, execution reservation) may also
\* skip the job, which changes nothing, or refuse it: ClaimRefused, with an
\* error or, when its Activity has ended, by cancelling it.
Claim(j) ==
    /\ Free(j) /\ Sole(j, "pending")
    /\ Startable(files[j]["pending"])
    /\ op' = [op EXCEPT ![j] = [step |-> "claim_rename", from |-> "pending",
                                to |-> "running", drop |-> {}, by |-> NoProcess]]
    /\ UNCHANGED <<files, consent, overdue, world, history>>

ClaimRefused(j) ==
    LET r == files[j]["pending"] IN
    /\ Free(j) /\ Sole(j, "pending")
    /\ \/ ~Startable(r) /\ MoveWith(j, "pending", "done", Indeterminate(r), NoProcess)
       \/ Startable(r) /\ MoveWith(j, "pending", "done", Failed(r), NoProcess)
       \/ Startable(r) /\ MoveWith(j, "pending", "done", Ended(r), NoProcess)
    /\ UNCHANGED <<consent, overdue, world, history>>

CancelPending(j) ==
    LET r == files[j]["pending"] IN
    /\ Sole(j, "pending")
    /\ MoveWith(j, "pending", "done", [Ended(r) EXCEPT !.cancel = TRUE], NoProcess)
    /\ UNCHANGED consent

\* A running job is only marked; its supervisor polls the mark.
CancelRunning(j) ==
    /\ Sole(j, "running")
    /\ files' = [files EXCEPT ![j]["running"].cancel = TRUE]
    /\ UNCHANGED <<op, consent>>

CancelWaitingSilently(j) ==
    LET r == files[j]["waiting"] IN
    /\ Sole(j, "waiting")
    /\ MoveWith(j, "waiting", "done", [Cancelled(r) EXCEPT !.cancel = TRUE], NoProcess)
    /\ UNCHANGED consent
CancelWaiting(j) ==
    LET r == files[j]["waiting"] IN
    /\ Sole(j, "waiting")
    /\ consent' = Denying(r.waitingOn)
    /\ MoveWith(j, "waiting", "done", [Cancelled(r) EXCEPT !.cancel = TRUE], NoProcess)

RequestCancel(j) ==
    /\ Free(j)
    /\ CancelPending(j) \/ CancelRunning(j) \/ CancelWaiting(j)
    /\ cancelAsked' = cancelAsked \cup {j}
    /\ UNCHANGED <<overdue, world, runs, claims, resumes>>

-----------------------------------------------------------------------------
\* A run that ended without a result: recovery and release share this tail.

BudgetLeftOffByOne(r) == r.recoveries <= MaxRecoveries
BudgetLeft(r) == r.recoveries < MaxRecoveries

SettleInterrupted(j, by) ==
    LET r == files[j]["running"] IN
    \/ /\ r.cancel
       /\ consent' = Denying(r.waitingOn)
       /\ MoveWith(j, "running", "done", Cancelled(r), by)
    \/ /\ ~r.cancel /\ r.waitingOn # {}
       /\ MoveWith(j, "running", "waiting", Suspended(r), by)
       /\ UNCHANGED consent
    \/ /\ ~r.cancel /\ r.waitingOn = {} /\ ~ReplaySafe(r.phase)
       /\ MoveWith(j, "running", "done", Indeterminate(r), by)
       /\ UNCHANGED consent
    \/ /\ ~r.cancel /\ r.waitingOn = {} /\ ReplaySafe(r.phase)
       /\ ~BudgetLeft(r)
       /\ MoveWith(j, "running", "done", Failed(Counted(r)), by)
       /\ UNCHANGED consent
    \/ /\ ~r.cancel /\ r.waitingOn = {} /\ ReplaySafe(r.phase)
       /\ BudgetLeft(r)
       /\ MoveWith(j, "running", "pending", Requeued(Counted(r)), by)
       /\ UNCHANGED consent

\* recover_orphaned_jobs looks at the cancellation mark and at the pending
\* approvals before it looks at the worker.
OrphanedByMarkOnly(r) == r.cancel \/ r.waitingOn # {}
Orphaned(r) == r.cancel \/ r.waitingOn # {} \/ ~Live(r.worker)

Recover(j) ==
    /\ Free(j) /\ Sole(j, "running")
    /\ Orphaned(files[j]["running"])
    /\ SettleInterrupted(j, NoProcess)
    /\ UNCHANGED <<overdue, world, history>>

\* A recorded pid that is alive again but whose start time cannot be read.
RecoverUnverifiable(j) ==
    LET r == files[j]["running"] IN
    /\ Free(j) /\ Sole(j, "running")
    /\ ~r.cancel /\ r.waitingOn = {}
    /\ r.worker # NoProcess /\ ~Live(r.worker)
    /\ MoveWith(j, "running", "done", Indeterminate(r), NoProcess)
    /\ UNCHANGED <<consent, overdue, world, history>>

Release(j, by) ==
    /\ Free(j) /\ Sole(j, "running")
    /\ SettleInterrupted(j, by)
    /\ UNCHANGED <<overdue, world, history>>

-----------------------------------------------------------------------------
\* The lease of a worker on a running record

CanBind(j) ==
    /\ Free(j) /\ Sole(j, "running")
    /\ files[j]["running"].status = "running"
    /\ files[j]["running"].phase = "preparing"

Bind(j, w) ==
    /\ CanBind(j)
    /\ files' = [files EXCEPT ![j]["running"].worker = w]
    /\ UNCHANGED <<op, consent, overdue, world, history>>

CanPrepareAnyPhase(j, w) ==
    /\ Free(j) /\ Sole(j, "running")
    /\ files[j]["running"].worker = w
CanPrepare(j, w) ==
    /\ Free(j) /\ Sole(j, "running")
    /\ files[j]["running"].worker = w
    /\ files[j]["running"].phase = "preparing"

Prepare(j, w) ==
    /\ CanPrepare(j, w)
    /\ files' = [files EXCEPT ![j]["running"].phase = "prepared"]
    /\ UNCHANGED <<op, consent, overdue, world, history>>

CanCommit(j, w) ==
    /\ Free(j) /\ Sole(j, "running")
    /\ files[j]["running"].worker = w
    /\ files[j]["running"].phase = "prepared"

CommitUnrecorded(j, w) ==
    /\ CanCommit(j, w)
    /\ runs' = [runs EXCEPT ![j] = @ + 1]
    /\ UNCHANGED <<files, op, consent, overdue, world, claims, resumes, cancelAsked>>
Commit(j, w) ==
    /\ CanCommit(j, w)
    /\ files' = [files EXCEPT ![j]["running"].phase = "committed"]
    /\ runs' = [runs EXCEPT ![j] = @ + 1]
    /\ UNCHANGED <<op, consent, overdue, world, claims, resumes, cancelAsked>>

\* No duplicate reconciliation and no identity check here.
CanRecordWaiting(j) == Free(j) /\ files[j]["running"] # Absent

RecordWaiting(j, q) ==
    /\ CanRecordWaiting(j)
    /\ files' = [files EXCEPT ![j]["running"].waitingOn = @ \cup {q}]
    /\ UNCHANGED <<op, consent, overdue, world, history>>

-----------------------------------------------------------------------------
\* The end of a run

Outcomes == {"ok", "error", "indeterminate", "cancelled", "waiting"}

FinishedRecord(r, outcome, asked) ==
    CASE outcome = "ok" /\ r.phase = "committed" -> [r EXCEPT !.status = "ok", !.waitingOn = {}]
      [] outcome = "ok" /\ r.phase # "committed" -> [Indeterminate(r) EXCEPT !.waitingOn = {}]
      [] outcome = "error" -> [Failed(r) EXCEPT !.waitingOn = {}]
      [] outcome = "indeterminate" -> [Indeterminate(r) EXCEPT !.waitingOn = {}]
      [] outcome = "cancelled" -> Cancelled(r)
      [] outcome = "waiting" -> [Suspended(r) EXCEPT !.waitingOn = asked]

\* A cancellation mark overrides whatever the worker reported.
EffectiveAsReported(r, outcome) == outcome
Effective(r, outcome) == IF r.cancel THEN "cancelled" ELSE outcome

Finish(j, outcome, asked, by) ==
    LET r == files[j]["running"]
        o == Effective(r, outcome)
        linked == IF r.cancel /\ outcome = "waiting" THEN asked ELSE r.waitingOn
    IN
    /\ Free(j) /\ Sole(j, "running")
    /\ o = "waiting" => asked # {}
    /\ consent' = IF o = "waiting" THEN consent ELSE Denying(linked)
    /\ MoveWith(j, "running", IF o = "waiting" THEN "waiting" ELSE "done",
                FinishedRecord(r, o, asked), by)
    /\ UNCHANGED <<overdue, world, history>>

-----------------------------------------------------------------------------
\* Approval waits.  This pass does not reconcile duplicates first.

Granted(r) == \A q \in r.waitingOn : consent[q] \in {"approved", "consumed"}
Refused(r) == \E q \in r.waitingOn : consent[q] \in {"denied", "unknown"}
ValidWait(r) == r.status = "waiting_approval" /\ r.waitingOn # {}

FailWaiting(j) ==
    LET r == files[j]["waiting"] IN
    /\ consent' = Denying(r.waitingOn)
    /\ MoveWith(j, "waiting", "done", Failed(r), NoProcess)
    /\ UNCHANGED <<overdue, resumes>>

Resume(j) ==
    LET r == files[j]["waiting"] IN
    /\ resumes[j] < MaxResumes
    /\ resumes' = [resumes EXCEPT ![j] = @ + 1]
    /\ overdue' = overdue \ {j}
    /\ MoveWith(j, "waiting", "pending", Resumed(r), NoProcess)
    /\ UNCHANGED consent

ReconcileWaiting(j) ==
    LET r == files[j]["waiting"] IN
    /\ Free(j) /\ r # Absent
    /\ \/ ~ValidWait(r) /\ FailWaiting(j)
       \/ ValidWait(r) /\ j \in overdue /\ FailWaiting(j)
       \/ ValidWait(r) /\ j \notin overdue /\ Granted(r) /\ Resume(j)
       \/ ValidWait(r) /\ j \notin overdue /\ Refused(r) /\ FailWaiting(j)
    /\ UNCHANGED <<world, runs, claims, cancelAsked>>

-----------------------------------------------------------------------------
\* The environment: processes, people and time

WorkerStarts(w) ==
    /\ w \notin alive
    /\ alive' = alive \cup {w}
    /\ UNCHANGED <<files, op, seen, incarnation, consent, overdue, faults, history>>

WorkerExits(w) ==
    /\ w \in alive
    /\ alive' = alive \ {w}
    /\ UNCHANGED <<files, op, seen, incarnation, consent, overdue, faults, history>>

File(q) ==
    /\ consent[q] = "unknown"
    /\ consent' = [consent EXCEPT ![q] = "pending"]
    /\ UNCHANGED <<files, op, overdue, world, history>>

Decide(q) ==
    /\ consent[q] = "pending"
    /\ \E d \in {"approved", "denied"} : consent' = [consent EXCEPT ![q] = d]
    /\ UNCHANGED <<files, op, overdue, world, history>>

\* The broker retires undecided requests of a task or a worker lease.
Withdraw(S) ==
    /\ consent' = Denying(S)
    /\ UNCHANGED <<files, op, overdue, world, history>>

Spend(q) ==
    /\ consent[q] = "approved"
    /\ consent' = [consent EXCEPT ![q] = "consumed"]
    /\ UNCHANGED <<files, op, overdue, world, history>>

EightHoursPass(j) ==
    /\ Free(j)
    /\ files[j]["waiting"] # Absent /\ j \notin overdue
    /\ overdue' = overdue \cup {j}
    /\ UNCHANGED <<files, op, consent, world, history>>

FileStep(j) ==
    Rename(j) \/ Synced(j) \/ ClaimWrite(j) \/ RemoveDuplicate(j) \/ OpFails(j)
    \/ ScanReads(j)

QueueStep(j) ==
    \/ Submit(j) \/ RequestCancel(j)
    \/ ReconcileDuplicates(j) \/ ReconcileMoved(j) \/ Claim(j) \/ ClaimRefused(j)
    \/ Recover(j) \/ RecoverUnverifiable(j) \/ ReconcileWaiting(j)
    \/ EightHoursPass(j)

LeaseStep(j, w) ==
    \/ Bind(j, w) \/ Prepare(j, w) \/ Commit(j, w) \/ Release(j, w)
    \/ \E q \in Requests : RecordWaiting(j, q)
    \/ \E o \in Outcomes, asked \in SUBSET Requests : Finish(j, o, asked, w)

StoreNext ==
    \/ \E j \in Jobs : FileStep(j) \/ QueueStep(j)
    \/ \E j \in Jobs, w \in Workers : LeaseStep(j, w)
    \/ \E w \in Workers : WorkerStarts(w) \/ WorkerExits(w)
    \/ \E q \in Requests : File(q) \/ Decide(q) \/ Spend(q)
    \/ \E S \in SUBSET Requests : Withdraw(S)
    \/ FailsEarly \/ Restart

StoreSpec == StoreInit /\ [][StoreNext]_storeVars

-----------------------------------------------------------------------------
StoreTypeOK ==
    /\ files \in [Jobs -> [Buckets -> Record \cup {Absent}]]
    /\ op \in [Jobs -> Operation \cup {NoOp}]
    /\ seen \in [Jobs -> SUBSET Buckets]
    /\ alive \subseteq Workers
    /\ incarnation \in Incarnations
    /\ consent \in [Requests -> {"unknown", "pending", "approved", "consumed", "denied"}]
    /\ overdue \subseteq Jobs
    /\ faults \in 0 .. MaxFaults
    /\ runs \in [Jobs -> Nat]
    /\ claims \in [Jobs -> Nat]
    /\ resumes \in [Jobs -> 0 .. MaxResumes]
    /\ cancelAsked \subseteq Jobs

\* The work of a job begins at most once per submission or consented
\* resumption, whatever crashes, retries and callers do in between: the
\* phase is what recovery, release and reconciliation decide replay by.
AtMostOneRunPerConsent == \A j \in Jobs : runs[j] <= resumes[j] + 1

\* A job that keeps killing its workers is handed out at most once more than
\* MAX_RECOVERIES allows, however recovery is itself interrupted.
StartsAreBounded ==
    \A j \in Jobs : claims[j] <= 1 + MaxRecoveries + resumes[j]

\* An acknowledged cancellation wins over every result that arrives later,
\* on every path that retires, requeues or resumes the record.
CancelledNeverSucceeds ==
    \A j \in cancelAsked : files[j]["done"].status # "ok"

\* Nothing starts a job that has a terminal copy, even next to a copy of it
\* that a power loss brought back to another bucket.
DoneAbsorbs ==
    [][\A j \in Jobs : files[j]["done"] # Absent =>
          /\ files'[j]["done"] # Absent
          /\ runs'[j] = runs[j] /\ claims'[j] = claims[j]]_storeVars

\* An accepted job keeps at least one record through every move, crash and
\* removal of duplicates.
NoJobLost ==
    [][\A j \in Jobs : Copies(j) # {} => \E b \in Buckets : files'[j][b] # Absent]_storeVars

\* The durable point of no return: once no copy of a job permits a run, only
\* a consented resumption makes one that does, whoever still holds an old
\* lease, a half-done move or a resurrected file of it.
Closed(j) ==
    Copies(j) # {} /\ \A b \in Copies(j) : ~ReplaySafe(files[j][b].phase)
OnlyConsentReopens ==
    [][\A j \in Jobs : Closed(j) => Closed(j)' \/ resumes'[j] = resumes[j] + 1]_storeVars

\* service.rs: "two workers can race for the same job without corrupting it".
\* A result that was filed stands, as long as no crash and no I/O error left
\* real duplicates behind.
ResultStands ==
    [][\A j \in Jobs : (files[j]["done"].status = "ok" /\ incarnation = 0 /\ faults = 0)
          => files'[j]["done"].status = "ok"]_storeVars

\* agent/MODULE.md: a waiting task is requeued "when every linked request is
\* approved" and finished with an error when a request "is denied,
\* disappears, or remains undecided for eight hours".
Linked(r) == r.waitingOn \cup r.resumedAfter
ConsentHonoured ==
    [][\A j \in Jobs :
          LET r == files[j]["waiting"]
              s == files'[j]["waiting"]
          IN (r # Absent /\ r.status \notin Terminal /\ s.status = "error") =>
                 \/ j \in overdue
                 \/ \E q \in Linked(r) : consent[q] \notin {"approved", "consumed"}]_storeVars

-----------------------------------------------------------------------------
\* What the lock holder's next file step relies on.

WaitSettled(r) == r.status # "waiting_approval"

RenameReady(j) ==
    LET o == op[j] IN o.step = "rename" =>
        /\ o.from \in Copies(j) /\ o.from # "done" /\ o.to \notin {o.from, "running"}
        /\ o.from # "waiting" => Sole(j, o.from)
        /\ o.to = "waiting" => o.from = "running"
        /\ o.to = "pending" => files[j][o.from].phase = "unprepared"
        /\ o.to # "waiting" => WaitSettled(files[j][o.from])

SyncReady(j) ==
    LET o == op[j] IN o.step = "sync" =>
        /\ o.to \in Copies(j) /\ o.from # o.to
        /\ o.from \notin {"waiting", "done"} => Sole(j, o.to)
        /\ o.from # "done" /\ o.to # "running"
        /\ o.to = "waiting" => o.from = "running"
        /\ o.to # "waiting" => WaitSettled(files[j][o.to])

ClaimReady(j) ==
    LET o == op[j] IN o.step \in {"claim_rename", "claim_sync"} =>
        /\ o.from = "pending" /\ o.to = "running"
        /\ o.step = "claim_rename" => Sole(j, "pending") /\ Startable(files[j]["pending"])
        /\ o.step = "claim_sync" => Sole(j, "running") /\ Startable(files[j]["running"])

RemoveReady(j) ==
    LET o == op[j] IN o.step = "remove" =>
        /\ o.to \in Copies(j) /\ o.to \notin o.drop
        /\ o.to # "done" => "done" \notin o.drop /\ ReplaySafe(files[j][o.to].phase)

\* A copy that allows a run has its run still to come.
CopiesAgree(j) ==
    /\ \A b \in Copies(j) : ReplaySafe(files[j][b].phase) => runs[j] <= resumes[j]
    /\ "pending" \in Copies(j) => \A b \in Copies(j) \ {"running", "done"} :
                                    WaitSettled(files[j][b])
    /\ Copies(j) = {} => runs[j] = 0 /\ seen[j] = {}
    /\ runs[j] <= resumes[j] + 1

\* Whatever the lock holder does next, whenever it stops, the copies of every
\* job agree on whether its work may begin.
MovesAreSound ==
    \A j \in Jobs :
        RenameReady(j) /\ SyncReady(j) /\ ClaimReady(j) /\ RemoveReady(j) /\ CopiesAgree(j)

-----------------------------------------------------------------------------
\* The bucket that says where a job is while a move is half done: a job that
\* has a terminal copy is over, and one offered in pending/ is offered.
TaskState ==
    [j \in Jobs |->
        IF "done" \in Copies(j) THEN "ended"
        ELSE IF "pending" \in Copies(j) THEN "queued"
        ELSE IF "waiting" \in Copies(j) THEN "held"
        ELSE IF "running" \in Copies(j) THEN "active"
        ELSE "none"]

Contract == INSTANCE TaskContract
    WITH Tasks <- Jobs, state <- TaskState, effects <- runs, consents <- resumes

\* The store of files implements the contract of the queue: work that began
\* is never offered again without consent and what ended stays ended.
KeepsContract == Contract!ContractSpec

Consents == INSTANCE ConsentContract WITH standing <- consent

\* What the queue does to consent requests is what the approval store offers:
\* it never refuses one that was answered, nor answers for a reviewer.
RequestsKeepContract == Consents!ConsentSpec
=============================================================================
