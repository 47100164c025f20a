---------------------------- MODULE Supervision ----------------------------
(***************************************************************************)
(* The broker's supervisor of core/src/agentd/supervisor.rs driving the    *)
(* durable queue: one supervision task per claimed job, which forks one    *)
(* worker, walks it through bind, PREPARE and COMMIT, serves its requests  *)
(* for consent, reaps it and files its outcome.  What a supervision task   *)
(* knows is lost when the broker dies; the queue's records are not.        *)
(*                                                                         *)
(* A worker identity is also a permit of the supervisor's semaphore.  The  *)
(* identity is used again once no record names it and no process has it,   *)
(* which is what makes a (pid, start time) pair fresh.                     *)
(***************************************************************************)
EXTENDS JobStore

CONSTANTS NoJob, NoRequest

ASSUME NullsAreFresh == NoJob \notin Jobs /\ NoRequest \notin Requests

VARIABLES
    sup,      \* sup[w]: the supervision task whose worker process is w
    filer,    \* filer[q]: the task on whose behalf request q was filed
    closing   \* the broker was told to shut down

vars == <<files, op, seen, alive, incarnation, consent, overdue, faults,
          runs, claims, resumes, cancelAsked, sup, filer, closing>>

Stages ==
    {"idle",       \* permit free
     "claimed",    \* owns a claimed job, no process yet
     "spawned",    \* forked, not yet bound to the record
     "leased",     \* extension host running, PREPARE under way
     "prepared",   \* preparation recorded durably
     "committed",  \* commit recorded durably, COMMIT frame not yet sent
     "executing",  \* the worker holds COMMIT
     "reaping",    \* outcome known, process tree not yet reaped
     "finishing",  \* worker reaped, outcome not yet filed
     "saving",     \* the queue operation filing the outcome is under way
     "settling"}   \* outcome filed or refused, consent not yet retired

\* "epoch" is 0 until the commit, and then one more than the number of
\* consented resumptions the committed run stands on.
Task ==
    [job : Jobs \cup {NoJob}, stage : Stages, asked : SUBSET Requests,
     asking : Requests \cup {NoRequest}, stop : {"none", "cancel", "limit"},
     outcome : Outcomes \cup {"none", "retry"}, epoch : Nat]

IdleTask ==
    [job |-> NoJob, stage |-> "idle", asked |-> {}, asking |-> NoRequest,
     stop |-> "none", outcome |-> "none", epoch |-> 0]

Init ==
    /\ StoreInit
    /\ sup = [w \in Workers |-> IdleTask]
    /\ filer = [q \in Requests |-> NoProcess]
    /\ closing = FALSE

At(w, stage) == sup[w].stage = stage
Goto(w, stage) == sup' = [sup EXCEPT ![w].stage = stage]
EndWith(w, stage, outcome) ==
    sup' = [sup EXCEPT ![w].stage = stage, ![w].outcome = outcome]
StoreUnchanged == UNCHANGED storeVars

Unnamed(w) == \A j \in Jobs : \A b \in Copies(j) : files[j][b].worker # w
Permit(w) == At(w, "idle") /\ w \notin alive /\ Unnamed(w)

-----------------------------------------------------------------------------
\* The claim hands the job to a fresh supervision task.
StartTask(j, w) ==
    /\ Permit(w)
    /\ ClaimWrite(j)
    /\ sup' = [sup EXCEPT ![w] = [IdleTask EXCEPT !.job = j, !.stage = "claimed"]]
    /\ UNCHANGED <<filer, closing>>

\* Owner, identity, isolation, session and workspace checks end in finish_error.
RefuseTask(w) ==
    /\ At(w, "claimed")
    /\ EndWith(w, "finishing", "error")
    /\ StoreUnchanged /\ UNCHANGED <<filer, closing>>

SpawnFails(w) ==
    /\ At(w, "claimed")
    /\ EndWith(w, "finishing", "retry")
    /\ StoreUnchanged /\ UNCHANGED <<filer, closing>>

Spawn(w) ==
    /\ At(w, "claimed")
    /\ WorkerStarts(w)
    /\ Goto(w, "spawned") /\ UNCHANGED <<filer, closing>>

\* A failed bind is only logged; the task goes on.
BindTask(w) ==
    /\ At(w, "spawned")
    /\ \/ Bind(sup[w].job, w)
       \/ Free(sup[w].job) /\ ~CanBind(sup[w].job) /\ StoreUnchanged
    /\ Goto(w, "leased") /\ UNCHANGED <<filer, closing>>

\* The extension host does not start, PREPARE is not acknowledged, the worker
\* exits first, or its acknowledgement does not match the lease.  The
\* Activity boundary is checked on the way in.
PrepareLost(w) ==
    /\ At(w, "leased")
    /\ EndWith(w, "reaping", "retry") \/ EndWith(w, "reaping", "error")
    /\ StoreUnchanged /\ UNCHANGED <<filer, closing>>

PrepareTask(w) ==
    /\ At(w, "leased") /\ w \in alive
    /\ \/ Prepare(sup[w].job, w) /\ Goto(w, "prepared")
       \/ /\ Free(sup[w].job) /\ ~CanPrepare(sup[w].job, w)
          /\ EndWith(w, "reaping", "retry") /\ StoreUnchanged
    /\ UNCHANGED <<filer, closing>>

\* Activity boundary and execution limits, once more before COMMIT.
LimitReachedBeforeCommit(w) ==
    /\ At(w, "prepared")
    /\ EndWith(w, "reaping", "error")
    /\ StoreUnchanged /\ UNCHANGED <<filer, closing>>

CommitTaskUnchecked(w) ==
    /\ At(w, "prepared")
    /\ \/ Commit(sup[w].job, w)
       \/ Free(sup[w].job) /\ ~CanCommit(sup[w].job, w) /\ StoreUnchanged
    /\ sup' = [sup EXCEPT ![w].stage = "committed", ![w].epoch = resumes[sup[w].job] + 1]
    /\ UNCHANGED <<filer, closing>>
CommitTask(w) ==
    /\ At(w, "prepared")
    /\ \/ /\ Commit(sup[w].job, w)
          /\ sup' = [sup EXCEPT ![w].stage = "committed",
                                ![w].epoch = resumes[sup[w].job] + 1]
       \/ /\ Free(sup[w].job) /\ ~CanCommit(sup[w].job, w)
          /\ EndWith(w, "reaping", "indeterminate") /\ StoreUnchanged
    /\ UNCHANGED <<filer, closing>>

\* The frame may have reached a worker even when the send reports an error.
DeliverCommit(w) ==
    /\ At(w, "committed")
    /\ Goto(w, "executing") \/ EndWith(w, "reaping", "indeterminate")
    /\ StoreUnchanged /\ UNCHANGED <<filer, closing>>

-----------------------------------------------------------------------------
\* The pump, while the worker executes.  It handles one frame at a time, so
\* it does nothing else for this worker while a consent request is recorded.
Pumping(w) == At(w, "executing") /\ sup[w].asking = NoRequest

\* mediate_approval files the request; record_waiting_approval links it.
AskConsent(w, q) ==
    /\ Pumping(w) /\ w \in alive
    /\ File(q)
    /\ filer' = [filer EXCEPT ![q] = w]
    /\ sup' = [sup EXCEPT ![w].asking = q]
    /\ UNCHANGED closing

LinkConsent(w) ==
    LET q == sup[w].asking
        j == sup[w].job
    IN
    /\ At(w, "executing") /\ q # NoRequest
    /\ \/ /\ RecordWaiting(j, q)
          /\ sup' = [sup EXCEPT ![w].asking = NoRequest, ![w].asked = @ \cup {q}]
       \/ /\ Free(j) /\ ~CanRecordWaiting(j)
          /\ Withdraw({q})
          /\ sup' = [sup EXCEPT ![w].asking = NoRequest]
    /\ UNCHANGED <<filer, closing>>

\* A run resumed after consent spends it.
SpendConsent(w, q) ==
    /\ Pumping(w) /\ w \in alive
    /\ \E b \in Copies(sup[w].job) : q \in files[sup[w].job][b].resumedAfter
    /\ Spend(q)
    /\ UNCHANGED <<sup, filer, closing>>

\* The ticker polls the mark without the job's lock, and the shutdown flag.
NoticeStop(w) ==
    LET r == files[sup[w].job]["running"] IN
    /\ Pumping(w) /\ sup[w].stop = "none"
    /\ closing \/ (r # Absent /\ r.cancel)
    /\ sup' = [sup EXCEPT ![w].stop = "cancel"]
    /\ StoreUnchanged /\ UNCHANGED <<filer, closing>>

\* Turns, time or the Activity boundary.
LimitReached(w) ==
    /\ Pumping(w) /\ sup[w].stop = "none"
    /\ sup' = [sup EXCEPT ![w].stop = "limit"]
    /\ StoreUnchanged /\ UNCHANGED <<filer, closing>>

\* A worker with pending requests reports that it waits, whatever its run
\* returned; a report sent before Cancel arrived still counts.
Reportable(w) ==
    IF sup[w].stop = "limit" THEN {"error"}
    ELSE {"error"} \cup (IF sup[w].stop = "cancel" THEN {"cancelled"} ELSE {})
                   \cup (IF sup[w].asked = {} THEN {"ok"} ELSE {"waiting"})

Report(w) ==
    /\ Pumping(w) /\ w \in alive
    /\ \E o \in Reportable(w) : EndWith(w, "reaping", o)
    /\ StoreUnchanged /\ UNCHANGED <<filer, closing>>

\* Channel closed, worker or extension host gone, frame rejected, lease over.
Interrupted(w) ==
    /\ Pumping(w)
    /\ \/ EndWith(w, "reaping", "indeterminate")
       \/ sup[w].stop # "none" /\ EndWith(w, "reaping", "cancelled")
    /\ StoreUnchanged /\ UNCHANGED <<filer, closing>>

-----------------------------------------------------------------------------
\* The end of a supervision task
Contained(outcome) == IF outcome = "indeterminate" THEN outcome ELSE "error"

\* A lease that got as far as PREPARE had an extension host, whose cleanup
\* may fail and then replaces the outcome.
Reap(w) ==
    /\ At(w, "reaping")
    /\ Goto(w, "finishing") \/ EndWith(w, "finishing", Contained(sup[w].outcome))
    /\ WorkerExits(w) \/ (w \notin alive /\ StoreUnchanged)
    /\ UNCHANGED <<filer, closing>>

\* finish and release_for_retry look the job up by id alone.
FileOutcome(w) ==
    LET j == sup[w].job IN
    /\ At(w, "finishing")
    /\ \/ sup[w].outcome = "retry" /\ Release(j, w) /\ Goto(w, "saving")
       \/ /\ sup[w].outcome \in Outcomes
          /\ Finish(j, sup[w].outcome, sup[w].asked, w)
          /\ Goto(w, "saving")
       \/ /\ Free(j) /\ files[j]["running"] = Absent
          /\ EndWith(w, "settling", "none") /\ StoreUnchanged
    /\ UNCHANGED <<filer, closing>>

\* The queue's own file steps; the last one returns to the waiting task.
ReturnBucket(j, bucket) ==
    LET w == op[j].by IN
    sup' = IF w \in Workers /\ At(w, "saving")
           THEN [sup EXCEPT ![w].stage = "settling", ![w].outcome = bucket]
           ELSE sup
Return(j, bucket) ==
    LET w == op[j].by IN
    sup' = IF w \in Workers /\ At(w, "saving")
           THEN [sup EXCEPT ![w].stage = "settling",
                            ![w].outcome = IF bucket = "waiting" THEN bucket ELSE "none"]
           ELSE sup

QueueFileStep(j) ==
    /\ \/ Rename(j) /\ UNCHANGED sup
       \/ RemoveDuplicate(j) /\ UNCHANGED sup
       \/ Synced(j) /\ Return(j, op[j].to)
    /\ UNCHANGED <<filer, closing>>

QueueStepFails(j) ==
    /\ OpFails(j) /\ Return(j, "none")
    /\ UNCHANGED <<filer, closing>>

\* An I/O error before the first file step of a call.  A failed PREPARE is
\* PrepareLost, a COMMIT that was written and reported failed DeliverCommit.
CallFails(w) ==
    /\ FailsEarly
    /\ \/ At(w, "spawned") /\ Goto(w, "leased")
       \/ At(w, "prepared") /\ EndWith(w, "reaping", "indeterminate")
       \/ At(w, "finishing") /\ EndWith(w, "settling", "none")
    /\ UNCHANGED <<filer, closing>>

\* Unless the job now waits, every undecided request of this lease is retired.
FiledBy(w) == {q \in Requests : filer[q] = w}
SettleConsent(w) ==
    /\ At(w, "settling")
    /\ Withdraw(IF sup[w].outcome = "waiting" THEN {} ELSE FiledBy(w))
    /\ sup' = [sup EXCEPT ![w] = IdleTask]
    /\ filer' = [q \in Requests |-> IF filer[q] = w THEN NoProcess ELSE filer[q]]
    /\ UNCHANGED closing

-----------------------------------------------------------------------------
\* Everything else that happens to the queue

\* The main loop takes a permit before it claims.
ClaimNext(j) ==
    /\ ~closing
    /\ \E w \in Workers : Permit(w)
    /\ Claim(j)
    /\ UNCHANGED <<sup, filer, closing>>

MainLoop(j) ==
    /\ ~closing
    /\ \/ ClaimRefused(j)
       \/ Recover(j) \/ RecoverUnverifiable(j) \/ ReconcileWaiting(j)
    /\ UNCHANGED <<sup, filer, closing>>

\* Every caller of the queue scans for duplicates, in whatever thread it runs.
Deduplicate(j) == ReconcileDuplicates(j) /\ UNCHANGED <<sup, filer, closing>>
ScanLate(j) == (ScanReads(j) \/ ReconcileMoved(j)) /\ UNCHANGED <<sup, filer, closing>>

Client(j) == (Submit(j) \/ RequestCancel(j)) /\ UNCHANGED <<sup, filer, closing>>
Reviewer(q) == Decide(q) /\ UNCHANGED <<sup, filer, closing>>
Clock(j) == EightHoursPass(j) /\ UNCHANGED <<sup, filer, closing>>
WorkerDies(w) == WorkerExits(w) /\ UNCHANGED <<sup, filer, closing>>

Shutdown ==
    /\ ~closing /\ incarnation < MaxRestarts
    /\ closing' = TRUE
    /\ StoreUnchanged /\ UNCHANGED <<sup, filer>>

\* Its tasks die with the broker, at whatever stage they are.
BrokerRestart ==
    /\ Restart
    /\ closing' = FALSE
    /\ sup' = [w \in Workers |-> IdleTask]
    /\ filer' = [q \in Requests |-> NoProcess]

RunEnds(w) == Report(w) \/ Interrupted(w)
Progress(w) ==
    \/ Spawn(w) \/ BindTask(w) \/ PrepareTask(w) \/ PrepareLost(w)
    \/ CommitTask(w) \/ DeliverCommit(w) \/ LinkConsent(w)
    \/ Reap(w) \/ FileOutcome(w) \/ SettleConsent(w)
Mishap(w) ==
    \/ RefuseTask(w) \/ SpawnFails(w) \/ CallFails(w)
    \/ LimitReachedBeforeCommit(w) \/ LimitReached(w) \/ NoticeStop(w) \/ WorkerDies(w)

Next ==
    \/ \E w \in Workers : Progress(w) \/ RunEnds(w) \/ Mishap(w)
    \/ \E w \in Workers, q \in Requests : AskConsent(w, q) \/ SpendConsent(w, q)
    \/ \E j \in Jobs, w \in Workers : StartTask(j, w)
    \/ \E j \in Jobs : \/ QueueFileStep(j) \/ QueueStepFails(j)
                       \/ ClaimNext(j) \/ MainLoop(j) \/ Client(j) \/ Clock(j)
                       \/ Deduplicate(j) \/ ScanLate(j)
    \/ \E q \in Requests : Reviewer(q)
    \/ Shutdown \/ BrokerRestart

Spec == Init /\ [][Next]_vars

\* What the code's scheduling justifies: a file operation that began goes on;
\* a supervision task takes its next step; a run ends, by its result, its
\* turn limit or its lease; the main loop comes round; time passes; a broker
\* told to stop is started again.  Nobody has to decide, to cancel or to fail.
Fairness ==
    /\ \A j \in Jobs :
          /\ WF_vars(QueueFileStep(j)) /\ WF_vars(ClaimNext(j))
          /\ WF_vars(MainLoop(j)) /\ WF_vars(Deduplicate(j)) /\ WF_vars(Clock(j))
          /\ WF_vars(\E w \in Workers : StartTask(j, w))
    /\ \A w \in Workers : WF_vars(Progress(w)) /\ WF_vars(RunEnds(w))
    /\ WF_vars(closing /\ BrokerRestart)

FairSpec == Spec /\ Fairness

-----------------------------------------------------------------------------
SupTypeOK ==
    /\ sup \in [Workers -> Task]
    /\ filer \in [Requests -> Workers \cup {NoProcess}]
    /\ closing \in BOOLEAN

\* The worker may be acting on the world: it got COMMIT and is not reaped.
MayAct(w) ==
    /\ w \in alive /\ sup[w].epoch > 0
    /\ sup[w].stage \in {"executing", "reaping"}

\* While a worker may act, no record of its job in any bucket allows the job
\* to be run again, unless a reviewer's consent has resumed it since.
ActingJobIsNotReplayable ==
    \A w \in Workers : MayAct(w) =>
        LET j == sup[w].job IN
        \/ resumes[j] >= sup[w].epoch
        \/ \A b \in Copies(j) : ~ReplaySafe(files[j][b].phase)

\* A request nobody decided yet is one that somebody will still answer for:
\* its task is at work, or a record that is not finished waits for it.  Only
\* a record retired as a duplicate loses or keeps its undecided requests.
Answerable(q) ==
    \/ filer[q] # NoProcess
    \/ \E j \in Jobs : \E b \in Copies(j) \ {"done"} : q \in files[j][b].waitingOn
RetiredAsDuplicate(j, q) ==
    LET r == files[j]["done"] IN
    /\ r # Absent /\ r.phase = "indeterminate"
    /\ q \in r.waitingOn \/ r = CorruptRecord
RequestsAreAnswerable ==
    incarnation = 0 =>
        \A q \in Requests : consent[q] = "pending" =>
            Answerable(q) \/ \E j \in Jobs : RetiredAsDuplicate(j, q)

\* Every accepted job comes to an end, whatever dies in between.
EveryJobEnds == \A j \in Jobs : Copies(j) # {} ~> files[j]["done"] # Absent
=============================================================================
