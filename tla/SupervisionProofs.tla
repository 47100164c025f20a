-------------------------- MODULE SupervisionProofs --------------------------
(***************************************************************************)
(* Theorems about Supervision.tla, for every number of jobs, workers,      *)
(* requests, restarts and I/O errors.  The real callers only ever take     *)
(* steps of the store, so what holds of the store holds here; on top of    *)
(* it, a job whose worker got COMMIT stays closed to any other run until a *)
(* reviewer's consent reopens it, and a request nobody decided yet always  *)
(* has somebody who will answer for it.  The last is shown with a second   *)
(* invariant, Answered: how the copies of a job, the move that files the   *)
(* outcome of a run and the task behind it stand to the requests they name.*)
(***************************************************************************)
EXTENDS Supervision, JobStoreContractProofs

\* A supervision task at any stage but "idle" serves a job.
GoodTask(t) == t \in Task /\ (t.stage # "idle" => t.job \in Jobs)
SupInv == SupTypeOK /\ \A w \in Workers : GoodTask(sup[w])

-----------------------------------------------------------------------------
\* Every step of the supervisor is a step of the store or leaves it alone.

\* The steps of one supervision task.
LEMMA TaskStepsAreStoreSteps ==
    ASSUME SupInv, NEW w \in Workers, Progress(w) \/ RunEnds(w) \/ Mishap(w)
    PROVE  StoreNext \/ UNCHANGED storeVars
<1> DEFINE j == sup[w].job
<1>1. ASSUME j \in Jobs, LeaseStep(j, w) PROVE StoreNext
  BY <1>1 DEF StoreNext
<1>2. ~At(w, "idle") => j \in Jobs
  BY DEF SupInv, GoodTask, At
<1>3. CASE Progress(w)
  <2>1. CASE Spawn(w)
    BY <2>1 DEF Spawn, StoreNext
  <2>2. CASE BindTask(w)
    BY <1>1, <1>2, <2>2 DEF BindTask, At, LeaseStep, StoreUnchanged
  <2>3. CASE PrepareTask(w)
    BY <1>1, <1>2, <2>3 DEF PrepareTask, At, LeaseStep, StoreUnchanged
  <2>4. CASE PrepareLost(w) \/ DeliverCommit(w)
    BY <2>4 DEF PrepareLost, DeliverCommit, StoreUnchanged
  <2>5. CASE CommitTask(w)
    BY <1>1, <1>2, <2>5 DEF CommitTask, At, LeaseStep, StoreUnchanged
  <2>6. CASE LinkConsent(w)
    <3>1. sup[w].asking \in Requests /\ j \in Jobs
      BY <1>2, <2>6 DEF LinkConsent, At, SupInv, GoodTask, Task
    <3>2. RecordWaiting(j, sup[w].asking) \/ Withdraw({sup[w].asking})
      BY <2>6 DEF LinkConsent
    <3> QED
      BY <1>1, <3>1, <3>2 DEF LeaseStep, StoreNext
  <2>7. CASE Reap(w)
    BY <2>7 DEF Reap, StoreUnchanged, StoreNext
  <2>8. CASE FileOutcome(w)
    <3>1. j \in Jobs /\ sup[w].asked \in SUBSET Requests
      BY <1>2, <2>8 DEF FileOutcome, At, SupInv, GoodTask, Task
    <3> QED
      BY <1>1, <2>8, <3>1 DEF FileOutcome, LeaseStep, StoreUnchanged
  <2>9. CASE SettleConsent(w)
    BY <2>9 DEF SettleConsent, FiledBy, StoreNext
  <2> QED
    BY <1>3, <2>1, <2>2, <2>3, <2>4, <2>5, <2>6, <2>7, <2>8, <2>9 DEF Progress
<1>4. CASE RunEnds(w)
  BY <1>4 DEF RunEnds, Report, Interrupted, StoreUnchanged
<1>5. CASE Mishap(w)
  BY <1>5 DEF Mishap, RefuseTask, SpawnFails, CallFails, LimitReachedBeforeCommit, LimitReached,
              NoticeStop, WorkerDies, StoreUnchanged, StoreNext
<1> QED
  BY <1>3, <1>4, <1>5

\* All of them.
LEMMA StepsAreStoreSteps ==
    ASSUME SupInv, [Next]_vars
    PROVE  [StoreNext]_storeVars
<1>1. ASSUME NEW w \in Workers, NEW q \in Requests, AskConsent(w, q) \/ SpendConsent(w, q)
      PROVE  StoreNext
  BY <1>1 DEF AskConsent, SpendConsent, StoreNext
<1>2. ASSUME NEW j \in Jobs, NEW w \in Workers, StartTask(j, w)
      PROVE  StoreNext
  BY <1>2 DEF StartTask, FileStep, StoreNext
<1>3. ASSUME NEW j \in Jobs,
             \/ QueueFileStep(j) \/ QueueStepFails(j) \/ ClaimNext(j) \/ MainLoop(j)
             \/ Client(j) \/ Clock(j) \/ Deduplicate(j) \/ ScanLate(j)
      PROVE  StoreNext
  <2>1. FileStep(j) \/ QueueStep(j)
    BY <1>3 DEF QueueFileStep, QueueStepFails, ClaimNext, MainLoop, Client, Clock, Deduplicate,
                ScanLate, FileStep, QueueStep
  <2> QED
    BY <2>1 DEF StoreNext
<1>4. ASSUME NEW q \in Requests, Reviewer(q)
      PROVE  StoreNext
  BY <1>4 DEF Reviewer, StoreNext
<1>5. CASE Shutdown \/ BrokerRestart
  BY <1>5 DEF Shutdown, BrokerRestart, StoreUnchanged, StoreNext
<1>6. CASE UNCHANGED vars
  BY <1>6 DEF vars, storeVars
<1> QED
  BY <1>1, <1>2, <1>3, <1>4, <1>5, <1>6, TaskStepsAreStoreSteps DEF Next

-----------------------------------------------------------------------------
\* The supervisor's own state.

\* Replacing one task by a good one keeps all of them good.
LEMMA OneTaskChanges ==
    ASSUME SupInv, NEW w \in Workers, NEW t, GoodTask(t), sup' = [sup EXCEPT ![w] = t],
           filer' \in [Requests -> Workers \cup {NoProcess}], closing' \in BOOLEAN
    PROVE  SupInv'
    BY DEF SupInv, SupTypeOK, GoodTask

\* A task keeps its job when it goes on, to whatever stage and outcome.
LEMMA TasksStayGood ==
    ASSUME NEW t, GoodTask(t), t.stage # "idle", NEW stage \in Stages,
           NEW outcome \in Outcomes \cup {"none", "retry"}
    PROVE  /\ GoodTask([t EXCEPT !.stage = stage])
           /\ GoodTask([t EXCEPT !.stage = stage, !.outcome = outcome])
    BY DEF GoodTask, Task

\* A permit is a good task.
LEMMA IdleTaskIsGood == GoodTask(IdleTask)
    BY DEF GoodTask, Task, IdleTask, Stages

\* A task that goes on, with or without an outcome, keeps the supervisor's
\* state well formed.
LEMMA GoingOnKeepsSup ==
    ASSUME SupInv, NEW w \in Workers, ~At(w, "idle"), UNCHANGED <<filer, closing>>,
           NEW stage \in Stages, NEW outcome \in Outcomes \cup {"none", "retry"},
           Goto(w, stage) \/ EndWith(w, stage, outcome)
    PROVE  SupInv'
<1> DEFINE t == sup[w]
           u == [t EXCEPT !.stage = stage]
           v == [t EXCEPT !.stage = stage, !.outcome = outcome]
<1>1. GoodTask(u) /\ GoodTask(v)
  BY TasksStayGood DEF SupInv, At
<1>2. filer' \in [Requests -> Workers \cup {NoProcess}] /\ closing' \in BOOLEAN
  BY DEF SupInv, SupTypeOK
<1>3. sup' = [sup EXCEPT ![w] = u] \/ sup' = [sup EXCEPT ![w] = v]
  BY DEF Goto, EndWith
<1> HIDE DEF u, v
<1> QED
  BY <1>1, <1>2, <1>3, OneTaskChanges

\* The steps of one supervision task.
LEMMA TaskStepsKeepSup ==
    ASSUME Inv, SupInv, NEW w \in Workers, Progress(w) \/ RunEnds(w) \/ Mishap(w)
    PROVE  SupInv'
<1> DEFINE t == sup[w]
<1>1. /\ GoodTask(t)
      /\ filer \in [Requests -> Workers \cup {NoProcess}] /\ closing \in BOOLEAN
  BY DEF SupInv, SupTypeOK
<1>2. ASSUME ~At(w, "idle"), UNCHANGED <<filer, closing>>,
             \E stage \in Stages, outcome \in Outcomes \cup {"none", "retry"} :
                 Goto(w, stage) \/ EndWith(w, stage, outcome)
      PROVE  SupInv'
  BY <1>2, GoingOnKeepsSup
<1>3. ASSUME NEW u, GoodTask(u), sup' = [sup EXCEPT ![w] = u], UNCHANGED <<filer, closing>>
      PROVE  SupInv'
  BY <1>1, <1>3, OneTaskChanges
<1>4. CASE Progress(w)
  <2>1. CASE Spawn(w) \/ BindTask(w) \/ PrepareTask(w) \/ PrepareLost(w) \/ DeliverCommit(w)
    BY <1>2, <2>1 DEF Spawn, BindTask, PrepareTask, PrepareLost, DeliverCommit, At, Stages, Outcomes
  <2>2. CASE CommitTask(w)
    <3>1. CASE EndWith(w, "reaping", "indeterminate")
      BY <1>2, <2>2, <3>1 DEF CommitTask, At, Stages, Outcomes
    <3>2. CASE sup' = [sup EXCEPT ![w].stage = "committed", ![w].epoch = resumes[t.job] + 1]
      <4> DEFINE u == [t EXCEPT !.stage = "committed", !.epoch = resumes[t.job] + 1]
      <4>1. t \in Task /\ t.job \in Jobs
        BY <1>1, <2>2 DEF CommitTask, At, GoodTask
      <4>2. resumes[t.job] + 1 \in Nat
        BY <4>1, BoundsAreNatural DEF Inv, StoreTypeOK
      <4>3. GoodTask(u)
        BY <4>1, <4>2 DEF GoodTask, Task, Stages
      <4>4. sup' = [sup EXCEPT ![w] = u] /\ UNCHANGED <<filer, closing>>
        BY <2>2, <3>2 DEF CommitTask
      <4> HIDE DEF u
      <4> QED
        BY <1>3, <4>3, <4>4
    <3> QED
      BY <2>2, <3>1, <3>2 DEF CommitTask
  <2>3. CASE LinkConsent(w)
    <3> DEFINE q == t.asking
               u == [t EXCEPT !.asking = NoRequest, !.asked = t.asked \cup {q}]
               v == [t EXCEPT !.asking = NoRequest]
    <3>1. t \in Task /\ q \in Requests
      BY <1>1, <2>3 DEF LinkConsent, GoodTask, Task
    <3>2. GoodTask(u) /\ GoodTask(v)
      BY <1>1, <3>1 DEF GoodTask, Task
    <3>3. /\ sup' = [sup EXCEPT ![w] = u] \/ sup' = [sup EXCEPT ![w] = v]
          /\ UNCHANGED <<filer, closing>>
      BY <2>3 DEF LinkConsent
    <3> HIDE DEF u, v
    <3> QED
      BY <1>3, <3>2, <3>3
  <2>4. CASE Reap(w)
    <3>1. t.outcome \in Outcomes \cup {"none", "retry"}
      BY <1>1 DEF GoodTask, Task
    <3>2. Contained(t.outcome) \in Outcomes
      BY DEF Contained, Outcomes
    <3> QED
      BY <1>2, <2>4, <3>2 DEF Reap, At, Stages, Outcomes
  <2>5. CASE FileOutcome(w)
    BY <1>2, <2>5 DEF FileOutcome, At, Stages
  <2>6. CASE SettleConsent(w)
    <3>1. /\ sup' = [sup EXCEPT ![w] = IdleTask] /\ closing' = closing
          /\ filer' \in [Requests -> Workers \cup {NoProcess}]
      BY <1>1, <2>6 DEF SettleConsent
    <3> QED
      BY <1>1, <3>1, IdleTaskIsGood, OneTaskChanges
  <2> QED
    BY <1>4, <2>1, <2>2, <2>3, <2>4, <2>5, <2>6 DEF Progress
<1>5. CASE RunEnds(w)
  <2>1. Reportable(w) \subseteq Outcomes
    BY DEF Reportable, Outcomes
  <2> QED
    BY <1>2, <1>5, <2>1 DEF RunEnds, Report, Interrupted, Pumping, At, Stages, Outcomes
<1>6. CASE Mishap(w)
  <2>1. CASE RefuseTask(w) \/ SpawnFails(w) \/ CallFails(w) \/ LimitReachedBeforeCommit(w)
    BY <1>2, <2>1 DEF RefuseTask, SpawnFails, CallFails, LimitReachedBeforeCommit, At, Stages, Outcomes
  <2>2. CASE LimitReached(w) \/ NoticeStop(w)
    <3>1. PICK stop \in {"cancel", "limit"} :
             sup' = [sup EXCEPT ![w].stop = stop] /\ UNCHANGED <<filer, closing>>
      BY <2>2 DEF LimitReached, NoticeStop
    <3> DEFINE u == [t EXCEPT !.stop = stop]
    <3>2. GoodTask(u) /\ sup' = [sup EXCEPT ![w] = u]
      BY <1>1, <3>1 DEF GoodTask, Task
    <3> HIDE DEF u
    <3> QED
      BY <1>3, <3>1, <3>2
  <2>3. CASE WorkerDies(w)
    BY <2>3 DEF WorkerDies, SupInv, SupTypeOK
  <2> QED
    BY <1>6, <2>1, <2>2, <2>3 DEF Mishap
<1> QED
  BY <1>4, <1>5, <1>6

\* The queue's last file step returns to the task that waits for it.
LEMMA ReturnKeepsSup ==
    ASSUME SupInv, NEW j \in Jobs, NEW bucket, Return(j, bucket), UNCHANGED <<filer, closing>>
    PROVE  SupInv'
<1> DEFINE w == op[j].by
           v == IF bucket = "waiting" THEN "waiting" ELSE "none"
           t == [sup[w] EXCEPT !.stage = "settling", !.outcome = v]
<1>1. filer' \in [Requests -> Workers \cup {NoProcess}] /\ closing' \in BOOLEAN
  BY DEF SupInv, SupTypeOK
<1>2. CASE w \in Workers /\ At(w, "saving")
  <2>1. GoodTask(sup[w]) /\ sup[w].stage # "idle"
    BY <1>2 DEF SupInv, At
  <2>2. "settling" \in Stages /\ v \in Outcomes \cup {"none", "retry"}
    BY DEF Stages, Outcomes
  <2>3. GoodTask(t)
    BY <2>1, <2>2, TasksStayGood
  <2>4. sup' = [sup EXCEPT ![w] = t]
    BY <1>2 DEF Return
  <2> HIDE DEF t, w
  <2> QED
    BY <1>1, <1>2, <2>3, <2>4, OneTaskChanges
<1>3. CASE ~(w \in Workers /\ At(w, "saving"))
  BY <1>3 DEF Return, SupInv, SupTypeOK
<1> QED
  BY <1>2, <1>3

\* All steps together keep the store's invariant and the supervisor's.
LEMMA SupStep ==
    ASSUME Inv, SupInv, [Next]_vars
    PROVE  SupInv'
<1>1. /\ sup \in [Workers -> Task] /\ closing \in BOOLEAN
      /\ filer \in [Requests -> Workers \cup {NoProcess}]
  BY DEF SupInv, SupTypeOK
<1>2. ASSUME UNCHANGED <<sup, filer>>, closing' \in BOOLEAN PROVE SupInv'
  BY <1>2 DEF SupInv, SupTypeOK
<1>3. ASSUME NEW w \in Workers, NEW q \in Requests, AskConsent(w, q) \/ SpendConsent(w, q)
      PROVE  SupInv'
  <2>1. CASE AskConsent(w, q)
    <3> DEFINE t == [sup[w] EXCEPT !.asking = q]
    <3>1. GoodTask(t)
      BY DEF SupInv, GoodTask, Task
    <3>2. /\ sup' = [sup EXCEPT ![w] = t] /\ closing' = closing
          /\ filer' = [filer EXCEPT ![q] = w]
      BY <2>1 DEF AskConsent
    <3> HIDE DEF t
    <3> QED
      BY <1>1, <3>1, <3>2, OneTaskChanges
  <2>2. CASE SpendConsent(w, q)
    BY <1>1, <1>2, <2>2 DEF SpendConsent
  <2> QED
    BY <1>3, <2>1, <2>2
<1>4. ASSUME NEW j \in Jobs, NEW w \in Workers, StartTask(j, w)
      PROVE  SupInv'
  <2> DEFINE t == [IdleTask EXCEPT !.job = j, !.stage = "claimed"]
  <2>1. GoodTask(t)
    BY IdleTaskIsGood DEF GoodTask, Task, Stages
  <2>2. sup' = [sup EXCEPT ![w] = t] /\ UNCHANGED <<filer, closing>>
    BY <1>4 DEF StartTask
  <2> HIDE DEF t
  <2> QED
    BY <1>1, <2>1, <2>2, OneTaskChanges
<1>5. ASSUME NEW j \in Jobs, QueueFileStep(j) \/ QueueStepFails(j)
      PROVE  SupInv'
  BY <1>1, <1>2, <1>5, ReturnKeepsSup DEF QueueFileStep, QueueStepFails
<1>6. ASSUME NEW j \in Jobs,
             \/ ClaimNext(j) \/ MainLoop(j) \/ Client(j) \/ Clock(j)
             \/ Deduplicate(j) \/ ScanLate(j)
      PROVE  SupInv'
  BY <1>1, <1>2, <1>6 DEF ClaimNext, MainLoop, Client, Clock, Deduplicate, ScanLate
<1>7. CASE (\E q \in Requests : Reviewer(q)) \/ Shutdown \/ UNCHANGED vars
  BY <1>1, <1>2, <1>7 DEF Reviewer, Shutdown, vars
<1>8. CASE BrokerRestart
  BY <1>8, IdleTaskIsGood DEF BrokerRestart, SupInv, SupTypeOK, GoodTask
<1> QED
  BY <1>3, <1>4, <1>5, <1>6, <1>7, <1>8, TaskStepsKeepSup DEF Next

\* Initially there is no task.
LEMMA SupInit == Init => Inv /\ SupInv
<1> SUFFICES ASSUME Init PROVE Inv /\ SupInv
  OBVIOUS
<1>1. Inv
  BY InvInit DEF Init
<1>2. SupInv
  BY IdleTaskIsGood DEF Init, SupInv, SupTypeOK, GoodTask
<1> QED
  BY <1>1, <1>2

\* Both invariants are inductive together, and every step is one of the store.
LEMMA JointStep == Inv /\ SupInv /\ [Next]_vars => (Inv /\ SupInv)' /\ [StoreNext]_storeVars
<1> SUFFICES ASSUME Inv, SupInv, [Next]_vars
             PROVE  Inv' /\ SupInv' /\ [StoreNext]_storeVars
  OBVIOUS
<1>1. [StoreNext]_storeVars
  BY StepsAreStoreSteps
<1> QED
  BY <1>1, InvStep, SupStep

\* The supervisor with its workers, clients and reviewers only ever takes
\* steps of the durable queue: what holds of the queue holds here.
THEOREM SupervisorUsesTheStore == Spec => StoreSpec
<1>1. Init => StoreInit
  BY DEF Init
<1> QED
  BY <1>1, SupInit, JointStep, PTL DEF Spec, StoreSpec

\* Type correctness of the supervisor.
THEOREM SupTypeCorrect == Spec => []SupTypeOK
<1>1. SupInv => SupTypeOK
  BY DEF SupInv
<1> QED
  BY <1>1, SupInit, JointStep, PTL DEF Spec

\* With its real callers the queue implements the contract of the task, too.
THEOREM SupervisorKeepsContract == Spec => KeepsContract
  BY SupervisorUsesTheStore, StoreImplementsContract, PTL

-----------------------------------------------------------------------------
\* A committed run and its job

\* The job of a committed run stays closed, unless a resumption came later.
RunClosed(w) ==
    LET t == sup[w] IN
    t.epoch > 0 =>
        /\ t.job \in Jobs /\ t.epoch <= resumes[t.job] + 1
        /\ resumes[t.job] >= t.epoch \/ Closed(t.job)

\* Consents of a job are never forgotten.
LEMMA ResumesGrow ==
    ASSUME Inv, [StoreNext]_storeVars, NEW j \in Jobs
    PROVE  resumes'[j] \in {resumes[j], resumes[j] + 1}
<1> USE DEF Inv, StoreTypeOK
<1>1. CASE Formed(j)
  <2>1. CASE \E S \in SUBSET Buckets : Reconcile(j, S)
    BY <2>1 DEF Reconcile, history
  <2>2. CASE \E from, to \in Buckets, s \in Record : Moving(j, from, to, s)
    BY <2>2 DEF Moving
  <2>3. CASE Submit(j) \/ Idling(j) \/ \E s \in Record : Touching(j, s)
    BY <2>3 DEF Submit, Idling, Touching, history
  <2> QED
    BY <1>1, <2>1, <2>2, <2>3 DEF Formed
<1>2. CASE ClaimWrite(j)
  BY <1>2 DEF ClaimWrite
<1>3. CASE LeavesHistory(j)
  BY <1>3 DEF LeavesHistory
<1> QED
  BY <1>1, <1>2, <1>3, StepKinds

\* While a task keeps its job and its epoch, every step keeps the run closed.
LEMMA OldRunStaysClosed ==
    ASSUME Inv, SupInv, [StoreNext]_storeVars, NEW w \in Workers, RunClosed(w),
           \/ sup'[w].job = sup[w].job /\ sup'[w].epoch = sup[w].epoch
           \/ sup'[w].epoch = 0
    PROVE  RunClosed(w)'
<1>1. CASE sup'[w].epoch = 0 \/ sup[w].epoch = 0
  BY <1>1 DEF RunClosed
<1>2. CASE sup[w].epoch # 0 /\ sup'[w].job = sup[w].job /\ sup'[w].epoch = sup[w].epoch
  <2>1. sup[w].epoch \in Nat /\ sup[w].epoch > 0
    BY <1>2 DEF SupInv, GoodTask, Task
  <2>2. PICK j \in Jobs : j = sup[w].job
    BY <2>1 DEF RunClosed
  <2>3. PICK e \in Nat : e = sup[w].epoch
    BY <2>1
  <2>4. e <= resumes[j] + 1 /\ (resumes[j] >= e \/ Closed(j))
    BY <2>1, <2>2, <2>3 DEF RunClosed
  <2>5. resumes[j] \in Nat /\ resumes'[j] \in {resumes[j], resumes[j] + 1}
    BY ResumesGrow, BoundsAreNatural DEF Inv, StoreTypeOK
  <2>6. Closed(j) => Closed(j)' \/ resumes'[j] = resumes[j] + 1
    BY ClosedStep
  <2>7. e <= resumes'[j] + 1 /\ (resumes'[j] >= e \/ Closed(j)')
    BY <2>4, <2>5, <2>6
  <2>8. sup'[w].job = j /\ sup'[w].epoch = e
    BY <1>2, <2>2, <2>3
  <2> QED
    BY <2>7, <2>8 DEF RunClosed, Closed, Copies
<1> QED
  BY <1>1, <1>2

\* The commit closes its job: the record it writes is the only copy.
LEMMA CommitClosesRun ==
    ASSUME Inv, SupInv, NEW w \in Workers, CommitTask(w), RunClosed(w)
    PROVE  RunClosed(w)'
<1>1. sup[w] \in Task /\ sup \in [Workers -> Task]
  BY DEF SupInv, SupTypeOK
<1>2. PICK j \in Jobs : j = sup[w].job
  BY DEF CommitTask, At, SupInv, GoodTask
<1>3. CASE Commit(j, w) /\ sup' = [sup EXCEPT ![w].stage = "committed",
                                             ![w].epoch = resumes[sup[w].job] + 1]
  <2>1. sup'[w].job = j /\ sup'[w].epoch = resumes[j] + 1
    BY <1>1, <1>2, <1>3 DEF Task
  <2>2. resumes[j] \in Nat /\ resumes' = resumes
    BY <1>3, BoundsAreNatural DEF Inv, StoreTypeOK, Commit
  <2>3. Copies(j) = {"running"} /\ files[j]["running"] \in Record
    BY <1>3, CopiesAreRecords DEF Commit, CanCommit, Sole, Inv
  <2>4. files'[j] = [files[j] EXCEPT !["running"] = [files[j]["running"] EXCEPT !.phase = "committed"]]
    BY <1>3 DEF Commit, Inv, StoreTypeOK
  <2>5. /\ files'[j]["running"] # Absent /\ files'[j]["running"].phase = "committed"
        /\ \A b \in Buckets \ {"running"} : files'[j][b] = Absent
    <3>1. [files[j]["running"] EXCEPT !.phase = "committed"] \in Record
      BY <2>3 DEF Record, Phases
    <3>2. files'[j]["running"] = [files[j]["running"] EXCEPT !.phase = "committed"]
      BY <2>4 DEF Inv, StoreTypeOK, Buckets
    <3>3. \A b \in Buckets \ {"running"} : files'[j][b] = files[j][b] /\ files[j][b] = Absent
      BY <2>3, <2>4 DEF Copies
    <3> QED
      BY <2>3, <3>1, <3>2, <3>3, AbsentIsNoRecord DEF Record
  <2>6. Copies(j)' = {"running"}
    BY <2>5 DEF Copies, Buckets
  <2>7. Closed(j)'
    BY <2>5, <2>6 DEF Closed, ReplaySafe
  <2> QED
    BY <2>1, <2>2, <2>7 DEF RunClosed, Closed, Copies
<1>4. CASE EndWith(w, "reaping", "indeterminate") /\ StoreUnchanged
  <2>1. sup'[w].job = sup[w].job /\ sup'[w].epoch = sup[w].epoch
    BY <1>1, <1>4 DEF EndWith, Task
  <2>2. UNCHANGED storeVars
    BY <1>4 DEF StoreUnchanged
  <2> QED
    BY <2>1, <2>2, OldRunStaysClosed
<1> QED
  BY <1>2, <1>3, <1>4 DEF CommitTask

\* Every other step keeps each task's job and epoch, or clears the epoch.
LEMMA EpochsStay ==
    ASSUME SupInv, [Next]_vars, NEW w \in Workers, ~CommitTask(w)
    PROVE  \/ sup'[w].job = sup[w].job /\ sup'[w].epoch = sup[w].epoch
           \/ sup'[w].epoch = 0
<1>1. sup \in [Workers -> Task]
  BY DEF SupInv, SupTypeOK
<1>2. ASSUME NEW v \in Workers, v # w,
             \E t : sup' = [sup EXCEPT ![v] = t]
      PROVE  sup'[w] = sup[w]
  BY <1>1, <1>2
<1>3. ASSUME NEW v \in Workers, Progress(v) \/ RunEnds(v) \/ Mishap(v), ~CommitTask(v)
      PROVE  \/ sup'[w].job = sup[w].job /\ sup'[w].epoch = sup[w].epoch
             \/ sup'[w].epoch = 0
  <2>1. CASE Progress(v)
    <3>1. CASE Spawn(v) \/ BindTask(v)
      BY <1>1, <3>1 DEF Spawn, BindTask, Goto, Task
    <3>2. CASE PrepareTask(v) \/ PrepareLost(v)
      BY <1>1, <3>2 DEF PrepareTask, PrepareLost, Goto, EndWith, Task
    <3>3. CASE DeliverCommit(v) \/ Reap(v)
      BY <1>1, <3>3 DEF DeliverCommit, Reap, Goto, EndWith, Task
    <3>4. CASE LinkConsent(v)
      BY <1>1, <3>4 DEF LinkConsent, EndWith, Task
    <3>5. CASE FileOutcome(v)
      BY <1>1, <3>5 DEF FileOutcome, Goto, EndWith, Task
    <3>6. CASE SettleConsent(v)
      BY <1>1, <3>6 DEF SettleConsent, IdleTask
    <3> QED
      BY <1>3, <2>1, <3>1, <3>2, <3>3, <3>4, <3>5, <3>6 DEF Progress
  <2>2. CASE RunEnds(v)
    BY <1>1, <2>2 DEF RunEnds, Report, Interrupted, EndWith, Task
  <2>3. CASE Mishap(v)
    BY <1>1, <2>3 DEF Mishap, RefuseTask, SpawnFails, CallFails, LimitReachedBeforeCommit,
       LimitReached, NoticeStop, WorkerDies, Goto, EndWith, Task
  <2> QED
    BY <1>3, <2>1, <2>2, <2>3
<1>4. ASSUME NEW v \in Workers, v # w, CommitTask(v)
      PROVE  sup'[w] = sup[w]
  BY <1>1, <1>4 DEF CommitTask, EndWith
<1>5. ASSUME NEW v \in Workers, NEW q \in Requests, AskConsent(v, q) \/ SpendConsent(v, q)
      PROVE  sup'[w].job = sup[w].job /\ sup'[w].epoch = sup[w].epoch
  BY <1>1, <1>5 DEF AskConsent, SpendConsent, Task
<1>6. ASSUME NEW j \in Jobs, NEW v \in Workers, StartTask(j, v)
      PROVE  sup'[w] = sup[w] \/ sup'[w].epoch = 0
  BY <1>1, <1>6 DEF StartTask, IdleTask
<1>7. ASSUME NEW j \in Jobs,
             \/ QueueFileStep(j) \/ QueueStepFails(j) \/ ClaimNext(j) \/ MainLoop(j)
             \/ Client(j) \/ Clock(j) \/ Deduplicate(j) \/ ScanLate(j)
      PROVE  sup'[w].job = sup[w].job /\ sup'[w].epoch = sup[w].epoch
  BY <1>1, <1>7 DEF QueueFileStep, QueueStepFails, ClaimNext, MainLoop, Client, Clock, Deduplicate,
     ScanLate, Return, Task
<1>8. CASE (\E q \in Requests : Reviewer(q)) \/ Shutdown \/ BrokerRestart \/ UNCHANGED vars
  BY <1>8 DEF Reviewer, Shutdown, BrokerRestart, IdleTask, vars
<1> QED
  BY <1>3, <1>4, <1>5, <1>6, <1>7, <1>8 DEF Next

\* While a worker may act on the world, no record of its job allows the job to
\* be run again, unless a reviewer's consent has resumed it since: through
\* restarts, failed calls, late outcomes and records recovered under a worker.
THEOREM ActingRunsAreNotReplayed == Spec => []ActingJobIsNotReplayable
<1> DEFINE Runs == \A w \in Workers : RunClosed(w)
<1>1. Init => Runs
  BY DEF Init, IdleTask, RunClosed
<1>2. Runs /\ Inv /\ SupInv /\ [Next]_vars => Runs'
  <2> SUFFICES ASSUME Runs, Inv, SupInv, [Next]_vars, NEW w \in Workers
               PROVE  RunClosed(w)'
    OBVIOUS
  <2>1. [StoreNext]_storeVars /\ RunClosed(w)
    BY StepsAreStoreSteps
  <2> QED
    BY <2>1, CommitClosesRun, EpochsStay, OldRunStaysClosed
<1>3. Runs => ActingJobIsNotReplayable
  BY DEF RunClosed, ActingJobIsNotReplayable, MayAct, Closed
<1> HIDE DEF Runs
<1> QED
  BY <1>1, <1>2, <1>3, SupInit, JointStep, PTL DEF Spec


-----------------------------------------------------------------------------
\* Requests and the copies of a job, as long as the first broker runs

\* Besides a terminal copy a job has one record at most.
OneRecord(j) == \A b, c \in Copies(j) \ {"done"} : b = c

\* A wait that lies next to a terminal copy is repeated in that copy, unless
\* the copy stands for a record nobody could read.
TwinCoversWait(j) ==
    {"waiting", "done"} \subseteq Copies(j) =>
        /\ files[j]["done"].phase = "indeterminate"
        /\ \/ files[j]["done"] = CorruptRecord
           \/ files[j]["waiting"].waitingOn \subseteq files[j]["done"].waitingOn

RemovesForDone(j) == op[j].step = "remove" => op[j].to = "done"

CopiesInOrder(j) == OneRecord(j) /\ TwinCoversWait(j) /\ RemovesForDone(j)

\* A wait that nobody is moving on, and a job retired as a duplicate.
Parked(j, q) ==
    /\ "waiting" \in Copies(j) /\ q \in files[j]["waiting"].waitingOn
    /\ ~(op[j].step = "rename" /\ op[j].from = "waiting")
RetiredWith(j, q) == Copies(j) = {"done"} /\ RetiredAsDuplicate(j, q)
HeldBy(j, q) == Parked(j, q) \/ RetiredWith(j, q)

\* What a step on job j does to the requests its records name: it files none,
\* and those that stay undecided stay where they are.
AsksNobody == \A q \in Requests : consent'[q] = "pending" => consent[q] = "pending"
HoldsOn(j) == \A q \in Requests : consent'[q] = "pending" /\ HeldBy(j, q) => HeldBy(j, q)'
KeepsRequests(j) == CopiesInOrder(j)' /\ HoldsOn(j)

\* The copy that the lock holder's move is about.
MovedCopy(j) == files[j][IF op[j].step = "rename" THEN op[j].from ELSE op[j].to]

\* Whoever holds the lock goes on with the move of a task, or it ends.
MoveGoesOn(j) ==
    \/ op'[j] = NoOp
    \/ op'[j].by \notin Workers
    \/ /\ op[j] # NoOp /\ op'[j].by = op[j].by
       /\ op[j].step \in {"rename", "sync"} => op'[j].step \in {"rename", "sync"}
       /\ op'[j].to = op[j].to
       /\ op[j].step \in {"rename", "sync"} => MovedCopy(j)'.waitingOn = MovedCopy(j).waitingOn

\* A job whose records rest keeps its requests.
LEMMA RestingKeepsRequests ==
    ASSUME NEW j \in Jobs, CopiesInOrder(j), files'[j] = files[j],
           \/ op'[j] = op[j]
           \/ op'[j].step \in {"none", "claim_rename"}
    PROVE  KeepsRequests(j)
  BY DEF CopiesInOrder, OneRecord, TwinCoversWait, RemovesForDone, KeepsRequests, HoldsOn, HeldBy,
         Parked, RetiredWith, RetiredAsDuplicate, Copies

\* A record that is rewritten before it moves on: the requests an abandoned
\* wait names are decided by then.
LEMMA MovingKeepsRequests ==
    ASSUME StoreTypeOK, NEW j \in Jobs, CopiesInOrder(j),
           NEW from \in Copies(j) \ {"done"}, NEW to, NEW r \in Record, NEW by,
           MoveWith(j, from, to, r, by),
           from = "waiting" =>
               /\ r.waitingOn \subseteq files[j]["waiting"].waitingOn
               /\ \A q \in files[j]["waiting"].waitingOn : consent'[q] # "pending"
    PROVE  KeepsRequests(j)
<1>1. \A i \in Jobs : Copies(i)' = Copies(i)
  BY MoveKeepsCopies
<1>2. from \in Buckets /\ files'[j] = [files[j] EXCEPT ![from] = r]
  BY DEF MoveWith, StoreTypeOK, Copies
<1>3. \A b \in Buckets \ {from} : files'[j][b] = files[j][b]
  BY <1>2
<1>4. files'[j][from] = r
  BY <1>2 DEF StoreTypeOK
<1>5. op'[j].step = "rename" /\ op'[j].from = from
  BY DEF MoveWith, StoreTypeOK
<1>6. Copies(j) \subseteq {from, "done"}
  BY DEF CopiesInOrder, OneRecord
<1>7. CopiesInOrder(j)'
  <2>1. OneRecord(j)' /\ RemovesForDone(j)'
    BY <1>1, <1>5 DEF CopiesInOrder, OneRecord, RemovesForDone
  <2>2. TwinCoversWait(j)'
    <3> SUFFICES ASSUME {"waiting", "done"} \subseteq Copies(j)'
                 PROVE  /\ files'[j]["done"].phase = "indeterminate"
                        /\ \/ files'[j]["done"] = CorruptRecord
                           \/ files'[j]["waiting"].waitingOn \subseteq files'[j]["done"].waitingOn
      BY DEF TwinCoversWait
    <3>1. {"waiting", "done"} \subseteq Copies(j) /\ from = "waiting"
      BY <1>1, <1>6
    <3>2. files'[j]["done"] = files[j]["done"] /\ files'[j]["waiting"] = r
      BY <1>3, <1>4, <3>1 DEF Buckets
    <3> QED
      BY <3>1, <3>2 DEF CopiesInOrder, TwinCoversWait
  <2> QED
    BY <2>1, <2>2 DEF CopiesInOrder
<1>8. HoldsOn(j)
  BY <1>6 DEF HoldsOn, HeldBy, Parked, RetiredWith
<1> QED
  BY <1>7, <1>8 DEF KeepsRequests

\* A change of a running record touches no wait.
LEMMA TouchingKeepsRequests ==
    ASSUME StoreTypeOK, NEW j \in Jobs, CopiesInOrder(j), "running" \in Copies(j),
           NEW r \in Record, files' = [files EXCEPT ![j]["running"] = r],
           op'[j] = op[j] \/ op'[j] = NoOp
    PROVE  KeepsRequests(j)
<1>1. \A b \in Buckets \ {"running"} : files'[j][b] = files[j][b]
  BY DEF StoreTypeOK
<1>2. files'[j]["running"] = r /\ r # Absent
  BY AbsentIsNoRecord DEF StoreTypeOK, Buckets
<1>3. Copies(j)' = Copies(j) /\ Copies(j) \subseteq {"running", "done"}
  <2>1. Copies(j) \subseteq {"running", "done"}
    BY DEF CopiesInOrder, OneRecord
  <2> QED
    BY <1>1, <1>2, <2>1 DEF Copies
<1>4. CopiesInOrder(j)'
  BY <1>3 DEF CopiesInOrder, OneRecord, TwinCoversWait, RemovesForDone, NoOp
<1>5. HoldsOn(j)
  BY <1>3 DEF HoldsOn, HeldBy, Parked, RetiredWith
<1> QED
  BY <1>4, <1>5 DEF KeepsRequests

\* A terminal copy of which nobody knows how it ended outweighs a wait.
LEMMA TwinDominates ==
    ASSUME StoreTypeOK, NEW j \in Jobs, NEW S \in SUBSET Copies(j),
           {"waiting", "done"} \subseteq S, S \subseteq {"waiting", "done"},
           files[j]["done"].phase = "indeterminate"
    PROVE  Dominant(j, S) = "done"
<1>1. Dominant(j, S) \in S
  BY DominantIsACopy
<1>2. files[j]["waiting"].phase \in Phases
  BY CopiesAreRecords DEF Record
<1>3. Weight(j, "done") = 23
  BY DEF Weight, PhaseRank, BucketRank, Phases, Buckets
<1>4. Weight(j, "waiting") \in 0 .. 22
  BY <1>2 DEF Weight, PhaseRank, BucketRank, Phases, Buckets
<1>5. \A c \in S : Weight(j, c) <= Weight(j, "done")
  BY <1>3, <1>4
<1>6. Dominant(j, S) # "waiting"
  <2>1. \A c \in S : Weight(j, c) <= Weight(j, Dominant(j, S))
    BY <1>5 DEF Dominant
  <2> QED
    BY <1>3, <1>4, <2>1
<1> QED
  BY <1>1, <1>6

\* Retiring a job as a duplicate keeps the requests of its wait in the
\* terminal copy, unless that copy stands for a record nobody could read.
LEMMA ReconcilingKeepsRequests ==
    ASSUME StoreTypeOK, NEW j \in Jobs, CopiesInOrder(j), NEW S \in SUBSET Buckets,
           Reconcile(j, S)
    PROVE  KeepsRequests(j)
<1> DEFINE found == S \cap Copies(j)
           v == Indeterminate(IF found = {} THEN CorruptRecord
                              ELSE files[j][Dominant(j, found)])
<1>1. S # found \/ \E b \in found : UnsafeCopy(j, b)
  <2>1. PICK b \in S, c \in S : b # c
    BY DEF Reconcile
  <2> QED
    BY <2>1 DEF CopiesInOrder, OneRecord, UnsafeCopy
<1>2. files' = [files EXCEPT ![j]["done"] = v]
  BY <1>1 DEF Reconcile
<1>3. op'[j].step = "remove" /\ op'[j].to = "done"
  BY <1>1 DEF Reconcile, StoreTypeOK
<1>4. v \in Record /\ v.phase = "indeterminate"
  <2>1. found # {} => Dominant(j, found) \in found
    BY DominantIsACopy
  <2>2. found # {} => files[j][Dominant(j, found)] \in Record
    BY <2>1, CopiesAreRecords
  <2>3. v \in Record
    BY <2>2, VerdictKeepsShape
  <2>4. CorruptRecord \in Record
    BY DEF CorruptRecord, NewRecord, Record, Statuses, Phases, Terminal
  <2> QED
    BY <2>2, <2>3, <2>4 DEF Indeterminate, Record
<1>5. /\ files'[j]["done"] = v
      /\ \A b \in Buckets \ {"done"} : files'[j][b] = files[j][b]
  BY <1>2 DEF StoreTypeOK, Buckets
<1>6. Copies(j)' = Copies(j) \cup {"done"}
  BY <1>4, <1>5, AbsentIsNoRecord DEF Copies, Buckets
<1>7. Indeterminate(CorruptRecord) = CorruptRecord
  BY DEF Indeterminate, CorruptRecord, NewRecord
<1>8. ASSUME NEW b \in Copies(j), Dominant(j, found) = b, b \in found
      PROVE  /\ v.waitingOn = files[j][b].waitingOn
             /\ files[j][b] = CorruptRecord => v = CorruptRecord
  BY <1>7, <1>8, CopiesAreRecords DEF Indeterminate, Record
<1>9. "waiting" \in Copies(j) =>
          v = CorruptRecord \/ files[j]["waiting"].waitingOn \subseteq v.waitingOn
  <2> SUFFICES ASSUME "waiting" \in Copies(j)
               PROVE  v = CorruptRecord \/ files[j]["waiting"].waitingOn \subseteq v.waitingOn
    OBVIOUS
  <2>1. Copies(j) \subseteq {"waiting", "done"}
    BY DEF CopiesInOrder, OneRecord
  <2>2. CASE found = {}
    BY <1>7, <2>2
  <2>3. CASE found = {"waiting"}
    <3>1. Dominant(j, found) = "waiting"
      BY <2>3, DominantIsACopy
    <3> QED
      BY <1>8, <2>3, <3>1
  <2>4. CASE "done" \in found
    <3>1. TwinCoversWait(j) /\ {"waiting", "done"} \subseteq Copies(j)
      BY <2>4 DEF CopiesInOrder
    <3>2. Dominant(j, found) = "done"
      <4>1. CASE found = {"done"}
        BY <4>1, DominantIsACopy
      <4>2. CASE "waiting" \in found
        BY <2>1, <2>4, <3>1, <4>2, TwinDominates DEF TwinCoversWait
      <4> QED
        BY <2>1, <2>4, <4>1, <4>2
    <3> QED
      BY <1>8, <2>4, <3>1, <3>2 DEF TwinCoversWait
  <2> QED
    BY <2>1, <2>2, <2>3, <2>4
<1>10. ASSUME NEW q \in Requests, RetiredWith(j, q)
       PROVE  v = CorruptRecord \/ q \in v.waitingOn
  <2>1. Copies(j) = {"done"} /\ found \subseteq {"done"}
    BY <1>10 DEF RetiredWith
  <2>2. CASE found = {}
    BY <1>7, <2>2
  <2>3. CASE found = {"done"}
    <3>1. Dominant(j, found) = "done"
      BY <2>3, DominantIsACopy
    <3> QED
      BY <1>8, <1>10, <2>1, <2>3, <3>1 DEF RetiredWith, RetiredAsDuplicate
  <2> QED
    BY <2>1, <2>2, <2>3
<1> HIDE DEF v, found
<1>11. CopiesInOrder(j)'
  <2>1. OneRecord(j)' /\ RemovesForDone(j)'
    BY <1>3, <1>6 DEF CopiesInOrder, OneRecord, RemovesForDone
  <2>2. TwinCoversWait(j)'
    BY <1>4, <1>5, <1>6, <1>9 DEF TwinCoversWait, Buckets
  <2> QED
    BY <2>1, <2>2 DEF CopiesInOrder
<1>12. HoldsOn(j)
  <2> SUFFICES ASSUME NEW q \in Requests, HeldBy(j, q) PROVE HeldBy(j, q)'
    BY DEF HoldsOn
  <2>1. CASE Parked(j, q)
    BY <1>3, <1>5, <1>6, <2>1 DEF HeldBy, Parked, Buckets
  <2>2. CASE RetiredWith(j, q)
    <3>1. Copies(j)' = {"done"}
      BY <1>6, <2>2 DEF RetiredWith
    <3>2. RetiredAsDuplicate(j, q)'
      BY <1>4, <1>5, <1>10, <2>2, AbsentIsNoRecord DEF RetiredAsDuplicate
    <3> QED
      BY <3>1, <3>2 DEF HeldBy, RetiredWith
  <2> QED
    BY <2>1, <2>2 DEF HeldBy
<1> QED
  BY <1>11, <1>12 DEF KeepsRequests

\* Removing a duplicate removes no terminal copy.
LEMMA RemovalKeepsRequests ==
    ASSUME Inv, NEW j \in Jobs, CopiesInOrder(j), RemoveDuplicate(j)
    PROVE  KeepsRequests(j)
<1>1. op[j].to = "done" /\ "done" \in Copies(j) /\ "done" \notin op[j].drop
  BY DEF RemoveDuplicate, CopiesInOrder, RemovesForDone, Inv, MovesAreSound, RemoveReady
<1>2. op[j] \in Operation
  BY DEF RemoveDuplicate, Inv, StoreTypeOK, NoOp
<1>3. PICK b \in op[j].drop :
         /\ files' = [files EXCEPT ![j][b] = Absent]
         /\ op' = IF op[j].drop = {b} THEN [op EXCEPT ![j] = NoOp]
                  ELSE [op EXCEPT ![j].drop = op[j].drop \ {b}]
  BY DEF RemoveDuplicate
<1>4. b \in Buckets \ {"done"}
  BY <1>1, <1>2, <1>3 DEF Operation
<1>5. /\ files'[j][b] = Absent
      /\ \A c \in Buckets \ {b} : files'[j][c] = files[j][c]
  BY <1>3, <1>4 DEF Inv, StoreTypeOK
<1>6. Copies(j)' = Copies(j) \ {b}
  BY <1>5 DEF Copies
<1>7. op'[j] = NoOp \/ (op'[j].step = "remove" /\ op'[j].to = "done")
  BY <1>1, <1>2, <1>3 DEF RemoveDuplicate, Inv, StoreTypeOK, Operation
<1>8. op'[j].step \in {"none", "remove"}
  BY <1>7 DEF NoOp
<1>9. CopiesInOrder(j)'
  <2>1. OneRecord(j)' /\ RemovesForDone(j)'
    BY <1>6, <1>7 DEF CopiesInOrder, OneRecord, RemovesForDone, NoOp
  <2>2. TwinCoversWait(j)'
    BY <1>4, <1>5, <1>6 DEF CopiesInOrder, TwinCoversWait, Buckets
  <2> QED
    BY <2>1, <2>2 DEF CopiesInOrder
<1>10. HoldsOn(j)
  <2> SUFFICES ASSUME NEW q \in Requests, HeldBy(j, q) PROVE HeldBy(j, q)'
    BY DEF HoldsOn
  <2>1. files'[j]["done"] = files[j]["done"]
    BY <1>4, <1>5 DEF Buckets
  <2>2. CASE Parked(j, q) /\ b = "waiting"
    <3>1. TwinCoversWait(j) /\ {"waiting", "done"} \subseteq Copies(j)
      BY <1>1, <2>2 DEF CopiesInOrder, Parked
    <3>2. Copies(j)' = {"done"}
      BY <1>1, <1>6, <2>2 DEF CopiesInOrder, OneRecord, Parked
    <3>3. files[j]["done"] # Absent
      BY <1>1 DEF Copies
    <3>4. RetiredAsDuplicate(j, q)'
      BY <2>1, <2>2, <3>1, <3>3 DEF TwinCoversWait, RetiredAsDuplicate, Parked
    <3> QED
      BY <3>2, <3>4 DEF HeldBy, RetiredWith
  <2>3. CASE Parked(j, q) /\ b # "waiting"
    BY <1>5, <1>6, <1>8, <2>3 DEF HeldBy, Parked, Buckets
  <2>4. CASE RetiredWith(j, q)
    BY <1>4, <1>6, <2>1, <2>4 DEF HeldBy, RetiredWith, RetiredAsDuplicate
  <2> QED
    BY <2>2, <2>3, <2>4 DEF HeldBy
<1> QED
  BY <1>9, <1>10 DEF KeepsRequests

\* A rename moves the only record there is beside a terminal copy, and never
\* next to one on its way to the waits.
LEMMA RenameKeepsRequests ==
    ASSUME Inv, NEW j \in Jobs, CopiesInOrder(j), Rename(j)
    PROVE  KeepsRequests(j)
<1> DEFINE from == op[j].from
           to == op[j].to
<1>1. /\ from \in Copies(j) \ {"done"} /\ to \in Buckets \ {from}
      /\ from # "waiting" => Sole(j, from)
      /\ to = "waiting" => from = "running"
  <2>1. op[j] \in Operation
    BY DEF Rename, Inv, StoreTypeOK, NoOp
  <2> QED
    BY <2>1 DEF Rename, Inv, MovesAreSound, RenameReady, ClaimReady, Sole, Operation
<1>2. /\ files'[j][from] = Absent /\ files'[j][to] = files[j][from]
      /\ \A b \in Buckets \ {from, to} : files'[j][b] = files[j][b]
  BY <1>1 DEF Rename, Inv, StoreTypeOK, Copies
<1>3. Copies(j)' = (Copies(j) \ {from}) \cup {to}
  BY <1>1, <1>2 DEF Copies
<1>4. op'[j].step \in {"sync", "claim_sync"}
  <2>1. op[j] \in Operation
    BY DEF Rename, Inv, StoreTypeOK, NoOp
  <2> QED
    BY <2>1 DEF Rename, Inv, StoreTypeOK, Operation
<1> HIDE DEF from, to
<1>5. Copies(j) \subseteq {from, "done"}
  BY <1>1 DEF CopiesInOrder, OneRecord
<1>6. CopiesInOrder(j)'
  <2>1. OneRecord(j)' /\ RemovesForDone(j)'
    BY <1>3, <1>4, <1>5 DEF OneRecord, RemovesForDone
  <2>2. ~({"waiting", "done"} \subseteq Copies(j)')
    BY <1>1, <1>3, <1>5 DEF Sole
  <2> QED
    BY <2>1, <2>2 DEF CopiesInOrder, TwinCoversWait
<1>7. HoldsOn(j)
  <2>1. ASSUME NEW q \in Requests, Parked(j, q) PROVE FALSE
    <3>1. from = "waiting"
      BY <1>5, <2>1 DEF Parked
    <3>2. op[j].step = "claim_rename"
      BY <2>1, <3>1 DEF Rename, Parked, from
    <3> QED
      BY <3>1, <3>2 DEF Inv, MovesAreSound, ClaimReady, from
  <2> QED
    BY <1>1, <2>1 DEF HoldsOn, HeldBy, RetiredWith
<1> QED
  BY <1>6, <1>7 DEF KeepsRequests

\* The file steps of the lock holder and the scans.
LEMMA FileStepsKeepRequests ==
    ASSUME Inv, NEW j \in Jobs, CopiesInOrder(j), FileStep(j)
    PROVE  KeepsRequests(j)
<1>1. CASE Rename(j) \/ RemoveDuplicate(j)
  BY <1>1, RenameKeepsRequests, RemovalKeepsRequests
<1>2. CASE ClaimWrite(j)
  <2>1. Sole(j, "running")
    BY <1>2 DEF ClaimWrite, Inv, MovesAreSound, ClaimReady
  <2>2. "running" \in Copies(j) /\ files[j]["running"] \in Record
    BY <2>1, CopiesAreRecords DEF Sole, Inv
  <2>3. incarnation \in Incarnations
    BY DEF Inv, StoreTypeOK
  <2>4. ClaimedBy(files[j]["running"], incarnation) \in Record
    BY <2>2, <2>3, ClaimKeepsShape
  <2>5. /\ files' = [files EXCEPT ![j]["running"] = ClaimedBy(files[j]["running"], incarnation)]
        /\ op'[j] = NoOp
    BY <1>2 DEF ClaimWrite, Inv, StoreTypeOK
  <2> QED
    BY <2>2, <2>4, <2>5, TouchingKeepsRequests DEF Inv
<1>3. CASE Synced(j) \/ OpFails(j) \/ ScanReads(j)
  <2>1. files'[j] = files[j] /\ (op'[j] = op[j] \/ op'[j].step \in {"none", "claim_rename"})
    BY <1>3 DEF Synced, OpFails, ScanReads, NoOp, Inv, StoreTypeOK
  <2> QED
    BY <2>1, RestingKeepsRequests
<1> QED
  BY <1>1, <1>2, <1>3 DEF FileStep

\* A file step files no request and leaves the decisions alone.
LEMMA FileStepsAskNobody ==
    ASSUME NEW j \in Jobs, FileStep(j)
    PROVE  consent' = consent
  BY DEF FileStep, Rename, Synced, ClaimWrite, RemoveDuplicate, OpFails, ScanReads

\* Refusing requests files none, and refuses those it is about.
LEMMA RefusingAsksNobody ==
    ASSUME NEW S, consent' = Denying(S)
    PROVE  /\ AsksNobody
           /\ \A q \in Requests : q \in S => consent'[q] # "pending"
  BY DEF AsksNobody, Denying

\* The end of a run without a result.
LEMMA SettlingKeepsRequests ==
    ASSUME Inv, NEW j \in Jobs, CopiesInOrder(j), NEW by \in Workers \cup {NoProcess},
           Sole(j, "running"), SettleInterrupted(j, by)
    PROVE  KeepsRequests(j) /\ AsksNobody
<1> DEFINE r == files[j]["running"]
<1>1. "running" \in Copies(j) \ {"done"} /\ r \in Record
  BY CopiesAreRecords DEF Inv, Sole
<1>2. PICK to \in Buckets,
           s \in {Cancelled(r), Suspended(r), Indeterminate(r), Failed(Counted(r)),
                 Requeued(Counted(r))} : MoveWith(j, "running", to, s, by)
  BY DEF SettleInterrupted, Buckets
<1>3. s \in Record
  BY <1>1, <1>2, TransformsKeepShape
<1>4. AsksNobody
  BY RefusingAsksNobody DEF SettleInterrupted, AsksNobody
<1> QED
  BY <1>1, <1>2, <1>3, <1>4, MovingKeepsRequests DEF Inv

\* The operations of the queue.
LEMMA QueueStepsKeepRequests ==
    ASSUME Inv, NEW j \in Jobs, CopiesInOrder(j), QueueStep(j)
    PROVE  KeepsRequests(j) /\ AsksNobody
<1>0. NoProcess \in Workers \cup {NoProcess} /\ StoreTypeOK
  BY DEF Inv
<1>1. CASE Submit(j)
  <2>1. files'[j] = [files[j] EXCEPT !["pending"] = NewRecord] /\ op' = op /\ consent' = consent
    BY <1>0, <1>1 DEF Submit, StoreTypeOK
  <2>2. Copies(j) = {} /\ Copies(j)' \subseteq {"pending"}
    BY <1>1, <2>1 DEF Submit, Copies
  <2> QED
    BY <2>1, <2>2 DEF KeepsRequests, AsksNobody, CopiesInOrder, OneRecord, TwinCoversWait,
       RemovesForDone, HoldsOn, HeldBy, Parked, RetiredWith
<1>2. CASE RequestCancel(j)
  <2>1. CASE CancelPending(j)
    <3>1. "pending" \in Copies(j) /\ files[j]["pending"] \in Record
      BY <1>0, <2>1, CopiesAreRecords DEF CancelPending, Sole
    <3> QED
      BY <1>0, <2>1, <3>1, TransformsKeepShape, MovingKeepsRequests DEF CancelPending, AsksNobody
  <2>2. CASE CancelRunning(j)
    <3>1. "running" \in Copies(j) /\ files[j]["running"] \in Record
      BY <1>0, <2>2, CopiesAreRecords DEF CancelRunning, Sole
    <3> DEFINE s == [files[j]["running"] EXCEPT !.cancel = TRUE]
    <3>2. s \in Record
      BY <3>1 DEF Record
    <3>3. files' = [files EXCEPT ![j]["running"] = s] /\ op' = op /\ consent' = consent
      BY <1>0, <2>2, <3>1 DEF CancelRunning, StoreTypeOK
    <3> HIDE DEF s
    <3> QED
      BY <1>0, <3>1, <3>2, <3>3, TouchingKeepsRequests DEF AsksNobody
  <2>3. CASE CancelWaiting(j)
    <3> DEFINE r == files[j]["waiting"]
               s == [Cancelled(r) EXCEPT !.cancel = TRUE]
    <3>1. "waiting" \in Copies(j) /\ r \in Record
      BY <1>0, <2>3, CopiesAreRecords DEF CancelWaiting, Sole
    <3>2. s \in Record /\ s.waitingOn = {}
      BY <3>1, TransformsKeepShape DEF Cancelled, Ended, Record
    <3>3. consent' = Denying(r.waitingOn) /\ MoveWith(j, "waiting", "done", s, NoProcess)
      BY <2>3 DEF CancelWaiting
    <3>4. r.waitingOn \subseteq Requests
      BY <3>1 DEF Record
    <3>5. \A q \in r.waitingOn : consent'[q] # "pending"
      BY <3>3, <3>4, RefusingAsksNobody
    <3> HIDE DEF s
    <3> QED
      BY <1>0, <3>1, <3>2, <3>3, <3>5, MovingKeepsRequests, RefusingAsksNobody
  <2> QED
    BY <1>2, <2>1, <2>2, <2>3 DEF RequestCancel
<1>3. CASE ReconcileDuplicates(j) \/ ReconcileMoved(j)
  <2>1. PICK S \in SUBSET Buckets : Reconcile(j, S)
    BY <1>3, ScansFindJobs
  <2> QED
    BY <1>0, <2>1, ReconcilingKeepsRequests DEF Reconcile, AsksNobody
<1>4. CASE Claim(j)
  <2>1. files'[j] = files[j] /\ op'[j].step = "claim_rename" /\ consent' = consent
    BY <1>0, <1>4 DEF Claim, StoreTypeOK
  <2> QED
    BY <2>1, RestingKeepsRequests DEF AsksNobody
<1>5. CASE ClaimRefused(j)
  <2>1. "pending" \in Copies(j) /\ files[j]["pending"] \in Record
    BY <1>0, <1>5, CopiesAreRecords DEF ClaimRefused, Sole
  <2>2. \E s \in Record : MoveWith(j, "pending", "done", s, NoProcess)
    BY <1>5, <2>1, TransformsKeepShape DEF ClaimRefused
  <2> QED
    BY <1>0, <1>5, <2>1, <2>2, MovingKeepsRequests DEF ClaimRefused, AsksNobody
<1>6. CASE Recover(j)
  BY <1>0, <1>6, SettlingKeepsRequests DEF Recover
<1>7. CASE RecoverUnverifiable(j)
  <2>1. "running" \in Copies(j) /\ files[j]["running"] \in Record
    BY <1>0, <1>7, CopiesAreRecords DEF RecoverUnverifiable, Sole
  <2>2. MoveWith(j, "running", "done", Indeterminate(files[j]["running"]), NoProcess)
    BY <1>7 DEF RecoverUnverifiable
  <2> QED
    BY <1>0, <1>7, <2>1, <2>2, TransformsKeepShape, MovingKeepsRequests
    DEF RecoverUnverifiable, AsksNobody
<1>8. CASE ReconcileWaiting(j)
  <2> DEFINE r == files[j]["waiting"]
  <2>1. "waiting" \in Copies(j) /\ r \in Record
    BY <1>0, <1>8, CopiesAreRecords DEF ReconcileWaiting, Copies, Buckets
  <2>2. r.waitingOn \subseteq Requests
    BY <2>1 DEF Record
  <2>3. CASE FailWaiting(j)
    <3>1. Failed(r) \in Record /\ Failed(r).waitingOn = r.waitingOn
      BY <2>1, TransformsKeepShape DEF Failed, Record
    <3>2. consent' = Denying(r.waitingOn) /\ MoveWith(j, "waiting", "done", Failed(r), NoProcess)
      BY <2>3 DEF FailWaiting
    <3>3. \A q \in r.waitingOn : consent'[q] # "pending"
      BY <2>2, <3>2, RefusingAsksNobody
    <3> QED
      BY <1>0, <2>1, <3>1, <3>2, <3>3, MovingKeepsRequests, RefusingAsksNobody
  <2>4. CASE Resume(j) /\ Granted(r)
    <3>1. Resumed(r) \in Record /\ Resumed(r).waitingOn = {}
      BY <2>1, TransformsKeepShape DEF Resumed, Requeued, Record
    <3>2. consent' = consent /\ MoveWith(j, "waiting", "pending", Resumed(r), NoProcess)
      BY <2>4 DEF Resume
    <3>3. \A q \in r.waitingOn : consent'[q] # "pending"
      BY <2>4, <3>2 DEF Granted
    <3> QED
      BY <1>0, <2>1, <3>1, <3>2, <3>3, MovingKeepsRequests DEF AsksNobody
  <2> QED
    BY <1>8, <2>3, <2>4 DEF ReconcileWaiting
<1>9. CASE EightHoursPass(j)
  <2>1. files' = files /\ op' = op /\ consent' = consent
    BY <1>9 DEF EightHoursPass
  <2> QED
    BY <2>1, RestingKeepsRequests DEF AsksNobody
<1> QED
  BY <1>1, <1>2, <1>3, <1>4, <1>5, <1>6, <1>7, <1>8, <1>9 DEF QueueStep

\* The steps of a lease.
LEMMA LeaseStepsKeepRequests ==
    ASSUME Inv, NEW j \in Jobs, CopiesInOrder(j), NEW w \in Workers, LeaseStep(j, w)
    PROVE  KeepsRequests(j) /\ AsksNobody
<1> DEFINE r == files[j]["running"]
<1>0. StoreTypeOK
  BY DEF Inv
<1>1. "running" \in Copies(j) /\ r \in Record
  <2>1. Sole(j, "running") \/ r # Absent
    BY DEF LeaseStep, Bind, CanBind, Prepare, CanPrepare, Commit, CanCommit, Release, Finish,
           RecordWaiting, CanRecordWaiting
  <2>2. "running" \in Copies(j)
    BY <2>1 DEF Sole, Copies, Buckets
  <2> QED
    BY <1>0, <2>2, CopiesAreRecords
<1>2. ASSUME \/ Bind(j, w) \/ Prepare(j, w) \/ Commit(j, w)
             \/ \E q \in Requests : RecordWaiting(j, q)
      PROVE  KeepsRequests(j) /\ AsksNobody
  <2>1. PICK s : /\ s \in {[r EXCEPT !.worker = w], [r EXCEPT !.phase = "prepared"],
                           [r EXCEPT !.phase = "committed"]}
                          \cup {[r EXCEPT !.waitingOn = @ \cup {q}] : q \in Requests}
                 /\ files' = [files EXCEPT ![j]["running"] = s]
                 /\ op' = op /\ consent' = consent
    BY <1>0, <1>1, <1>2 DEF Bind, Prepare, Commit, RecordWaiting, StoreTypeOK, Buckets
  <2>2. s \in Record
    BY <1>1, <2>1 DEF Record, Phases
  <2> QED
    BY <1>0, <1>1, <2>1, <2>2, TouchingKeepsRequests DEF AsksNobody
<1>3. CASE Release(j, w)
  BY <1>3, SettlingKeepsRequests DEF Release
<1>4. ASSUME NEW o \in Outcomes, NEW asked \in SUBSET Requests, Finish(j, o, asked, w)
      PROVE  KeepsRequests(j) /\ AsksNobody
  <2>1. Effective(r, o) \in Outcomes
    BY DEF Effective, Outcomes
  <2>2. FinishedRecord(r, Effective(r, o), asked) \in Record
    BY <1>1, <2>1, FinishKeepsShape
  <2>3. \E to : MoveWith(j, "running", to, FinishedRecord(r, Effective(r, o), asked), w)
    BY <1>4 DEF Finish
  <2>4. AsksNobody
    BY <1>4, RefusingAsksNobody DEF Finish, AsksNobody
  <2> QED
    BY <1>0, <1>1, <2>2, <2>3, <2>4, MovingKeepsRequests
<1> QED
  BY <1>2, <1>3, <1>4 DEF LeaseStep

\* A step on a job whose lock is held is one of its holder's; a step that
\* takes the lock, the end of a run apart, takes it for no task.
LEMMA MovesGoOn ==
    ASSUME Inv, NEW j \in Jobs,
           \/ FileStep(j) \/ QueueStep(j)
           \/ \E w \in Workers : \/ Bind(j, w) \/ Prepare(j, w) \/ Commit(j, w)
                                 \/ \E q \in Requests : RecordWaiting(j, q)
    PROVE  MoveGoesOn(j)
<1>0. op \in [Jobs -> Operation \cup {NoOp}] /\ NoProcess \notin Workers
  BY ProcessesAreDistinct DEF Inv, StoreTypeOK
<1>1. CASE Rename(j)
  <2>1. /\ op[j] \in Operation /\ op[j].from \in Copies(j) /\ op[j].to \in Buckets \ {op[j].from}
    <3>1. op[j] \in Operation
      BY <1>0, <1>1 DEF Rename, NoOp
    <3> QED
      BY <1>1, <3>1 DEF Rename, Inv, MovesAreSound, RenameReady, ClaimReady, Sole, Operation
  <2>2. files'[j][op[j].to] = files[j][op[j].from]
    BY <1>1, <2>1 DEF Rename, Inv, StoreTypeOK, Copies
  <2>3. /\ op'[j].by = op[j].by /\ op'[j].to = op[j].to /\ op[j] # NoOp
        /\ op[j].step = "rename" => op'[j].step = "sync"
        /\ op[j].step # "sync"
    BY <1>0, <1>1, <2>1 DEF Rename, Operation, NoOp
  <2> QED
    BY <2>2, <2>3 DEF MoveGoesOn, MovedCopy
<1>2. CASE RemoveDuplicate(j)
  <2>1. op'[j] = NoOp \/ (op'[j].by = op[j].by /\ op'[j].to = op[j].to)
    BY <1>0, <1>2 DEF RemoveDuplicate, Operation, NoOp
  <2>2. op[j].step = "remove" /\ op[j] # NoOp
    BY <1>2 DEF RemoveDuplicate, NoOp
  <2> QED
    BY <2>1, <2>2 DEF MoveGoesOn
<1>3. CASE Synced(j) \/ ClaimWrite(j) \/ OpFails(j)
  BY <1>0, <1>3 DEF Synced, ClaimWrite, OpFails, MoveGoesOn
<1>4. CASE ScanReads(j)
  BY <1>4 DEF ScanReads, MoveGoesOn, MovedCopy
<1>5. ASSUME NEW from, NEW to, NEW r, MoveWith(j, from, to, r, NoProcess) PROVE MoveGoesOn(j)
  BY <1>0, <1>5 DEF MoveWith, MoveGoesOn
<1>6. ASSUME Free(j), op' = op PROVE MoveGoesOn(j)
  BY <1>6 DEF Free, MoveGoesOn
<1>7. CASE QueueStep(j)
  <2>1. CASE Submit(j) \/ EightHoursPass(j)
    BY <1>6, <2>1 DEF Submit, EightHoursPass
  <2>2. CASE RequestCancel(j)
    BY <1>5, <1>6, <2>2 DEF RequestCancel, CancelPending, CancelRunning, CancelWaiting
  <2>3. CASE ReconcileDuplicates(j) \/ ReconcileMoved(j)
    <3>1. PICK S \in SUBSET Buckets : Reconcile(j, S)
      BY <2>3, ScansFindJobs
    <3>2. op'[j].by = NoProcess
      BY <1>0, <3>1 DEF Reconcile
    <3> QED
      BY <1>0, <3>2 DEF MoveGoesOn
  <2>4. CASE Claim(j)
    BY <1>0, <2>4 DEF Claim, MoveGoesOn
  <2>5. CASE ClaimRefused(j) \/ RecoverUnverifiable(j)
    BY <1>5, <2>5 DEF ClaimRefused, RecoverUnverifiable
  <2>6. CASE Recover(j)
    BY <1>5, <2>6 DEF Recover, SettleInterrupted
  <2>7. CASE ReconcileWaiting(j)
    BY <1>5, <2>7 DEF ReconcileWaiting, FailWaiting, Resume
  <2> QED
    BY <1>7, <2>1, <2>2, <2>3, <2>4, <2>5, <2>6, <2>7 DEF QueueStep
<1>8. ASSUME NEW w \in Workers,
             \/ Bind(j, w) \/ Prepare(j, w) \/ Commit(j, w)
             \/ \E q \in Requests : RecordWaiting(j, q)
      PROVE  MoveGoesOn(j)
  BY <1>6, <1>8 DEF Bind, CanBind, Prepare, CanPrepare, Commit, CanCommit, RecordWaiting,
     CanRecordWaiting
<1> QED
  BY <1>1, <1>2, <1>3, <1>4, <1>7, <1>8 DEF FileStep

-----------------------------------------------------------------------------
\* Requests and the tasks that file them

\* The stages at which a task may have filed requests.
FilingStages == {"executing", "reaping", "finishing", "saving", "settling"}
EndingStages == FilingStages \ {"executing"}

\* An undecided request of a task is the one it is recording or one it has
\* recorded.
FilingInOrder(w) ==
    LET t == sup[w] IN
    /\ t.asking # NoRequest => t.stage = "executing"
    /\ t.stage \notin FilingStages => t.asked = {} /\ FiledBy(w) = {}
    /\ t.outcome = "retry" => t.asked = {} /\ t.stage \in EndingStages
    /\ \A q \in FiledBy(w) : consent[q] = "pending" => q = t.asking \/ q \in t.asked

\* A move that files the outcome of a task has that task wait for it, and
\* what moves to the waits names every request of the task.
SavingInOrder(j) ==
    op[j] # NoOp /\ op[j].by \in Workers =>
        LET t == sup[op[j].by] IN
        /\ op[j].step \in {"rename", "sync"}
        /\ t.stage = "saving" /\ t.job = j
        /\ op[j].to = "waiting" => t.asked \subseteq MovedCopy(j).waitingOn

\* The task that filed the request has still to retire it.
AtWork(q) ==
    /\ filer[q] \in Workers
    /\ ~(At(filer[q], "settling") /\ sup[filer[q]].outcome = "waiting")

SomeoneHolds(q) ==
    consent[q] = "pending" => AtWork(q) \/ \E j \in Jobs : HeldBy(j, q)

\* The inductive invariant of the requests.  That somebody holds a request is
\* not kept by itself: a rename may put a wait over another copy, a retirement may
\* drop what the wait names, and a task may settle before it saved what it asked.
Answered ==
    /\ \A j \in Jobs : CopiesInOrder(j) /\ SavingInOrder(j)
    /\ \A w \in Workers : FilingInOrder(w)
    /\ \A q \in Requests : SomeoneHolds(q)

\* What has to be shown of a step that changes at most the task w.
LEMMA OneTaskKeepsAnswers ==
    ASSUME Answered, NEW w,
           \A v \in Workers \ {w} : sup'[v] = sup[v] /\ FiledBy(v)' \subseteq FiledBy(v),
           \A j \in Jobs : KeepsRequests(j),
           \A j \in Jobs : \/ SavingInOrder(j)'
                           \/ MoveGoesOn(j) /\ (op'[j] = NoOp \/ op'[j].by # w),
           w \in Workers => FilingInOrder(w)',
           \A q \in Requests : consent'[q] = "pending" =>
               consent[q] = "pending" \/ (filer'[q] = w /\ AtWork(q)'),
           \A q \in Requests : consent'[q] = "pending" /\ AtWork(q) =>
               AtWork(q)' \/ \E j \in Jobs : HeldBy(j, q)'
    PROVE  Answered'
<1>1. ASSUME NEW j \in Jobs PROVE CopiesInOrder(j)' /\ SavingInOrder(j)'
  <2>1. CopiesInOrder(j)'
    BY DEF KeepsRequests
  <2>2. ASSUME MoveGoesOn(j), op'[j] # NoOp, op'[j].by \in Workers \ {w} PROVE SavingInOrder(j)'
    <3>1. SavingInOrder(j)
      BY DEF Answered
    <3>2. sup'[op'[j].by] = sup[op'[j].by]
      BY <2>2
    <3> QED
      BY <2>2, <3>1, <3>2 DEF MoveGoesOn, SavingInOrder
  <2>3. SavingInOrder(j)'
    BY <2>2 DEF SavingInOrder
  <2> QED
    BY <2>1, <2>3
<1>2. ASSUME NEW v \in Workers PROVE FilingInOrder(v)'
  <2>1. CASE v = w
    BY <2>1
  <2>2. CASE v # w
    <3>1. FilingInOrder(v) /\ sup'[v] = sup[v] /\ FiledBy(v)' \subseteq FiledBy(v)
      BY <2>2 DEF Answered
    <3>2. ASSUME NEW q \in FiledBy(v)', consent'[q] = "pending" PROVE consent[q] = "pending"
      BY <2>2, <3>2 DEF FiledBy
    <3> QED
      BY <3>1, <3>2 DEF FilingInOrder
  <2> QED
    BY <2>1, <2>2
<1>3. ASSUME NEW q \in Requests PROVE SomeoneHolds(q)'
  <2>1. ASSUME NEW j \in Jobs, consent'[q] = "pending", HeldBy(j, q) PROVE HeldBy(j, q)'
    BY <2>1 DEF KeepsRequests, HoldsOn
  <2>2. SomeoneHolds(q)
    BY DEF Answered
  <2> QED
    BY <2>1, <2>2 DEF SomeoneHolds
<1> QED
  BY <1>1, <1>2, <1>3 DEF Answered

\* A step on one job keeps the requests of all.
LEMMA JobStepsKeepRequests ==
    ASSUME Inv, Answered, NEW j \in Jobs,
           FileStep(j) \/ QueueStep(j) \/ \E w \in Workers : LeaseStep(j, w)
    PROVE  /\ AsksNobody
           /\ \A i \in Jobs : KeepsRequests(i)
           /\ \A i \in Jobs \ {j} : MoveGoesOn(i)
<1>1. CopiesInOrder(j)
  BY DEF Answered
<1>2. KeepsRequests(j) /\ AsksNobody
  BY <1>1, FileStepsKeepRequests, FileStepsAskNobody, QueueStepsKeepRequests,
     LeaseStepsKeepRequests DEF AsksNobody
<1>3. ASSUME NEW i \in Jobs \ {j} PROVE KeepsRequests(i) /\ MoveGoesOn(i)
  <2>1. files'[i] = files[i] /\ op'[i] = op[i]
    BY OthersUntouched
  <2>2. CopiesInOrder(i)
    BY DEF Answered
  <2>3. KeepsRequests(i)
    BY <2>1, <2>2, RestingKeepsRequests
  <2> QED
    BY <2>1, <2>3 DEF MoveGoesOn, MovedCopy
<1> QED
  BY <1>2, <1>3

\* A step on no job keeps them, too.
LEMMA StillJobsKeepRequests ==
    ASSUME Answered, UNCHANGED <<files, op>>
    PROVE  \A i \in Jobs : KeepsRequests(i) /\ MoveGoesOn(i)
<1> SUFFICES ASSUME NEW i \in Jobs PROVE KeepsRequests(i) /\ MoveGoesOn(i)
  OBVIOUS
<1>1. CopiesInOrder(i)
  BY DEF Answered
<1>2. KeepsRequests(i)
  BY <1>1, RestingKeepsRequests
<1> QED
  BY <1>2 DEF MoveGoesOn, MovedCopy

\* A step that changes no task.
LEMMA QueueKeepsAnswers ==
    ASSUME Answered, UNCHANGED <<sup, filer>>, AsksNobody,
           \A j \in Jobs : KeepsRequests(j) /\ MoveGoesOn(j)
    PROVE  Answered'
<1>1. NoProcess \notin Workers
  BY ProcessesAreDistinct
<1>2. \A v \in Workers : FiledBy(v)' = FiledBy(v)
  BY DEF FiledBy
<1>3. \A q \in Requests : AtWork(q) => AtWork(q)'
  BY DEF AtWork, At
<1>4. \A j \in Jobs : op'[j] = NoOp \/ op'[j].by # NoProcess \/ SavingInOrder(j)'
  BY <1>1 DEF SavingInOrder
<1> QED
  BY <1>1, <1>2, <1>3, <1>4, OneTaskKeepsAnswers DEF AsksNobody

\* A task goes on, and files no requests but those it had filed.
LEMMA TaskKeepsAnswers ==
    ASSUME SupInv, Answered, NEW w \in Workers, ~At(w, "saving"), filer' = filer, AsksNobody,
           \A v \in Workers \ {w} : sup'[v] = sup[v],
           \A j \in Jobs : KeepsRequests(j),
           \A j \in Jobs : SavingInOrder(j)' \/ MoveGoesOn(j),
           FilingInOrder(w)', ~(sup'[w].stage = "settling" /\ sup'[w].outcome = "waiting")
    PROVE  Answered'
<1>1. \A v \in Workers : FiledBy(v)' = FiledBy(v)
  BY DEF FiledBy
<1>2. \A q \in Requests : AtWork(q) => AtWork(q)'
  BY DEF AtWork, At
<1>3. \A j \in Jobs : SavingInOrder(j)' \/ (MoveGoesOn(j) /\ (op'[j] = NoOp \/ op'[j].by # w))
  <2> SUFFICES ASSUME NEW j \in Jobs, MoveGoesOn(j), op'[j] # NoOp, op'[j].by = w
               PROVE  FALSE
    OBVIOUS
  <2>1. SavingInOrder(j)
    BY DEF Answered
  <2> QED
    BY <2>1 DEF MoveGoesOn, SavingInOrder, At
<1> QED
  BY <1>1, <1>2, <1>3, OneTaskKeepsAnswers DEF AsksNobody

\* A task that goes on without filing or linking anything.
LEMMA StagesKeepFiling ==
    ASSUME SupInv, Answered, NEW w \in Workers, filer' = filer, AsksNobody,
           NEW stage \in Stages, NEW outcome,
           \/ sup' = [sup EXCEPT ![w].stage = stage]
           \/ sup' = [sup EXCEPT ![w].stage = stage, ![w].outcome = outcome],
           sup[w].asking = NoRequest \/ stage = "executing",
           sup[w].stage \in FilingStages => stage \in FilingStages,
           sup[w].stage \in EndingStages => stage \in EndingStages,
           outcome = "retry" =>
               /\ stage \in EndingStages
               /\ sup[w].outcome = "retry" \/ sup[w].stage \notin FilingStages
    PROVE  /\ FilingInOrder(w)'
           /\ \A v \in Workers \ {w} : sup'[v] = sup[v]
           /\ sup'[w].stage = stage
<1>1. sup \in [Workers -> Task] /\ FilingInOrder(w)
  BY DEF SupInv, SupTypeOK, Answered
<1>2. /\ sup'[w].asked = sup[w].asked /\ sup'[w].asking = sup[w].asking
      /\ sup'[w].stage = stage
      /\ sup'[w].outcome \in {sup[w].outcome, outcome}
      /\ \A v \in Workers \ {w} : sup'[v] = sup[v]
  BY <1>1 DEF Task
<1>3. FiledBy(w)' = FiledBy(w) /\ FiledBy(w) \subseteq Requests
  BY DEF FiledBy
<1> QED
  BY <1>1, <1>2, <1>3 DEF FilingInOrder, AsksNobody

LEMMA GoingOnKeepsAnswers ==
    ASSUME SupInv, Answered, NEW w \in Workers, ~At(w, "saving"), filer' = filer, AsksNobody,
           \A j \in Jobs : KeepsRequests(j) /\ MoveGoesOn(j),
           NEW stage \in Stages, NEW outcome,
           \/ Goto(w, stage) /\ stage # "settling"
           \/ EndWith(w, stage, outcome) /\ (stage = "settling" => outcome # "waiting"),
           sup[w].asking = NoRequest \/ stage = "executing",
           sup[w].stage \in FilingStages => stage \in FilingStages,
           sup[w].stage \in EndingStages => stage \in EndingStages,
           outcome = "retry" =>
               /\ stage \in EndingStages
               /\ sup[w].outcome = "retry" \/ sup[w].stage \notin FilingStages
    PROVE  Answered'
<1>1. \/ sup' = [sup EXCEPT ![w].stage = stage]
      \/ sup' = [sup EXCEPT ![w].stage = stage, ![w].outcome = outcome]
  BY DEF Goto, EndWith
<1>2. /\ FilingInOrder(w)' /\ \A v \in Workers \ {w} : sup'[v] = sup[v]
      /\ sup'[w].stage = stage
  BY <1>1, StagesKeepFiling
<1>3. ~(sup'[w].stage = "settling" /\ sup'[w].outcome = "waiting")
  BY <1>2 DEF Goto, EndWith, SupInv, SupTypeOK, Task
<1> QED
  BY <1>2, <1>3, TaskKeepsAnswers

\* A task is not asking unless its worker executes.
LEMMA AskingIsExecuting ==
    ASSUME Answered, NEW w \in Workers, ~At(w, "executing") \/ Pumping(w)
    PROVE  sup[w].asking = NoRequest
  BY DEF Answered, FilingInOrder, At, Pumping

\* Steps of a task that leave the queue alone.
LEMMA QuietTaskStepsKeepAnswers ==
    ASSUME Inv, SupInv, Answered, NEW w \in Workers,
           \/ Spawn(w) \/ PrepareLost(w) \/ DeliverCommit(w) \/ Reap(w) \/ RunEnds(w)
           \/ RefuseTask(w) \/ SpawnFails(w) \/ CallFails(w) \/ LimitReachedBeforeCommit(w)
           \/ LimitReached(w) \/ NoticeStop(w) \/ WorkerDies(w)
    PROVE  Answered'
<1>1. UNCHANGED <<files, op, consent, filer>>
  BY DEF Spawn, WorkerStarts, PrepareLost, DeliverCommit, Reap, WorkerExits, RunEnds, Report,
         Interrupted, RefuseTask, SpawnFails, CallFails, FailsEarly, LimitReachedBeforeCommit,
         LimitReached, NoticeStop, WorkerDies, StoreUnchanged, storeVars
<1>2. AsksNobody /\ \A j \in Jobs : KeepsRequests(j) /\ MoveGoesOn(j)
  BY <1>1, StillJobsKeepRequests DEF AsksNobody
<1>3. sup[w] \in Task /\ sup \in [Workers -> Task] /\ FilingInOrder(w)
  BY DEF SupInv, SupTypeOK, Answered
<1>4. CASE \/ Spawn(w) \/ PrepareLost(w) \/ DeliverCommit(w) \/ RefuseTask(w) \/ SpawnFails(w)
           \/ CallFails(w) \/ LimitReachedBeforeCommit(w)
  <2>1. /\ ~At(w, "saving") /\ ~At(w, "executing")
        /\ \E stage \in Stages : \E outcome :
              /\ \/ Goto(w, stage) /\ stage # "settling"
                 \/ EndWith(w, stage, outcome) /\ (stage = "settling" => outcome # "waiting")
              /\ sup[w].stage \in FilingStages => stage \in FilingStages
              /\ sup[w].stage \in EndingStages => stage \in EndingStages
              /\ outcome = "retry" => stage \in EndingStages /\ sup[w].stage \notin FilingStages
    BY <1>4 DEF Spawn, PrepareLost, DeliverCommit, RefuseTask, SpawnFails, CallFails,
       LimitReachedBeforeCommit, At, Stages, FilingStages, EndingStages
  <2>2. sup[w].asking = NoRequest
    BY <2>1, AskingIsExecuting
  <2> QED
    BY <1>1, <1>2, <2>1, <2>2, GoingOnKeepsAnswers
<1>5. CASE Reap(w) \/ RunEnds(w)
  <2>1. Reportable(w) \subseteq Outcomes /\ Contained(sup[w].outcome) \in Outcomes
    BY DEF Reportable, Contained, Outcomes
  <2>2. \E stage \in Stages : \E outcome :
              /\ Goto(w, stage) \/ EndWith(w, stage, outcome)
              /\ stage \in {"reaping", "finishing"}
              /\ outcome = "retry" => sup[w].outcome = "retry"
    BY <1>5, <2>1 DEF Reap, RunEnds, Report, Interrupted, Stages, Outcomes
  <2>3. ~At(w, "saving") /\ sup[w].asking = NoRequest
    BY <1>5, AskingIsExecuting DEF Reap, RunEnds, Report, Interrupted, Pumping, At
  <2> QED
    BY <1>1, <1>2, <2>2, <2>3, GoingOnKeepsAnswers DEF FilingStages, EndingStages
<1>6. CASE LimitReached(w) \/ NoticeStop(w)
  <2>1. PICK stop : sup' = [sup EXCEPT ![w].stop = stop]
    BY <1>6 DEF LimitReached, NoticeStop
  <2>2. /\ sup'[w].asked = sup[w].asked /\ sup'[w].asking = sup[w].asking
        /\ sup'[w].stage = sup[w].stage /\ sup'[w].outcome = sup[w].outcome
        /\ \A v \in Workers \ {w} : sup'[v] = sup[v]
    BY <1>3, <2>1 DEF Task
  <2>3. At(w, "executing")
    BY <1>6 DEF LimitReached, NoticeStop, Pumping
  <2>4. FilingInOrder(w)'
    BY <1>1, <1>3, <2>2 DEF FilingInOrder, FiledBy
  <2> QED
    BY <1>1, <1>2, <2>2, <2>3, <2>4, TaskKeepsAnswers DEF At
<1>7. CASE WorkerDies(w)
  BY <1>1, <1>2, <1>7, QueueKeepsAnswers DEF WorkerDies
<1> QED
  BY <1>4, <1>5, <1>6, <1>7

\* Steps of a task on the record of its job.
LEMMA LeaseTaskStepsKeepAnswers ==
    ASSUME Inv, SupInv, Answered, NEW w \in Workers,
           BindTask(w) \/ PrepareTask(w) \/ CommitTask(w)
    PROVE  Answered'
<1> DEFINE j == sup[w].job
<1>1. sup \in [Workers -> Task] /\ sup[w] \in Task /\ j \in Jobs /\ FilingInOrder(w)
  BY DEF BindTask, PrepareTask, CommitTask, At, SupInv, SupTypeOK, GoodTask, Answered
<1>2. Bind(j, w) \/ Prepare(j, w) \/ Commit(j, w) \/ UNCHANGED storeVars
  BY DEF BindTask, PrepareTask, CommitTask, StoreUnchanged
<1>3. AsksNobody /\ \A i \in Jobs : KeepsRequests(i) /\ MoveGoesOn(i)
  <2>1. CASE Bind(j, w) \/ Prepare(j, w) \/ Commit(j, w)
    BY <1>1, <2>1, JobStepsKeepRequests, MovesGoOn DEF LeaseStep
  <2>2. CASE UNCHANGED storeVars
    BY <2>2, StillJobsKeepRequests DEF storeVars, AsksNobody
  <2> QED
    BY <1>2, <2>1, <2>2
<1>4. filer' = filer /\ sup[w].stage \in {"spawned", "leased", "prepared"}
  BY DEF BindTask, PrepareTask, CommitTask, At
<1>5. /\ ~At(w, "saving") /\ sup[w].asking = NoRequest
      /\ sup[w].stage \notin FilingStages \cup EndingStages
  BY <1>1, <1>4 DEF At, FilingInOrder, FilingStages, EndingStages
<1>6. CASE \E stage \in Stages \ {"settling"} : \E outcome :
               \/ Goto(w, stage)
               \/ EndWith(w, stage, outcome) /\ stage \in EndingStages
  BY <1>3, <1>4, <1>5, <1>6, GoingOnKeepsAnswers
<1>7. CASE sup' = [sup EXCEPT ![w].stage = "committed", ![w].epoch = resumes[j] + 1]
  <2>1. /\ sup'[w].asked = sup[w].asked /\ sup'[w].asking = sup[w].asking
        /\ sup'[w].stage = "committed" /\ sup'[w].outcome = sup[w].outcome
        /\ \A v \in Workers \ {w} : sup'[v] = sup[v]
    BY <1>1, <1>7 DEF Task
  <2>2. FilingInOrder(w)'
    BY <1>1, <1>3, <1>4, <1>5, <2>1 DEF FilingInOrder, FiledBy, AsksNobody
  <2> QED
    BY <1>3, <1>4, <1>5, <2>1, <2>2, TaskKeepsAnswers
<1> QED
  BY <1>6, <1>7 DEF BindTask, PrepareTask, CommitTask, Stages, FilingStages, EndingStages

\* A worker asks: its task is at work until it has retired the request.
LEMMA AskingKeepsAnswers ==
    ASSUME Inv, SupInv, Answered, NEW w \in Workers, NEW q \in Requests, AskConsent(w, q)
    PROVE  Answered'
<1>1. /\ sup \in [Workers -> Task] /\ filer \in [Requests -> Workers \cup {NoProcess}]
      /\ consent \in [Requests -> {"unknown", "pending", "approved", "consumed", "denied"}]
      /\ FilingInOrder(w)
  BY DEF SupInv, SupTypeOK, Inv, StoreTypeOK, Answered
<1>2. /\ sup[w].stage = "executing" /\ sup[w].asking = NoRequest /\ consent[q] = "unknown"
      /\ UNCHANGED <<files, op>> /\ filer' = [filer EXCEPT ![q] = w]
      /\ consent' = [consent EXCEPT ![q] = "pending"]
      /\ sup' = [sup EXCEPT ![w].asking = q]
  BY DEF AskConsent, Pumping, At, File
<1>3. /\ sup'[w].asked = sup[w].asked /\ sup'[w].asking = q
      /\ sup'[w].stage = "executing" /\ sup'[w].outcome = sup[w].outcome
      /\ \A v \in Workers \ {w} : sup'[v] = sup[v]
  BY <1>1, <1>2 DEF Task
<1>4. \A j \in Jobs : KeepsRequests(j) /\ MoveGoesOn(j)
  BY <1>2, StillJobsKeepRequests
<1>5. /\ filer'[q] = w /\ consent'[q] = "pending"
      /\ \A p \in Requests \ {q} : filer'[p] = filer[p] /\ consent'[p] = consent[p]
  BY <1>1, <1>2
<1>6. \A v \in Workers \ {w} : FiledBy(v)' \subseteq FiledBy(v)
  BY <1>5 DEF FiledBy
<1>7. FilingInOrder(w)'
  BY <1>1, <1>2, <1>3, <1>5, NullsAreFresh DEF FilingInOrder, FiledBy, FilingStages, EndingStages
<1>8. \A p \in Requests : consent'[p] = "pending" =>
          consent[p] = "pending" \/ (filer'[p] = w /\ AtWork(p)')
  BY <1>3, <1>5 DEF AtWork, At
<1>9. \A p \in Requests : AtWork(p) => AtWork(p)'
  BY <1>2, <1>3, <1>5 DEF AtWork, At
<1>10. \A j \in Jobs : op'[j] = NoOp \/ op'[j].by # w
  <2> SUFFICES ASSUME NEW j \in Jobs, op[j] # NoOp, op[j].by = w PROVE FALSE
    BY <1>2
  <2>1. SavingInOrder(j)
    BY DEF Answered
  <2> QED
    BY <1>2, <2>1 DEF SavingInOrder
<1> QED
  BY <1>3, <1>4, <1>6, <1>7, <1>8, <1>9, <1>10, OneTaskKeepsAnswers

\* The link is recorded, or the request is retired at once.
LEMMA LinkingKeepsAnswers ==
    ASSUME Inv, SupInv, Answered, NEW w \in Workers, LinkConsent(w)
    PROVE  Answered'
<1> DEFINE q == sup[w].asking
           j == sup[w].job
<1>1. /\ sup \in [Workers -> Task] /\ sup[w] \in Task /\ j \in Jobs /\ q \in Requests
      /\ sup[w].stage = "executing" /\ FilingInOrder(w) /\ filer' = filer
  BY DEF LinkConsent, At, SupInv, SupTypeOK, GoodTask, Task, Answered
<1>2. CASE /\ RecordWaiting(j, q)
           /\ sup' = [sup EXCEPT ![w].asking = NoRequest, ![w].asked = @ \cup {q}]
  <2>1. AsksNobody /\ \A i \in Jobs : KeepsRequests(i) /\ MoveGoesOn(i)
    BY <1>1, <1>2, JobStepsKeepRequests, MovesGoOn DEF LeaseStep
  <2>2. /\ sup'[w].asked = sup[w].asked \cup {q} /\ sup'[w].asking = NoRequest
        /\ sup'[w].stage = "executing" /\ sup'[w].outcome = sup[w].outcome
        /\ \A v \in Workers \ {w} : sup'[v] = sup[v]
    BY <1>1, <1>2 DEF Task
  <2>3. sup[w].outcome # "retry"
    BY <1>1 DEF FilingInOrder, EndingStages
  <2>4. FilingInOrder(w)'
    BY <1>1, <2>1, <2>2, <2>3 DEF FilingInOrder, FiledBy, FilingStages, AsksNobody
  <2> QED
    BY <1>1, <2>1, <2>2, <2>4, TaskKeepsAnswers DEF At
<1>3. CASE Withdraw({q}) /\ sup' = [sup EXCEPT ![w].asking = NoRequest]
  <2>1. UNCHANGED <<files, op>> /\ AsksNobody /\ consent'[q] # "pending"
    BY <1>1, <1>3, RefusingAsksNobody DEF Withdraw
  <2>2. \A i \in Jobs : KeepsRequests(i) /\ MoveGoesOn(i)
    BY <2>1, StillJobsKeepRequests
  <2>3. /\ sup'[w].asked = sup[w].asked /\ sup'[w].asking = NoRequest
        /\ sup'[w].stage = "executing" /\ sup'[w].outcome = sup[w].outcome
        /\ \A v \in Workers \ {w} : sup'[v] = sup[v]
    BY <1>1, <1>3 DEF Task
  <2>4. FilingInOrder(w)'
    BY <1>1, <2>1, <2>3 DEF FilingInOrder, FiledBy, FilingStages, AsksNobody
  <2> QED
    BY <1>1, <2>1, <2>2, <2>3, <2>4, TaskKeepsAnswers DEF At
<1> QED
  BY <1>2, <1>3 DEF LinkConsent

\* What a task files as waiting names all its requests.
LEMMA FilingOutcomeKeepsAnswers ==
    ASSUME Inv, SupInv, Answered, NEW w \in Workers, FileOutcome(w)
    PROVE  Answered'
<1> DEFINE t == sup[w]
<1>0. PICK j \in Jobs : j = sup[w].job
  BY DEF FileOutcome, At, SupInv, GoodTask
<1>1. /\ sup \in [Workers -> Task] /\ t \in Task /\ t.stage = "finishing"
      /\ FilingInOrder(w) /\ filer' = filer /\ t.asked \in SUBSET Requests
  BY DEF FileOutcome, At, SupInv, SupTypeOK, GoodTask, Task, Answered
<1>2. t.asking = NoRequest
  BY <1>1 DEF FilingInOrder
<1>3. CASE EndWith(w, "settling", "none") /\ StoreUnchanged
  <2>1. AsksNobody /\ \A i \in Jobs : KeepsRequests(i) /\ MoveGoesOn(i)
    BY <1>3, StillJobsKeepRequests DEF StoreUnchanged, storeVars, AsksNobody
  <2> QED
    BY <1>1, <1>2, <1>3, <2>1, GoingOnKeepsAnswers DEF At, Stages, FilingStages, EndingStages
<1>4. CASE /\ Goto(w, "saving")
           /\ \/ t.outcome = "retry" /\ Release(j, w)
              \/ t.outcome \in Outcomes /\ Finish(j, t.outcome, t.asked, w)
  <2>1. LeaseStep(j, w)
    BY <1>1, <1>4 DEF LeaseStep
  <2>2. AsksNobody /\ \A i \in Jobs : KeepsRequests(i) /\ (i # j => MoveGoesOn(i))
    BY <1>1, <2>1, JobStepsKeepRequests
  <2>3. /\ FilingInOrder(w)' /\ sup'[w].stage = "saving"
        /\ \A v \in Workers \ {w} : sup'[v] = sup[v]
    <3>1. sup' = [sup EXCEPT ![w].stage = "saving"]
      BY <1>4 DEF Goto
    <3> QED
      BY <1>1, <1>2, <2>2, <3>1, StagesKeepFiling DEF Stages, FilingStages, EndingStages
  <2>4. SavingInOrder(j)'
    <3>1. PICK to \in Buckets : \E r : /\ MoveWith(j, "running", to, r, w)
                                       /\ to = "waiting" => t.asked \subseteq r.waitingOn
      <4>1. CASE t.outcome = "retry" /\ Release(j, w)
        <5>1. t.asked = {}
          BY <1>1, <4>1 DEF FilingInOrder
        <5> QED
          BY <4>1, <5>1 DEF Release, SettleInterrupted, Buckets
      <4>2. CASE t.outcome \in Outcomes /\ Finish(j, t.outcome, t.asked, w)
        <5> DEFINE s == files[j]["running"]
                   o == Effective(s, t.outcome)
                   to == IF o = "waiting" THEN "waiting" ELSE "done"
        <5>1. MoveWith(j, "running", to, FinishedRecord(s, o, t.asked), w)
          BY <4>2 DEF Finish
        <5>2. o = "waiting" => FinishedRecord(s, o, t.asked).waitingOn = t.asked
          <6>1. s \in Record
            BY <1>1, <4>2, CopiesAreRecords DEF Finish, Sole, Inv
          <6> QED
            BY <6>1 DEF FinishedRecord, Suspended, Record
        <5> HIDE DEF o
        <5> QED
          BY <5>1, <5>2 DEF Buckets
      <4> QED
        BY <1>4, <4>1, <4>2
    <3>r. PICK r : /\ MoveWith(j, "running", to, r, w)
                   /\ to = "waiting" => t.asked \subseteq r.waitingOn
      BY <3>1
    <3>2. op'[j] = [step |-> "rename", from |-> "running", to |-> to, drop |-> {}, by |-> w]
      BY <1>1, <3>r DEF MoveWith, Inv, StoreTypeOK
    <3>3. files'[j]["running"] = r
      BY <1>1, <3>r DEF MoveWith, Inv, StoreTypeOK, Buckets
    <3>4. sup'[w].asked = t.asked /\ sup'[w].job = j
      BY <1>0, <1>1, <1>4 DEF Goto, Task
    <3>5. /\ op'[j].step = "rename" /\ op'[j].from = "running" /\ op'[j].to = to
          /\ op'[j].by = w
      BY <3>2
    <3> QED
      BY <2>3, <3>r, <3>3, <3>4, <3>5 DEF SavingInOrder, MovedCopy
  <2>5. \A i \in Jobs : KeepsRequests(i) /\ (SavingInOrder(i)' \/ MoveGoesOn(i))
    <3>1. ASSUME NEW i \in Jobs PROVE KeepsRequests(i) /\ (SavingInOrder(i)' \/ MoveGoesOn(i))
      BY <2>2, <2>4
    <3> QED
      BY <3>1
  <2>6. ~At(w, "saving") /\ ~(sup'[w].stage = "settling" /\ sup'[w].outcome = "waiting")
    BY <1>1, <2>3 DEF At
  <2> HIDE DEF t
  <2> QED
    BY <1>1, <2>2, <2>3, <2>5, <2>6, TaskKeepsAnswers
<1> QED
  BY <1>0, <1>3, <1>4 DEF FileOutcome

\* A job's move ends and its task, if one waits for it, goes on to retire its
\* requests, but for those that now wait.
LEMMA ReturningKeepsAnswers ==
    ASSUME Inv, SupInv, Answered, NEW j \in Jobs, QueueFileStep(j) \/ QueueStepFails(j)
    PROVE  Answered'
<1> DEFINE w == op[j].by
<1>1. FileStep(j) /\ filer' = filer
  BY DEF QueueFileStep, QueueStepFails, FileStep
<1>2. AsksNobody /\ \A i \in Jobs : KeepsRequests(i) /\ MoveGoesOn(i)
  BY <1>1, JobStepsKeepRequests, MovesGoOn
<1>3. CASE UNCHANGED sup
  BY <1>1, <1>2, <1>3, QueueKeepsAnswers
<1>4. ASSUME NEW outcome, w \in Workers, At(w, "saving"), op[j] # NoOp, op'[j] = NoOp,
             sup' = [sup EXCEPT ![w].stage = "settling", ![w].outcome = outcome],
             outcome \in {"waiting", "none"},
             outcome = "waiting" => Synced(j) /\ op[j].to = "waiting"
      PROVE  Answered'
  <2>1. PICK v \in Workers : v = w
    BY <1>4
  <2>2. /\ sup \in [Workers -> Task] /\ sup[v] \in Task /\ sup[v].stage = "saving"
        /\ FilingInOrder(v) /\ SavingInOrder(j) /\ sup[v].asking = NoRequest
    BY <1>4, <2>1 DEF SupInv, SupTypeOK, Answered, FilingInOrder, At
  <2>3. /\ FilingInOrder(v)' /\ \A u \in Workers \ {v} : sup'[u] = sup[u]
        /\ sup'[v].stage = "settling"
    <3>1. sup' = [sup EXCEPT ![v].stage = "settling", ![v].outcome = outcome]
      BY <1>4, <2>1
    <3> QED
      BY <1>1, <1>2, <1>4, <2>2, <3>1, StagesKeepFiling DEF Stages, FilingStages, EndingStages
  <2>4. sup'[v].outcome = outcome
    BY <1>4, <2>1, <2>2 DEF Task
  <2>5. ASSUME NEW i \in Jobs PROVE op'[i] = NoOp \/ op'[i].by # v
    <3>1. CASE i = j
      BY <1>4, <3>1
    <3>2. CASE i # j
      <4>1. op'[i] = op[i] /\ SavingInOrder(i)
        BY <1>1, <3>2, OthersUntouched DEF Answered
      <4> QED
        BY <1>4, <2>1, <2>2, <3>2, <4>1 DEF SavingInOrder
    <3> QED
      BY <3>1, <3>2
  <2>6. ASSUME NEW q \in Requests, consent'[q] = "pending", AtWork(q)
        PROVE  AtWork(q)' \/ \E i \in Jobs : HeldBy(i, q)'
    <3>1. CASE filer[q] # v \/ outcome # "waiting"
      BY <1>1, <1>4, <2>3, <2>4, <2>6, <3>1 DEF AtWork, At
    <3>2. CASE filer[q] = v /\ outcome = "waiting"
      <4>1. consent[q] = "pending" /\ q \in FiledBy(v)
        BY <1>2, <2>6, <3>2 DEF AsksNobody, FiledBy
      <4>2. q \in sup[v].asked
        <5>1. q \in Requests /\ NoRequest \notin Requests
          BY NullsAreFresh
        <5> QED
          BY <2>2, <4>1, <5>1 DEF FilingInOrder
      <4>3. op[j].step = "sync" /\ op[j].to = "waiting" /\ files' = files
        BY <1>4, <3>2 DEF Synced
      <4>4. q \in files[j]["waiting"].waitingOn
        BY <1>4, <2>1, <2>2, <4>2, <4>3 DEF SavingInOrder, MovedCopy
      <4>5. "waiting" \in Copies(j)
        BY <4>3 DEF Inv, MovesAreSound, SyncReady
      <4>6. op'[j].step # "rename"
        BY <1>4 DEF NoOp
      <4> QED
        BY <4>3, <4>4, <4>5, <4>6 DEF HeldBy, Parked, Copies
    <3> QED
      BY <3>1, <3>2
  <2>7. \A u \in Workers : FiledBy(u)' = FiledBy(u)
    BY <1>1 DEF FiledBy
  <2> QED
    BY <1>2, <2>3, <2>5, <2>6, <2>7, OneTaskKeepsAnswers DEF AsksNobody
<1>5. CASE (w \in Workers /\ At(w, "saving")) /\ (Synced(j) \/ OpFails(j)) /\ ~UNCHANGED sup
  <2>1. op[j] # NoOp /\ op'[j] = NoOp
    BY <1>5 DEF Synced, OpFails, Free, NoOp, Inv, StoreTypeOK
  <2>2. \E outcome \in {"waiting", "none"} :
           /\ sup' = [sup EXCEPT ![w].stage = "settling", ![w].outcome = outcome]
           /\ outcome = "waiting" => Synced(j) /\ op[j].to = "waiting"
    BY <1>5 DEF QueueFileStep, QueueStepFails, Return
  <2> QED
    BY <1>4, <1>5, <2>1, <2>2
<1> QED
  BY <1>3, <1>5 DEF QueueFileStep, QueueStepFails, Return

\* A task that ends retires what it filed, unless that now waits.
LEMMA RetiringKeepsAnswers ==
    ASSUME Inv, SupInv, Answered, NEW w \in Workers, SettleConsent(w)
    PROVE  Answered'
<1> DEFINE S == IF sup[w].outcome = "waiting" THEN {} ELSE FiledBy(w)
<1>1. /\ sup \in [Workers -> Task] /\ sup[w].stage = "settling"
      /\ filer' = [q \in Requests |-> IF filer[q] = w THEN NoProcess ELSE filer[q]]
      /\ sup' = [sup EXCEPT ![w] = IdleTask]
      /\ UNCHANGED <<files, op>> /\ consent' = Denying(S)
  BY DEF SettleConsent, At, Withdraw, SupInv, SupTypeOK
<1>2. AsksNobody /\ \A q \in Requests : q \in S => consent'[q] # "pending"
  BY <1>1, RefusingAsksNobody
<1>3. \A i \in Jobs : KeepsRequests(i) /\ MoveGoesOn(i)
  BY <1>1, StillJobsKeepRequests
<1>4. sup'[w] = IdleTask /\ \A v \in Workers \ {w} : sup'[v] = sup[v]
  BY <1>1
<1>5. NoProcess \notin Workers
  BY ProcessesAreDistinct
<1>6. FiledBy(w)' = {} /\ \A v \in Workers \ {w} : FiledBy(v)' \subseteq FiledBy(v)
  BY <1>1, <1>5 DEF FiledBy
<1>7. FilingInOrder(w)'
  BY <1>4, <1>6 DEF FilingInOrder, IdleTask, FilingStages
<1>8. ASSUME NEW q \in Requests, consent'[q] = "pending", AtWork(q) PROVE AtWork(q)'
  <2>1. filer[q] # w
    BY <1>1, <1>2, <1>8 DEF AtWork, At, FiledBy
  <2> QED
    BY <1>1, <1>4, <1>8, <2>1 DEF AtWork, At
<1>9. ASSUME NEW j \in Jobs PROVE op'[j] = NoOp \/ op'[j].by # w
  <2>1. SavingInOrder(j)
    BY DEF Answered
  <2> QED
    BY <1>1, <2>1 DEF SavingInOrder
<1> HIDE DEF S
<1> QED
  BY <1>2, <1>3, <1>4, <1>6, <1>7, <1>8, <1>9, OneTaskKeepsAnswers DEF AsksNobody

\* A fresh task has filed nothing.
LEMMA StartingKeepsAnswers ==
    ASSUME Inv, SupInv, Answered, NEW j \in Jobs, NEW w \in Workers, StartTask(j, w)
    PROVE  Answered'
<1>1. /\ sup \in [Workers -> Task] /\ sup[w].stage = "idle" /\ filer' = filer
      /\ sup' = [sup EXCEPT ![w] = [IdleTask EXCEPT !.job = j, !.stage = "claimed"]]
      /\ FileStep(j) /\ FilingInOrder(w)
  BY DEF StartTask, Permit, At, FileStep, SupInv, SupTypeOK, Answered
<1>2. AsksNobody /\ \A i \in Jobs : KeepsRequests(i) /\ MoveGoesOn(i)
  BY <1>1, JobStepsKeepRequests, MovesGoOn
<1>3. /\ sup'[w].asked = {} /\ sup'[w].asking = NoRequest
      /\ sup'[w].stage = "claimed" /\ sup'[w].outcome = "none"
      /\ \A v \in Workers \ {w} : sup'[v] = sup[v]
  BY <1>1 DEF IdleTask
<1>4. FiledBy(w)' = {}
  BY <1>1 DEF FilingInOrder, FilingStages, FiledBy
<1>5. FilingInOrder(w)'
  BY <1>3, <1>4 DEF FilingInOrder
<1> QED
  BY <1>1, <1>2, <1>3, <1>5, TaskKeepsAnswers DEF At

\* A broker's number only ever grows.
LEMMA IncarnationsGrow ==
    ASSUME Inv, [StoreNext]_storeVars
    PROVE  incarnation' = 0 => incarnation = 0
<1>1. ASSUME NEW j \in Jobs, FileStep(j) \/ QueueStep(j) PROVE incarnation' = incarnation
  <2>1. CASE FileStep(j)
    BY <2>1 DEF FileStep, Rename, Synced, ClaimWrite, RemoveDuplicate, OpFails, ScanReads, world
  <2>2. CASE ReconcileDuplicates(j) \/ ReconcileMoved(j)
    BY <2>2, ScansFindJobs DEF Reconcile
  <2>3. CASE QueueStep(j) /\ ~(ReconcileDuplicates(j) \/ ReconcileMoved(j))
    BY <2>3 DEF QueueStep, Submit, RequestCancel, Claim, ClaimRefused, Recover,
       RecoverUnverifiable, ReconcileWaiting, EightHoursPass, world
  <2> QED
    BY <1>1, <2>1, <2>2, <2>3
<1>2. ASSUME NEW j \in Jobs, NEW w \in Workers, LeaseStep(j, w) PROVE incarnation' = incarnation
  BY <1>2 DEF LeaseStep, Bind, Prepare, Commit, Release, RecordWaiting, Finish, world
<1>3. ASSUME Restart PROVE incarnation' # 0
  BY <1>3, BoundsAreNatural DEF Restart, Inv, StoreTypeOK, Incarnations
<1>4. ASSUME \/ \E w \in Workers : WorkerStarts(w) \/ WorkerExits(w)
             \/ \E q \in Requests : File(q) \/ Decide(q) \/ Spend(q)
             \/ \E S \in SUBSET Requests : Withdraw(S)
             \/ FailsEarly \/ UNCHANGED storeVars
      PROVE  incarnation' = incarnation
  BY <1>4 DEF WorkerStarts, WorkerExits, File, Decide, Spend, Withdraw, FailsEarly,
     storeVars, world
<1> QED
  BY <1>1, <1>2, <1>3, <1>4 DEF StoreNext

\* As long as the first broker runs, every step keeps the answers.
LEMMA AnswersStep ==
    ASSUME Inv, SupInv, incarnation = 0 => Answered, [Next]_vars
    PROVE  incarnation' = 0 => Answered'
<1> SUFFICES ASSUME incarnation' = 0 PROVE Answered'
  OBVIOUS
<1>1. CASE BrokerRestart
  BY <1>1, BoundsAreNatural DEF BrokerRestart, Restart, Inv, StoreTypeOK, Incarnations
<1>2. CASE ~BrokerRestart
  <2>1. Answered
    BY StepsAreStoreSteps, IncarnationsGrow
  <2>2. ASSUME NEW w \in Workers, Progress(w) \/ RunEnds(w) \/ Mishap(w) PROVE Answered'
    BY <2>1, <2>2, QuietTaskStepsKeepAnswers, LeaseTaskStepsKeepAnswers, LinkingKeepsAnswers,
       FilingOutcomeKeepsAnswers, RetiringKeepsAnswers DEF Progress, Mishap
  <2>3. ASSUME NEW w \in Workers, NEW q \in Requests, SpendConsent(w, q) PROVE Answered'
    <3>1. UNCHANGED <<files, op, sup, filer>> /\ AsksNobody
      BY <2>3 DEF SpendConsent, Spend, AsksNobody
    <3> QED
      BY <2>1, <3>1, StillJobsKeepRequests, QueueKeepsAnswers
  <2>4. ASSUME NEW j \in Jobs,
               \/ ClaimNext(j) \/ MainLoop(j) \/ Client(j) \/ Clock(j)
               \/ Deduplicate(j) \/ ScanLate(j)
        PROVE  Answered'
    <3>1. (FileStep(j) \/ QueueStep(j)) /\ UNCHANGED <<sup, filer>>
      BY <2>4 DEF ClaimNext, MainLoop, Client, Clock, Deduplicate, ScanLate, FileStep, QueueStep
    <3> QED
      BY <2>1, <3>1, JobStepsKeepRequests, MovesGoOn, QueueKeepsAnswers
  <2>5. CASE \/ \E q \in Requests : Reviewer(q)
             \/ Shutdown \/ UNCHANGED vars
    <3>1. UNCHANGED <<files, op, sup, filer>>
      BY <2>5 DEF Reviewer, Decide, Shutdown, StoreUnchanged, storeVars, vars
    <3>2. AsksNobody
      <4>1. CASE UNCHANGED consent
        BY <4>1 DEF AsksNobody
      <4>2. ASSUME NEW q \in Requests, Reviewer(q) PROVE AsksNobody
        BY <4>2 DEF Reviewer, Decide, AsksNobody, Inv, StoreTypeOK
      <4> QED
        BY <2>5, <4>1, <4>2 DEF Shutdown, StoreUnchanged, storeVars, vars
    <3> QED
      BY <2>1, <3>1, <3>2, StillJobsKeepRequests, QueueKeepsAnswers
  <2> QED
    BY <1>2, <2>1, <2>2, <2>3, <2>4, <2>5, AskingKeepsAnswers, ReturningKeepsAnswers,
       StartingKeepsAnswers DEF Next
<1> QED
  BY <1>1, <1>2

\* As long as no broker died, every undecided request has somebody who will
\* answer for it or take it back: the worker that has just filed it, the task
\* that saves or settles it, or a parked job that waits for it - or the job
\* was retired as a duplicate of itself (prepare_consent, settle_worker_outcome,
\* retire_if_terminal, reconcile_waiting_consent).
THEOREM RequestsStayAnswerable == Spec => []RequestsAreAnswerable
<1> DEFINE Answers == incarnation = 0 => Answered
<1>1. Init => Answers
  <2> SUFFICES ASSUME Init PROVE Answered
    OBVIOUS
  <2>1. \A j \in Jobs : Copies(j) = {} /\ op[j] = NoOp
    BY DEF Init, StoreInit, Copies
  <2>2. \A w \in Workers : sup[w] = IdleTask /\ FiledBy(w) = {}
    BY ProcessesAreDistinct DEF Init, FiledBy
  <2>3. \A q \in Requests : consent[q] = "unknown"
    BY DEF Init, StoreInit
  <2> QED
    BY <2>1, <2>2, <2>3 DEF Answered, CopiesInOrder, OneRecord, TwinCoversWait, RemovesForDone,
       SavingInOrder, FilingInOrder, IdleTask, SomeoneHolds, NoOp
<1>2. Answers /\ Inv /\ SupInv /\ [Next]_vars => Answers'
  BY AnswersStep
<1>3. Answers /\ Inv => RequestsAreAnswerable
  <2> SUFFICES ASSUME Answered, Inv, NEW q \in Requests, consent[q] = "pending"
               PROVE  Answerable(q) \/ \E j \in Jobs : RetiredAsDuplicate(j, q)
    BY DEF RequestsAreAnswerable
  <2>1. CASE AtWork(q)
    BY <2>1, ProcessesAreDistinct DEF AtWork, Answerable
  <2>2. ASSUME NEW j \in Jobs, HeldBy(j, q)
        PROVE  Answerable(q) \/ RetiredAsDuplicate(j, q)
    BY <2>2 DEF HeldBy, Parked, RetiredWith, Answerable, Copies
  <2> QED
    BY <2>1, <2>2 DEF Answered, SomeoneHolds
<1> HIDE DEF Answers
<1> QED
  BY <1>1, <1>2, <1>3, SupInit, JointStep, PTL DEF Spec
=============================================================================
