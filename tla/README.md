# Claw OS: a verification project for the agent queue, approvals, journal and App authority

Claw OS runs agent tasks for its users. A root daemon, `clawd`, accepts tasks,
keeps them in a durable queue of files, forks one unprivileged worker process
(`claw-agentd`) per task, asks people for consent when a worker needs a
capability it does not hold, and files the outcome. Each privileged mutation is
bracketed by records in a tamper-evident journal, and an App worker acts on grants that
`clawd` keeps in memory, one set per session. This directory holds TLA+
models of that machinery, the TLC runs that check them on small instances, and
TLAPS proofs of the properties that matter most for every instance.

All paths below are under `src/core/src/` unless they say otherwise.

## 1. Inventory

| component | state it keeps | operations | interacts with |
|---|---|---|---|
| **job queue** `agent/service.rs`, `agent/service/*` | one JSON record per job in one of `pending/ running/ waiting/ done/`; a lock file per job; streams | publish, claim, recover, bind, record PREPARE / COMMIT, release, finish, wait for approval, resume, cancel, reconcile duplicates, prune | called by the supervisor and by the task API; reads and denies approval requests |
| **supervisor** `agentd/supervisor.rs`, `spawn.rs`, `worker.rs` | one async task per claimed job: worker process, lease, nonces, deadline, cancel and limit flags; a semaphore of permits; a spawn throttle | main loop (reconcile every 60 s, claim), spawn, bind, PREPARE, COMMIT, pump frames, reap, file the outcome | queue, approvals, extension host, worker (frames over a socket) |
| **approval store** `approvals.rs`, `approvals/*` | one file per request in `pending/ scratch/ approved/ consumed/ denied/`; markers of retired executions; revocation generations per owner and session; a store-wide lock | submit, resolve, invalidate the requests of an execution, redeem / spend one grant or a set, revoke, status | supervisor (mediation), queue (statuses), reviewers, App launches |
| **task API** `clawd/tasks.rs` | presence leases | submit, cancel, retry, list, claim with presence | queue, session store |
| **agentd protocol** `agentd/{protocol,grant,receipts,guard}.rs` | signed grants, nonces, receipts | encode, verify, bind | supervisor, worker |
| **session journal** `session/journal/*`, `clawd/journal.rs` | per partition a MAC-chained sequence of records in segments, a head anchor, quotas; per daemon the writer lease, the quarantined partitions and the unresolved mutations | begin and finish a mutation, append, rotate, retain, recover at startup, quarantine, resolve | the broker brackets every mutation route with it; operators resolve |
| **session store** `session/*` | metadata, exclusive leases, recorded mutations and inverses | create, end, lease, rollback, collect | tasks, journal |
| **capability authority** `clawd/authority/*` | in-memory grants with lineage, uses and generations | issue, attenuate, resolve, consume, revoke, sweep | routes, approvals, supervisor, App sessions |
| **App sessions** `clawd/app_sessions.rs`, `proc.rs` | one registry row per session (pending or bound, transient capabilities); a map of per-session locks; one-use call authorizations | register, bind, set_transient, deregister, relay, teardown of a host | authority (grants follow rows), extension host (launcher), lifecycle of packages |
| **notifications** `notifications/*` | SQLite rows, per-channel deliveries with leases | publish, route, claim, complete, prune | queue, triggers |
| **triggers** `triggers.rs`, `triggers/*` | rules, a cursor over activity, in-flight dispatches, work generations | tick, dispatch, recover, checkpoint | activities, queue |
| **activities** `activities/*` | Activity lifecycle, execution reservations, budgets, work items | reserve, release, checkpoint, complete | queue admission, triggers |
| **signed updates** `update/*` | freshness floor, hash-chained history, one-use recovery authorisations | load, decide, advance, consume | package manager |
| **extension host** `extension_host/*`, `agent_extensions/*` | leased connections, call FIFO | attach, call, detach | supervisor, worker |
| **nearby** `clawd/nearby/*` | pairing and transfers | discover, pair, send, receive | routes |
| **display, GUI custody** `display_session/*`, `clawd/gui/*` | seats, windows, portals | register, retire | worker sandbox |
| **broker transport** `clawd/{server,routes,protocol}.rs` | connections | accept, dispatch | all of the above |
| conversations, memory, credentials, provenance, capability sets, audit log, sandbox, providers, models, apps, command line | stored text, keys, signatures, policies | I/O, cryptography, formatting | |

Outside `core/`: vendored browser and desktop forks, SDKs, packaging, web; none
of it carries the program's own protocols.

### What is hard here, and what would make each part correct

* **Queue.** Every transition is two or three file steps (write over the source,
  rename, sync both directories; a claim renames first and writes afterwards).
  The broker may die between any two of them; a power loss may bring back the
  source name of a rename; an I/O error may end an operation half way; and the
  scan for duplicates, which precedes nearly every operation, reads without a
  lock. Correct means: an accepted job is never lost, its work begins at most
  once per submission or consent, what ended stays ended, retries are bounded, a
  cancellation that was acknowledged wins, and every job ends.
* **Supervisor.** Records and processes disagree for short times: a commit is
  recorded before it is sent, a worker lives on after its record has moved, an
  outcome is filed by job id alone. Correct means: while a worker may act,
  nothing allows its job to run again without consent; every request for consent
  has somebody who will answer for it.
* **Approvals.** Decisions, spending and revocation hold a store-wide lock, filing,
  the sweep of a finished execution and status lookups do not, and any process
  may die between two renames. Correct means: a request is filed once, answered
  once and in one place; a grant is never redeemed more often than its reviewer
  chose; a grant that was revoked, or whose execution was retired, is dead for
  good; a lookup finds what was filed.
* **Queue order.** A follow-up task waits for its predecessor; the claim looks the
  predecessors up, and the submission lists the conversation's jobs, one bucket
  at a time and without their locks. Prune sets a stream aside, unlinks the
  record, and removes the stream. Correct means: no task overtakes its line, none
  is refused while its predecessor exists, a line does not fork, and no record
  loses its stream.
* **Journal.** A record and the head that commits it are two writes, the head's
  visibility and its durability two steps, and what a daemon refuses to run again
  is kept in memory. Correct means: an acknowledged record survives, an effect
  begins only after its start was acknowledged, a mutation of unknown outcome is
  not run again, and an open bracket can always be closed.
* **Updates.** A consumed one-use token must stay so.
* **App sessions and authority.** A session's row and its grants live under two locks
  and change one after the other; a third lock serializes most transitions and not
  all; a relayed request spends from a grant some awaits after it was authorized.
  Correct means: outside a transition the grant is what the row says, nothing is
  spent from what was withdrawn, nothing withdrawn stays in the store, and a
  session that nobody ended keeps what it needs to go on.
* **Notifications, triggers, activities.** Leases expire while their holder
  still works; completions arrive late; restarts find deliveries in flight.

The list of hazards in `PROJECT.json` gives the lines, and for each the
properties that watch it or the reason why none does yet.

## 2. Modules

| module | models |
|---|---|
| `TaskContract.tla` | abstract: what the queue promises about one task (queued, active, held, ended; how often its work began; how often consent resumed it) |
| `JobStore.tla` | `agent/service.rs`: the files, every operation and its separate file steps, crash, power loss, I/O errors, racing scans; callers are arbitrary |
| `Supervision.tla` | `agentd/supervisor.rs` on top of `JobStore`: the real callers |
| `ConsentContract.tla` | abstract: what the approval store promises about one request (filed, answered, used up, each once) |
| `Approvals.tla` | `approvals.rs`, `approvals/generations.rs`: request files and their renames, decisions, sweeps, spending, revocation, deaths and power losses |
| `QueueOrder.tla` | `agent/service.rs`, `agent/service/dependencies.rs`: predecessor links, the unlocked lookups of the claim and of the submission, prune and its tombstones |
| `LedgerContract.tla` | abstract: what the journal promises its callers (acknowledged records stay, effects follow their start record) |
| `SessionJournal.tla` | `session/journal/*`, `clawd/journal.rs`, `recover_journal` of `clawd/server.rs`: one partition and the bracket around a mutation |
| `AppSessions.tla` | `clawd/app_sessions.rs` and the part of `clawd/authority/*` that it uses: one App session, its row, its lock and its three grants |
| `MCSupervision.tla`, `MCApprovals.tla`, `MCQueue.tla`, `MCJournal.tla` | symmetry and constants for TLC |
| `JobStoreProofs.tla` | types, the inductive invariant, at most one run per consent |
| `JobStoreContractProofs.tla` | `JobStore` implements `TaskContract` and uses requests as `ConsentContract` allows; no job is lost; done is final; every operation in one of five forms: reopening needs consent, a cancellation wins, starts are bounded |
| `SupervisionProofs.tla` | the supervisor takes only steps of the store; an acting worker's job is not replayable; an undecided request has somebody to answer for it |
| `ApprovalsProofs.tla`, `ConsentProofs.tla` | types, places and budgets of requests; `Approvals` implements `ConsentContract`; a revoked grant stays dead; no consent is used up for nothing; lookups miss no open request |
| `QueueOrderProofs.tla` | types; nobody overtakes the line; live tasks stay in one line; streams come and go with their records; a refusal is justified |
| `AppSessionsProofs.tla` | types and counts of grants; grants follow the row; nothing withdrawn is spent; authority lasts |
| `JournalProofs.tla` | types; `SessionJournal` implements `LedgerContract`; orphan records are honest; a recovered daemon refuses replays; closed segments are recorded; brackets keep room for their ends |

### JobStore

State and code:

| variable | code |
|---|---|
| `files[j][b]` | the file `<bucket>/<id>.json`; a record keeps the fields that decide anything: status, execution phase, recorded worker, cancellation mark, `waiting_on`, `resumed_after_approval`, `recovery_count` |
| `op[j]` | the operation that holds `locks/<id>.lock` and the file steps it still has to take |
| `seen[j]` | buckets in which a scan under way has already listed the job although the record has moved on since |
| `alive`, `incarnation` | worker processes of the kernel; the identity of the current broker (a claim records the broker first, `bind_worker` the worker) |
| `consent[q]` | status of a request in the approval store |
| `overdue` | jobs that have waited longer than `APPROVAL_WAIT_TIMEOUT_SECS` |
| `runs`, `claims`, `resumes`, `cancelAsked` | history: durable commits, claims, consented resumptions, acknowledged cancellations |

One action per operation: `Submit` (publish), `ReconcileDuplicates`,
`Claim` / `ClaimRefused`, `Recover` / `RecoverUnverifiable`, `Bind`, `Prepare`,
`Commit`, `RecordWaiting`, `Release`, `Finish`, `ReconcileWaiting`,
`RequestCancel`. An operation whose code takes several file steps is an action
that takes the first one and leaves the rest in `op`; `Rename`, `Synced`,
`ClaimWrite` and `RemoveDuplicate` take them one at a time, `OpFails` ends the
operation with an I/O error, `Restart` ends all of them. The other actions of
the lock holder's process wait for `Free(j)`, which is the per-job lock.

* *Power loss.* `durable_rename` syncs the destination directory before the
  source directory. `AfterRestart` therefore may bring back the source name of
  any rename whose source is not synced; both names then hold the same record.
* *Racing scans.* `reconcile_duplicate_job_ids` lists the four directories in
  order without a lock. What matters of a scan is the set of buckets in which it
  lists a job: `ScanReads` records that a scan listed the job in the bucket it is
  about to leave, `ReconcileMoved` runs the locked part of the scan with such a
  set. A scan that is not under way has listed nothing, so a bucket is added
  only if all buckets listed before come earlier in the scan's order.
* *Everyone scans.* Operations that call `reconcile_duplicate_job_ids` first are
  guarded by `Sole(j, b)`: the call leaves one copy, or the operation does not
  find the record it needs. `RecordWaiting` and `ReconcileWaiting` do not call it
  and are not so guarded.
* *Admission.* Priorities, predecessors and Activity state decide whether a
  claim takes, skips, fails or cancels a job; this model leaves the choice open
  (`QueueOrder` has the predecessors).
* *Left out of a record:* prompt, session, owner, limits, timestamps, response,
  the prepare and commit nonces (a worker identity serves exactly one lease and
  stands for them), `LegacyUnknown` and old schema versions (treated by the code
  as `Indeterminate` is).

### Supervision

`sup[w]` is the supervision task whose worker has identity `w`; its stages follow
`supervise` and `pump` line by line: claimed, spawned, leased (PREPARE under
way), prepared, committed, executing, reaping, finishing, saving, settling. `w`
is also the semaphore permit. An identity is used again once no process has it
and no record names it, which is what makes a (pid, start time) pair fresh.
`filer[q]` is the task that filed a request (the execution binding of
`approvals.rs`); `closing` is the shutdown flag.

The supervisor takes a job's lock through the same queue operations, so a stage
that calls one is an action that conjoins it (`CommitTask` contains
`Commit(j, w)`), with the error branch of the call as the other disjunct. A
restart resets `sup` and `filer`: what a supervision task knows is lost.

### Approvals

| variable | code |
|---|---|
| `dir[q]` | the directories that hold a file of the request: `pending/<id>.json`, `scratch/<id>.<nonce>.json`, `approved/`, `consumed/`, `denied/` |
| `kept[q]` | the places in which a power loss may leave the file: those of renames not yet synced, together with `dir[q]` |
| `rec[q]` | its contents: the execution binding (`exec`, and `stamp`, the generation when it was filed), the session, and the grant (`mint`, its generation; `uses`; `duration`) |
| `gens`, `disk` | the generations file as a reader sees it, and as a power loss leaves it |
| `lock` | the lock file `grants` |
| `op[a]` | what thread or process `a` has read and still has to do |
| `marked`, `gone`, `held` | executions with a committed marker in `revoked-executions/`; with no process any more; worker leases whose task waits for approval |
| `outages` | power losses so far (bound) |
| `redeemed`, `revoked`, `cleared` | history: redemptions reported of the last consent to the request; grants covered by an acknowledged revocation; invocations whose retirement finished |
| `unread`, `wasted`, `returned` | history: grants that a retirement passed over because it could not read them; grants in `consumed/` whose use nobody reported; requests that a power loss put elsewhere |

A *local* execution is an Agent invocation inside a process; when it ends, it
commits its marker, sweeps `pending/` and, under the lock, consumes its grants
(`EndInvocation`, `SweepOne`, `WriteRefused`, `RefusalEnds`, `SweepEnds`, `ConsumeGrants`). A
*worker* is a lease; when it ends, its supervisor sweeps its open requests and
revokes its session (`WorkerEnds` ... `RevokeAfterSweep`, `SyncGenerations`),
unless its task waits for approval (`WorkerWaits`): then a later worker of the
same task may redeem the grant (`IsFor`). A decision is `Claim`, a judgement,
the write of the outcome (`WriteApproved`, `WriteDenied`) and `DecisionEnds`: the
sync of the outcome's directory and the removal of the scratch file, which may
fail unnoticed. The sweep's rename competes with the claim's. A redemption is
`FindGrant` and `Spend`, a revocation `Revoke` and `SyncGenerations`. An App launch
is `FindSet` and one `MoveOne` per grant, then `SetIsSpent`; or, once a rename has
failed (`MoveFails`), one `RollBack` per grant, each of which may fail unnoticed
too (approvals.rs:2314), and `SetIsRolledBack`. A lookup is `BeginScan` and
`ScanOne`, one directory at a time, until it finds the file or `AnswerUnknown`; a file
that cannot be read is passed over like one that is not there (2202, 2224).

`CutShort` is the death of a process, or an error that ends its operation, after
any file step; the lock is then free and the files are as they were left.
`PowerLoss` ends everybody, takes back a generations file whose directory was not
synced, and leaves each request file in one of the places `kept` names. A write or a
rename adds places (`Drifting`, `Outcome`); a directory's sync settles the entries of
that directory, and only that one (`Synced`). A decision syncs `approved/` or `denied/`
and nothing else; nobody syncs the rename that took the question out of `pending/`
(approvals.rs:1362) or the one that puts it back. So a power loss may bring a question back
beside its answer, where it can be answered again, and a grant may be back in
`approved/` whose last use was made and not reported. `returned` marks both. Two
simplifications remain: a sync that is issued takes effect (an error is ignored at 860 and
897, section 4), and a file that comes back has its
latest contents, which differs from an older write of the same name only where the write was
not synced and so not reported. The model has no time: each deadline
of the code (of a binding, a grant, a resumption) only makes a redemption or a
decision fail, which the model allows by not taking the step.

`JobStore` and `Supervision` know a request by its status only. That this is
sound is the point of `ConsentContract`: `Approvals` implements it (statuses
`scratch/` and `pending/` are both *pending* to the queue, which neither resumes
nor fails a task on `Resolving`), and what the queue does to requests are steps
of it. One thing gets lost: a status lookup is atomic in `JobStore` and not
in the code. There are three ways in which it answers `Unknown` for a request that
exists, upon which the queue fails a task that may just have been approved. The file is
in `scratch/` while the first four directories are read and decided before the fifth is.
Or a reviewer picks the request up and puts it back, because the execution does not
admit the duration that was chosen (`JudgeRestored`): a lookup that read `pending/` while
the file was in `scratch/`, and `scratch/` after it went back, has not seen it. Or the file, or
`scratch/`, cannot be read, for whatever reason. The lookup's `word` notes the last two
("restored", "unread"). `UnknownMeansDecided` says that these three are the only ways to
that answer.

### QueueOrder

`JobStore` watches one job; this module watches a line of them. It keeps of a
record its buckets (`files`), whether it is terminal (`status`), whether its phase
allows a replay (`replayable`) and `after_task_id` (`after`). `op[j]` is what the
holder of `j`'s lock is doing: walking the predecessors (`walk`: whose record it
looks for, and in which bucket), moving the record (`rename`, then `sync`), or
pruning (`staged`, `unlinked`, `clear`). `post` is the submission that holds the
session lock, with what it has heard so far; `names[j]` are the files of the event
stream (`<id>.jsonl`, its prune tombstone); `loose` are records unlinked from a
directory that has not been synced since.

`Claim` takes the lock of a pending job and `Look` reads one bucket per step, as
`locate` does; a record that moves meanwhile is found later or not at all.
`Submit` publishes a task with no predecessor, `Follow`, `ListBucket` (three times)
and `Join` one with. `Rename` and `Sync` are the two halves of every move, `End`,
`Suspend`, `Resume`, `Requeue` what starts one, `Deduplicate` what the duplicate scan
leaves after a power loss. `RecoverTombstone`, `Stage`, `Remove`, `Unstage`,
`SyncRemoval` and `Clear` are the steps of `prune`. The properties name the cases
that the code leaves open, and a history variable marks each:

* `strayed`, `slid`: a record that moves *back* to `pending/` behind a walk or a
  listing is missed by it. The walk then fails the successor as "unavailable"
  although its predecessor is alive, and a submission may queue a second task behind
  a predecessor that has one. The same refusal meets a successor whose predecessor
  was pruned, however it ended (`UnavailableMeansGone` allows both, and nothing
  else).
* `reopened`: `finish` writes the terminal record before it renames it. If the
  rename fails or the broker dies, a successor that reads `running/` already sees
  the predecessor ended and starts; recovery, which looks at the phase only, can
  then requeue the predecessor, if it had ended without a commit.
* `torn`: a prune that dies, or whose directory sync fails, between the unlink of
  the record and the sync leaves the stream to the next prune, which finds no record
  and removes it; a power loss that then brings the record back brings it back
  without its stream.

Two more consequences were read off the model and are no errors of order: cancelling
a task in the middle of a queue leaves two tails, so that no follow-up is accepted
until one of them ends; and a record heard of twice by a listing makes two tails of
one, which refuses the submission.

### SessionJournal

| variable | code |
|---|---|
| `log` | the committed records of the partition, in order; a record keeps its kind, its operation, and the segment a retention record is about |
| `head` | `anchor.json` as a reader sees it: whether it exists, the active segment and the number of records before it, `open_brackets`, `pending_retention` |
| `durable` | what a power loss leaves of head and log |
| `tail`, `stray` | bytes past the committed end of the active segment; a segment beyond the active one |
| `phase`, `quarantined`, `unresolved`, `recovery` | the daemon's memory: whether its startup pass ran, `QUARANTINED`, `UNRESOLVED`, and the brackets the pass has found and has still to flag |
| `at[h]` | where request handler `h` is in `record_classified`, and the event it records |
| `acked`, `dispatched`, `overlapped` | history: the longest acknowledged prefix; operations whose effect was begun; operations that were in flight, in this life of the daemon, together with another of their identity |

A mutation is `Begin`, the recording of `started`, `Dispatch`, `Return`, the
recording of `settled` or `indeterminate`. `Begin` asks whether an outcome of the identity
is known to be unknown and registers nothing, like the code, so requests of one identity may
be in flight together. The recording itself is `Admit`
(quarantine, unlocked look at the pending retention), `Retain`, `Measure`,
`Rotate`, `Archive`, `AppendEvent`: `maintain` reads the head outside the partition
lock, so those are steps of their own, while an append or a cut holds the lock from
loading the head to committing it and is one step. Its failures (`NotStored`) leave
on disk what a death in its middle would leave: nothing, a torn or whole line past
the committed end, or a head that is visible and not durable. `GiveUp` is
`leave_unresolved`: the identity is remembered and an indeterminate marker tried.
`Scan`, `Flag` and `RecordScan` are the startup pass of one partition, `ScanFails`
the branch of `recover_journal` that raises an alarm and serves.

Bytes are counted in records, so `RotateAt` is the size of a segment and the byte
ceilings are the record ceilings. MACs are left out: a reader takes the committed
records as they are, and damage is what the program itself can leave behind. One
daemon holds the writer lease at a time, so epochs never conflict.

### AppSessions

One session of the MCP kind, whose launcher is an App service host.

| variable | code |
|---|---|
| `row` | the session's row of the process registry: pending or bound, and its transient capabilities |
| `launch`, `indexed`, `relay` | the session's grants in the authority: the launch grant and root of the others; the grant that `by_session` resolves the session id to (derived from the launch grant, or issued for one call); the launcher's right to present it |
| `mapped` | the lock that `session_locks` holds for the session |
| `tokens` | authorizations of calls, each of which is consumed by the widening it permits |
| `op[h]` | how far the request of handler `h` is, and the values it has read |
| `stage`, `host`, `alive`, `trusted`, `age` | the launcher's progress, the teardown of its host, the two processes, whether the package verifies, the clock |
| `cleared`, `spent`, `ended` | history |

`BeginRegister`, `InstallRow`, `IssueLaunch` / `IssueRefused` are `register`;
`BeginBind`, `BindRow`, `Claim`, `IssueRelay` / `BindRefused` are `bind`;
`BeginTransition`, `Lookup`, `Acquire`, `Swap` / `SwapRefused`, `Derive` / `Rollback`
are `set_transient` with a call or, to clear, with none; `BeginDeregister`, `Lookup`,
`Acquire`, `Remove`, `Retire`, `Release` are `deregister`; `Resolve`, `Spend` /
`SpendNothing` a relayed request and `Deny` its refusal of a package that is no longer
trusted; `CloseHost`, `RevokeRemoved`, `Reap` the teardown of the host; `Sweep` the
sweep of the store. Every other step is an exit, a loss of trust, or time.

A critical section of the store or of the registry is one step, and three pairs of
them are one: revoking a grant and issuing its successor (`Derive`), the two
revocations of a deregistration (`Retire`), and the closing of a lease with the removal
of its rows (`CloseHost`). Nothing in between tells them apart: the transition lock is
held, and a decision resolved before names a grant that is gone after either half. The
clock is the age of the launch grant, the first that is issued. A call stands for the
capabilities authorized for it. The worker has no route to the broker, so a capability
is exercised by a relayed request only. Not in the module: relays of content the
developer trusts, peer-session grants, sessions of the other kinds.

## 3. Runs

| run | configuration | question | result |
|---|---|---|---|
| `store_safety` | 1 job, 1 worker, 1 request; 1 restart, 1 I/O error, 1 recovery, 1 resumption | can any order of file steps, crashes, errors, scans and callers break the queue's promises? | 10 properties hold; 647,546 states |
| `supervision_safety` | 1 job, 2 workers, 1 request; 1 I/O error, 1 resumption, no restart, no recovery (an interrupted run ends at once) | do the real callers, and their error paths, keep acting workers and requests accounted for? | 3 properties hold; 1,784,294 states |
| `supervision_liveness` | 1 job, 1 worker, 1 request; 2 restarts, 1 recovery, 2 resumptions, no I/O error | does every job end? | 1 property holds; 551,833 states |
| `consent_crash` | 1 job, 2 workers, 1 restart | is a consented task resumed? | violated |
| `late_scan` | 1 job, 2 workers, no restart | does a filed result stand? | violated |
| `approvals` | 1 request, 3 actors, 1 local execution, 2 workers of one task; 2 uses, generations up to 2; 1 power loss; nobody dies at `sync` | can reviewers, sweeps, spenders, revocations, deaths and undone renames stretch, revive or split a consent? | 6 properties hold; 1,777,534 states |
| `approval_sets` | 2 requests, 2 actors, 1 local execution, no revocation, no power loss; deaths at every step | is a grant of a set used up for nothing, and does a lookup miss an open request, except in the cases the properties name? | 2 properties hold; 1,359,976 states |
| `rearmed` | as `approvals` with 2 actors, deaths everywhere | is a revoked grant dead for good? | violated |
| `journal` | 2 operations of one identity, 2 handlers; 9 records, 2 of them not closures, reserve 2 per bracket and 1; segments of 5; 1 restart, 1 failed write | do deaths, failed writes, rotations and recoveries lose records, re-run a mutation or leave a bracket that cannot be closed? | 6 properties hold; 3,874,162 states |
| `blind_replay` | 1 handler, 8 records, segments of 3, otherwise as `journal` | is a mutation of unknown outcome never run again? | violated |
| `queue_order` | 3 jobs of one conversation, the last two follow another; the first may be pruned; 1 move back, 1 death, power loss or failed move | does anything overtake, fork or strand the line, or lose a stream? | 6 properties hold; 2.99 million states |
| `app_session` | 1 session, 1 call, 2 requests at a time; launch, session and call grants that live 3, 2 and 1 ticks, 3 ticks; room for 2 children | can transitions, relayed spends, teardown, exits and refusals leave a grant that the row does not justify, spend one, strand one, or withdraw one early? | 5 properties hold; 1,206,922 states |

*Why the bounds are enough.* Every operation concerns one job: the lock, the
files and the recovery counter are per job and `JobStore` has no step that reads
two records, so two jobs add products of behaviours and no new one; the steps that
do read two are those of `QueueOrder`. In `Supervision` the jobs compete for permits; the
permit is only taken earlier or later. Two identities let a second worker run
beside a first that was not reaped, which is what the hazards need; one request
reaches each of the five statuses; `MaxRecoveries = 1` has a run below and a run
at the limit (`store_safety` and `supervision_liveness`; in `supervision_safety` the
limit is 0, and a job returns to the queue by consent or release only); one restart reaches every half-done move and one I/O error every
half-done operation, and both together a duplicate that is half removed. The
proofs cover all sizes for the properties marked below. In the approval store
every step but a sweep and a set concerns one request, and what the two spend or
refuse they take one by one, so one request shows the races for its file, and two
the rollback of a set. Three actors are a reviewer, a sweep or a revocation, and
a spender at once. Two uses are a first and a last one; two generations are a
revocation and one after it. `Scanned` names the requests that are looked up and `MaxReaders` how many
lookups go on at a time (a lookup changes nothing, so it is left out where no property is
about it, and two of them add nothing to one). One power loss (`MaxOutages`) meets every
set of undone renames, and what comes back is taken up by everybody afterwards;
`approval_sets` has none for its size, and the theorems cover any number. `Uncut` names the steps at which nobody dies: only `sync`, and only
because `rearmed`, which has no such step, shows that `RevokedStaysDead` needs it. In `QueueOrder` three
jobs make a line with a middle, which can be cancelled, moved back or pruned from
behind its successor, and two candidates for one place in it; one move back and one
death suffice for each exception the properties name. In `SessionJournal` every step
but a retention record concerns one bracket; two operations of one identity are the
first run and its repetition, two handlers overlap at every step, nine records and
segments of five give a rotation in the middle of the brackets and a full partition; that
a second rotation costs the first its record, which `ClosedSegmentsAreRecorded` excuses,
needs more records and is left to the theorem;
the reserve of one beyond the brackets is overspent in some behaviours, which
`BracketsStayClosable` excuses, and not in others. In `AppSessions` two requests are two
transitions, a transition and a deregistration, or either and a relayed spend; teardown,
sweep, exits and time are not requests and interleave with both. Each lifetime passes
once and in the code's order; the calls of a session come one after the other, and what
one leaves behind the clear after it would meet. `MaxChildren` is 2 of the code's 64,
just what a bound session needs at a time (the relay and the session grant): one child
that is counted and not taken back would refuse the next clear.

*Properties.* `AtMostOneRunPerConsent`: `runs[j] <= resumes[j] + 1`.
`MovesAreSound` says what the lock holder's next step relies on and that copies
agree on whether the work may begin; it is the inductive invariant of the proofs.
`OnlyConsentReopens`: once no copy of a job permits a run, only a consented
resumption makes one that does; it is what makes the fencing by phase and worker
identity hold against late callers. `StartsAreBounded`, `CancelledNeverSucceeds`,
`DoneAbsorbs`, `NoJobLost` are stated in the module; `KeepsContract` is `TaskContract`'s specification under the
mapping `TaskState`, and `RequestsKeepContract` is `ConsentContract`'s of the
requests. `ActingJobIsNotReplayable`: while a worker holds COMMIT and
has not been reaped, every record of its job has a phase that forbids replay,
unless consent has resumed the job since. `RequestsAreAnswerable`: a request that
nobody decided belongs to a task at work or to a record that waits for it; it is
stated for executions without a restart, because a broker that dies between
filing and linking a request leaves an orphan, and it exempts records retired as
duplicates, whose requests the code does not deny. `EveryJobEnds`: liveness.

Of the approval store: `OnePlace`, `BudgetRespected`, `RevokedStaysDead` (no
execution can redeem it, nobody is about to), `RetiredHoldsNoGrant`,
`NoConsentIsWasted` (what is in `consumed/` had a reported use, or a named reason) and
`UnknownMeansDecided` are stated in the module with their exceptions, each of which the
code has (section 4); `KeepsConsentContract` is
`ConsentContract`'s specification under the mapping `Standing`. A request swept
while it is being filed stays open (`pending/`) after its execution is gone; no
property denies it, but `RetiredHoldsNoGrant` says that no decision can make a
grant of it. The store makes no promise of progress (people decide), so it has no
liveness property.

Of the queue's order: `NeverOvertakes` (what has started has its whole line behind
it), `QueuesInLine` (no two live followers of one task), `UnavailableMeansGone` (a
step that refuses a successor found its predecessor gone or moved back),
`StreamFollowsRecord` and `NoStreamIsOrphaned` (a record and its stream come and go
together). Of the journal: `KeepsLedger` is `LedgerContract`'s specification of the
acknowledged prefix and the effects; `RecoveredRefusesReplay` and `NoBlindReplay` say
that no operation is dispatched while another of its identity has an unknown outcome,
of a daemon whose startup pass completed and of every daemon; the first excepts operations
that were in flight together with another of their identity, and only these;
`BracketsStayClosable`
that every open bracket keeps room for its end unless the recovery headroom is
overspent; `OrphansAreHonest` and `ClosedSegmentsAreRecorded` concern the records that
recovery and rotation write. Neither of the two modules has a liveness property: a follow-up waits
for its predecessor as long as that runs, whose end `EveryJobEnds` has, and the journal
refuses rather than waits.

Of an App session: `AuthorityMatchesRow` (outside a transition the grant that the session
id resolves to carries exactly the capabilities of the row; a deregistered session has no
grant), `NothingIsSpentLate` (no capability of a call is exercised after the call was
replaced or the session ended, whatever request or transition was under way),
`AuthorityLasts` (a session that nobody ended keeps its launch and relay grants, and
between calls a live grant to resolve, as long as a session grant still fits into the
launch grant), and `NothingIsStranded` (what was withdrawn is gone for good: a grant that
an overtaken transition installs afterwards is swept).

*Fairness.* Weak fairness of: the file steps of a started operation (a thread
that holds a lock runs on); each supervision task's next step (an async task is
polled) and the end of its run (turn limits, time limits and the lease deadline
of the pump end every run); the main loop's claim, recovery and reconciliation
(a loop with a 60 s interval); the eight hours passing; the restart of a broker
that was told to stop. Nothing is assumed of people (no decision, no
cancellation), of failures, or of the order in which the main loop's parts win.
`AppSessions` assumes that time passes, that the sweep runs (every 30 s) and that a
teardown that began goes on (one async task that does not wait for the others), and of
requests nothing: none has to be answered.

## 4. Disagreements between code and documentation

1. `consent_crash`. A resumption writes status `pending` into the waiting file
   before it renames it. A crash in between makes the next pass fail the task as
   malformed although every request was approved (agent/MODULE.md:131-135).
2. `late_scan`. A scan that lists a moving record in two buckets takes the vanished
   name for corruption (service.rs:1520) and rewrites the job, even a finished one, as an
   indeterminate error, without any crash.
3. `rearmed`. A new generation is visible from the rename of its file and durable only
   after the sync of the directory. If the revoking process dies in between, an
   approval can be minted at that generation; a power loss then restores the old
   counter, and the next, acknowledged, revocation reaches the same number and
   makes the grant live again. generations.rs:63-66 says that the counter "never
   lands below where it already was", and line 19 that a revocation kills "every
   older grant".
4. `blind_replay`. The refusal to repeat a mutation of unknown outcome is a set in
   memory that the startup pass fills. If that pass fails (server.rs:254), the daemon
   raises an alarm and serves, the set is empty, and the next request of the same
   identity is dispatched, although clawd/journal.rs:109-112 says the refusal
   "survives restarts and is only lifted by an operator's typed resolution".

Read, some of them reproduced while the models were built, and not kept as a run:

* Recovery runs every minute and looks at the pending approvals of a running record
  (service.rs:1367) and at its cancellation mark (1352) before it looks at whether the
  worker lives (1378), so the record moves while the worker executes, although
  agent/MODULE.md:131 says the task waits "after the worker exits". The late outcome of
  that worker finds no record, and the supervisor denies the request the waiting task
  depends on.
* A power loss brings a decided question back. A decision syncs `approved/` or `denied/`
  (approvals.rs:858-862) and neither `pending/` nor `scratch/`, whose rename (1362) may so
  be undone beside the answer. The question is listed as open and can be decided a
  second time, although docs/agent-terminal.md:309-310 says that an "approved, consumed or
  denied record cannot be decided again". The first consent, if it was used up, is not
  brought back by this; the second is one of its own (`BudgetRespected`). `OnePlace`
  and `KeepsConsentContract` except the requests a power loss put elsewhere (`returned`,
  "unsettled" in the contract) and nothing else.
* Outside of policy restorations a sync that fails is ignored (approvals.rs:860, 897), and the
  caller of a redemption is told that it succeeded. A power loss may then bring the grant
  back with the use it had. The comment (806) takes this for "records whose loss is
  recoverable by asking again", which a spent grant is not. The model takes every sync that
  is issued to work.
* A launch "can never burn part of an approval set", says the comment on it
  (approvals.rs:2244-2251; clawd/MODULE.md:643 "never burns part of a set"). It can: each rename back may
  fail and its error is dropped (2314), and a launcher that dies between two renames leaves
  what it moved in `consumed/`. `NoConsentIsWasted` names both cases (`wasted`). The opposite, a
  launch that spends more than its set, is excluded.
* A status lookup can answer `Unknown` for a request that was just approved, or that is
  still open because a reviewer's choice was refused and the request put back
  (approvals.rs:1411-1416) while the five directories were read one by one
  (approvals.rs:2196-2219), or a file or directory of which could not be read, whatever
  the error (2202, 2224). The queue takes `Unknown` for a refusal (service.rs:2107-2131),
  fails the task and denies its requests, although approvals.rs:2173 gives that answer
  the meaning "No such request is visible to this owner" and agent/MODULE.md:131-135 says
  that the task waits (section 2, Approvals).
* The comment at supervisor.rs:328 promises that a panic in the supervision path still
  resolves its task, but a record that names the live broker is skipped by recovery
  until the next restart. The same holds for an I/O error while a claimed job is
  released: with one, `EveryJobEnds` fails.
* Shutdown files tasks as cancelled by the user; a crash between the two file steps of
  `finish` turns a result `ok` into an indeterminate error (the conservative choice).
* `begin` looks at unresolved outcomes (clawd/journal.rs:113) and registers nothing in
  flight, and the duplicate detector in front of it knows a client by its process: a client
  that restarts can have two requests of one identity in flight. Both are dispatched, the second
  possibly after the first became unknown, although clawd/journal.rs:231-240 and
  session/journal/MODULE.md:111-117 say that this is the case the durable identity is for.
  And `UNRESOLVED` is keyed by identity, not by operation (session/journal/mod.rs:642-660),
  so the end of one of the two lifts the refusal that the other left, for every later
  request; resolving one of two unresolved operations does so as well (`Conceded`).
  `RecoveredRefusesReplay` excepts exactly the operations that were in flight together
  (`overlapped`). The run `blind_replay` has one handler and so no such case: its
  trace needs the failed startup pass.
* A retention record is not quite "exactly-once" (writer.rs:269-271): `maintain` reads the
  marker outside the partition lock, two handlers can write the same record, and the
  second one, if a rotation came in between, clears the newer marker
  (`ClosedSegmentsAreRecorded` excuses exactly this).
* If the head of a closing record is visible and its directory not synced, the closure is
  reported as failed and its identity refused, while the chain says it is resolved:
  `resolve_mutation` then answers that nothing is unresolved, and the refusal stays until
  the next restart.
* A death between the first line of a partition and its first head leaves chain bytes
  without a head, which is taken for tampering and quarantines the partition
  (writer.rs:46-49 says that no crash boundary looks like tampering); a rotation that is
  visible and not synced, an append and a power loss leave a segment beyond the active
  one, with the same effect.
* A session grant lives 11 hours and may not outlive its launch grant of 12
  (app_sessions.rs:72, 80). A clear derives a new one, so a clear more than an hour after
  registration is refused; the rollback then gives the row its call back and revokes the
  session, although the comment says that the App loses its grant "at this deadline", 12
  hours on. `AuthorityLasts` states the hour.
* The comment on the session lock says that "every transition" takes it, but the teardown
  of a host does not. A registration, binding or widening under way leaves a grant or a
  pending row behind it. `NothingIsSpentLate` and `NothingIsStranded` show that such a
  grant is never spent from and is swept; the row stays until its process is seen dead.
* A lock that `release_session_lock` leaves in the map because somebody waits for it is
  not collected by "the next teardown": the session has none.
* `revoke_session` revokes the grants first and raises the approval generation
  afterwards (authority/mod.rs:704), so a request that redeems an approval in between
  succeeds although the grants of its session are gone already.
* Scans, repeated retention records and late or repeated resolutions spend the recovery
  headroom and are not bounded by it; when it is overspent an open bracket may have no
  room left for its end.

## 5. Proofs

All but two theorems are checked by `tlapm` without assumptions beyond those the modules
declare: the bounds are naturals, null values are no members of the sets they are
added to, local executions are not workers, each execution has a session, the requests
that a daemon handles at a time are finitely many, the journal reserves at least two
records for a bracket and has room for its headroom, the jobs of a queue are positive
numbers, and a session grant lives less long than its launch grant;
`RevocationIsFinal` states one more, about who dies where, and `AuthorityIsKept` two about
its constants. They hold for all sets of jobs,
workers, requests, operations and handlers, and all bounds.

* `StoreInvariant`: `StoreSpec => []Inv`, `Inv == StoreTypeOK /\ MovesAreSound`.
  `AtMostOneRunPerConsent` is not inductive: nothing in it says that a record
  which still allows a run has no run behind it. `CopiesAgree` says so for every
  copy, in every bucket; to keep it through a half-done move one must know what the lock
  holder will rename where (`RenameReady`, `SyncReady`, `ClaimReady`,
  `RemoveReady`), because that is what a power loss may duplicate. The proof has
  one lemma for the types and one for soundness per group of steps (file steps,
  queue operations, lease operations, restart), and `MoveSound` for the shared
  tail of all operations that end in a rename.
* `StoreTypeCorrect`, `MovesStaySound`, `RunsNeedConsent` follow.
* `StoreImplementsContract`: `StoreSpec => KeepsContract`. Most steps leave the
  set of copies alone and map to a stutter (`QuietSteps`, `LeaseKeepsCopies`);
  the file steps move one job between abstract states; a restart maps to
  `GiveBack` of the jobs whose pending copy came back.
* `JobsAreNeverLost`, `DoneIsFinal`: the two action properties, from `Inv`.
* The second half of `JobStoreContractProofs` brings every operation of the queue into one of five forms
  (`Formed`: it submits, leaves the files alone, reconciles, moves a record or
  touches the running one) and every other step of the system into one of four
  (`StepKinds`: a job's files rest, lose copies, are carried or resurrected).
  Three theorems then go through nine cases each. `ReopeningNeedsConsent` needs
  no more than `Inv`. `CancellationWins` needs `CancelHeld`: the mark is in every
  copy of the job, in the file a power loss may duplicate, and a marked record
  is never on its way to `waiting/` or to a result. `StartsStayBounded` needs
  `StartsCovered`: every copy outside `done/` carries enough counted recoveries
  for the claims so far, and one to spare if it may still be claimed; verdicts
  on duplicates forget the count, which is why `done/` is left out, except while
  a rename into it can still be undone by a power loss.
* `SupervisorUsesTheStore`: `Spec => StoreSpec`. A supervision task that is not
  idle serves a job (`GoodTask`), so each of its calls is a lease operation of
  that job. The store's theorems carry over; `SupervisorKeepsContract` is stated.
* `ActingRunsAreNotReplayed`: the commit leaves one copy, committed, and
  `ClosedStep` keeps the job closed until a consent later than the commit
  (`RunClosed`). The argument needs neither the stages of the supervision task
  nor its liveness, so it covers outcomes filed late and onto later records.
* `RequestsStayAnswerable`, for the life of the first broker (the property claims no more:
  a broker that dies between filing and linking a request leaves an orphan). The property
  is far from inductive: a rename may put a waiting record over another copy, a retirement
  may drop what a wait names, a task may settle before it saved what it asked. `Answered`
  says what prevents it. Of the copies of a job (`CopiesInOrder`): at most one is not
  terminal; a wait that lies beside a terminal copy is repeated in it, or the copy is a
  retirement; what is removed is removed for `done/`. Of a move that files the outcome of a
  run (`SavingInOrder`): its task waits for it, and a record on its way to `waiting/` names
  every request of the task. Of a task (`FilingInOrder`): an undecided request it filed is
  the one it is recording or one it has recorded, at the stages where it may have any. Of a
  request (`SomeoneHolds`): its task has still to retire it, or a record that stays put
  names it. The steps of the store keep the first and the last part whoever takes them
  (`KeepsRequests`, `AsksNobody`), so each is looked at once for all callers.
* `RequestsKeepTheirContract`: all that the queue does to requests is to deny
  open ones (`DenyingRefuses`).
* `ApprovalsInvariant`: `Spec => []Inv` of the approval store. The properties
  say where a request is and what it may still be used for, and that depends on
  what each process in the middle of something has read and intends: `HasItsFile` (a
  request being filed has no file, one being decided or refused is in `scratch/`, alone unless a
  power loss displaced it),
  `ReadIsFresh` (what a spender read under the lock is still so),
  `OperationIsSound`, `NobodyShares` (no two processes file or decide the same
  request), and per request `RequestIsSound`. What a power loss may do is bounded there: `MayBe` (no
  place it may be left in is none at all), and `Budgeted`, which counts a grant as
  spendable as long as some possible place is in `approved/` (`Armed`), whether or not it is
  read there now. A sync only removes places (`SyncSettles`). `StepKeepsInv` reduces every action
  to three questions: are the types kept, does the actor touch only requests that
  nobody else relies on, and are those requests and the actor sound afterwards.
  `ApprovalsTypeCorrect`, `RequestsAreInOnePlace`, `BudgetIsRespected`,
  `RetiredHoldNoGrants` and `ConsentIsNotWasted` follow. `RetiredHoldNoGrants` rests on the order of
  a retirement: the marker first, so that whoever judges later denies; the grants last and
  under the lock, so that whoever judged earlier has written. `ConsentIsNotWasted`
  (`Accounted`) rests on the lock as well: between the first rename of a set and its
  report, or the last rename back, nobody else may touch its grants.
* `ApprovalsImplementContract`: most file steps stutter; a request moves in the
  contract when its outcome is written, its last use is made, its execution is
  retired, or its set is reported spent. A set under way maps to *approved*, so
  that a rollback is a stutter; a death, or a rename back that fails, uses up what was
  moved. A power loss is the contract's `Outage`: what it displaces (`returned`) is
  *unsettled* and stays so (`UnsettledStays`), all else is where it was.
* `RevocationIsFinal`, assuming that nobody dies between the rename and the sync
  of the generations file: counters never fall (`RaisedRises`: an owner-wide
  revocation rises above every session's counter), so a grant minted below the
  counter of its session stays below (`RevocationIsSound`). `rearmed` shows that
  the assumption cannot be dropped.
* `LookupsMissNoOpenRequest` (`ScanIsSound`): a lookup that has passed a directory, and
  could read what was there, knows something about it only as long as files move in the order
  of its reading (`FilesGoOn`).
  A first attempt to prove the property without the requests that are
  put back failed at `JudgeRestored`; TLC then showed the lookup that misses one.

* `JournalIsTyped`, `JournalKeepsLedger`: `JournalSpec => []LedgerInv`. That an
  acknowledged record survives a power loss is not inductive: one must know that what was
  acknowledged is no more than what is durable, and that no more than the log
  (`DiskOK`); that an effect waits for its start record (`StartsAreRecorded`); and that
  nobody is served before the startup pass is over (`DoorsAreKept`). Every step then
  acknowledges, performs or stutters.
* `OrphansStayHonest` (`HonestInv`): while the pass is flagging, nothing it has still to
  flag is flagged or closed in the chain, because no handler is there yet.
* `RecoveredDaemonRefusesReplay` (`ReplayInv`): an operation that has had its effect and has
  no end in the chain (it is *loose*) is tended by a handler, or its identity is refused, or it is
  excused: conceded by an operator, or once in flight beside another of its identity
  (`Guarded`). For that a handler must have made the identity refused before it records a
  doubt (`Doubted`), and the pass of a new daemon must have found all of them before it
  serves (`FoundAll`). Two brackets in flight are different operations, and of one identity
  only if both count as overlapped (`Apart`); so an end can lift the refusal that
  another bracket left only if that bracket is excused (`Alone`). Nothing is assumed of what is in flight.
  The run `blind_replay` shows that the startup pass is needed.
* `GrantsFollowTheRow`, `NothingWithdrawnIsSpent` (`AuthInv`): none of the two is
  inductive, because a request that is about to derive a grant relies on what it read.
  One must know that the inside of the session lock admits one request (`Alone`), although
  its map entry comes and goes: whoever uses the lock uses the one in the map, and only a
  last user takes it out (`LastUser`). What such a request is about to grant was never
  replaced, since the authorization it consumed is used once, and the row is as it left it
  or gone. An ended session has no relay grant and cannot get one (`EndIsSound`), which is
  why a grant that an overtaken request installs cannot be spent. None of this needs the
  clock or the processes.
* `SessionIsTyped` (`TypeInv`): the count of a launch grant is the number of its children
  in the store, through derivations, revocations and sweeps (`LessOfDead`); grants are
  told apart by fresh numbers (`IdIsFresh`).
* `AuthorityIsKept` (`SessionLasts`), assuming that a session grant lives more than half
  as long as the launch grant and that this one has room for two: then a session in force
  loses nothing to a sweep, and a derivation is refused by nothing but a ceiling that the
  model leaves open. The code's 11 of 12 hours and 64 children satisfy both.
* `ClosedSegmentsStayRecorded` (`SegmentInv`): a retention record clears the marker
  whatever segment it is about, so that a closed segment stays unrecorded only if the
  handler that cleared its marker wrote about an earlier one. That one had its record
  already, because the marker is always about the last segment (`SegmentsKept`), so it has
  two now. No handler has to be remembered for that, and the property does not excuse
  one.
* `BracketsKeepRoom` (`RoomInv`), for every quota that reserves two records or more for a
  bracket and has room for the headroom (quota.rs: 4, and 64 of 262,144). Every record is
  let in by the number of open brackets in the head, which a late or repeated resolution
  makes too small; `RoomIn` says by how much, and that the room left is the full reserve of
  every open bracket, less the flag some have spent, and less what was paid from the
  headroom. A record keeps this only if nobody writes an end or a flag of a bracket that
  was never started, nor a second flag of one: so the handlers of a bracket are alone with
  it until its start is written, and its only ones after it (`BracketIsSound`), and what the
  startup pass has still to flag is open and not flagged (`TodoIsSound`). Both this
  invariant and `SegmentInv` are stated of a chain up to its k-th record under a head, and
  kept for the chain a reader sees and for the one a power loss leaves.
* The theorems of `QueueOrderProofs` share one invariant, `Inv`, because the line, the
  moves and the streams rest on the same records. *Order:* that what has started has its
  line behind it is kept by a start only if the walk before it has climbed so far that
  what is not behind is the job it looks for, or ahead of that one (`LineIsBehind`); the
  jobs ahead are the least set that holds every predecessor of its members (`Line`), so a
  walk climbs by `LineStep` and needs no induction over the length of a line. Whoever is
  past its walk has its move under way, and a power loss in the middle of one leaves
  the record in either of its buckets, or in both: the invariant speaks of the two
  (`Moving`, `LineIsBehind`). *Lookups:* a walk that no record slipped behind has the record it looks
  for in a bucket it has still to read, or there is none (`WalkSlipsNone`); a listing has
  heard of every live job that is in no bucket ahead of it (`ListSlipsNone`). Both hold
  because files move in the order in which the buckets are read, and a move the other way
  is marked. From the first, `UnavailablePredecessorsAreGone`; from the second, when a
  submission joins, that the one tail it heard of is the only one (`QueuesStayInLine`).
  *Streams:* `StreamIsKept` says for each step of a prune where the stream is, and which
  records are unlinked and not yet synced, because those are what a power loss restores.
  `NobodyOvertakes`, `StreamsFollowRecords` and `StreamsAreNotOrphaned` are parts of it.

Only model-checked: the liveness properties `EveryJobEnds` and `NothingIsStranded`
(fairness and `ENABLED` are out of the prover's reach), and what the four runs with an expected
violation show of the code. Every safety property of the passing runs is a theorem.

## 6. Not modelled, and the plan

Not modelled in the queue: priorities and their aging, Activity admission, stream
appends that come late, notifications. `QueueOrder` treats one conversation of one
owner. Not modelled in the supervisor: grant signatures and frame
parsing (a frame is accepted or rejected), the spawn throttle, receipts, panics.
Not modelled in the approval store: deadlines, the matching of capability, risk and operation
digest, the restorations of App policy, `wait` and the lookups that avoid a
second request. The composition of `Approvals` with the queue file by file is
left to the contract between them. Not modelled in the journal: MACs, keys and their
rotation (which changes every identity), the lease and its epochs beyond its being held,
byte quotas apart from record quotas, the worker and ingest classes, readers without a
lease (which can see a transient damage), the creation and the sync of the directories
above a partition, many partitions (they share nothing but the lease). Not modelled of
the authority: budgets of uses, audiences, peer-session grants and those derived from an
approval, quotas other than the children of one grant, lineages deeper than two. Not
modelled of App sessions: a teardown's registry write that fails after the rows were taken
out of it (they stay, their sessions are revoked all the same), what capabilities a call gets and their ceiling, one-shot
operations and GUI sessions, how a call is authorized, the start of the service. The
remaining components have no module yet.

Left for later, in this order:

1. The rest of the authority: budgets of uses, deeper lineages, peer-session grants.
2. `Notifications` and `Triggers`: leases, retries, dispatch in flight.
3. `UpdateFloor`: monotone floor and one-use recovery.
4. Activity reservations, session leases and rollback, extension host, nearby.
