----------------------------- MODULE QueueOrder -----------------------------
(***************************************************************************)
(* The conversation queue on top of the job store: a task can be submitted *)
(* to run after another one (after_task_id), a claim admits it only when   *)
(* its line of predecessors has ended, and prune removes ended tasks with  *)
(* their event streams (core/src/agent/service.rs, service/dependencies.rs)*)
(*                                                                         *)
(* Neither the check of the predecessors nor the listing of a submission   *)
(* holds the locks of the jobs it reads: each reads one bucket at a time   *)
(* while the records move.  A move writes the record, renames it and syncs *)
(* the directories, with the lock of its own job held.                     *)
(*                                                                         *)
(* One conversation of one owner; no Activity.  What a record says is      *)
(* reduced to whether it is terminal and whether its phase allows a replay *)
(* (JobStore.tla has the rest).                                            *)
(***************************************************************************)
EXTENDS Naturals, FiniteSets

CONSTANTS
    Jobs,       \* job ids, numbered in the order of their submission
    Alone,      \* jobs submitted without a predecessor
    Old,        \* jobs that prune may take: past the age and the number kept
    MaxBacks,   \* bound: moves back to pending/
    MaxDeaths   \* bound: process deaths, power losses and failed moves

ASSUME OrderNumbers == Jobs \subseteq Nat \ {0} /\ {MaxBacks, MaxDeaths} \subseteq Nat
ASSUME OrderJobs == Alone \subseteq Jobs /\ Old \subseteq Jobs

VARIABLES
    files,       \* the buckets that hold a record of each job
    status,      \* what the record says
    replayable,  \* jobs whose phase proves that COMMIT was never issued
    after,       \* after_task_id
    op,          \* what the holder of each job's lock is doing
    post,        \* the submission that holds the session lock
    names,       \* files of each job's stream
    loose,       \* records removed from a directory that was not synced since
    backs, deaths,
    streamed,    \* history: jobs that wrote to their stream
    strayed,     \* history: jobs admitted while a listed job moved back
    reopened,    \* history: jobs whose terminal record was requeued
    torn         \* history: removals cut off between the unlink and its sync

records == <<files, status, replayable, after>>
payload == <<names, loose>>
past == <<streamed, strayed, reopened, torn>>
orderVars == <<records, op, post, payload, backs, deaths, past>>

NoJob == 0
Order == <<"pending", "running", "waiting", "done">>
Buckets == {"pending", "running", "waiting", "done"}
Live == Buckets \ {"done"}
Rank == [b \in Buckets |-> CHOOSE i \in 1..4 : Order[i] = b]

Free == [step |-> "free"]
WalkFromZero(p) == [step |-> "walk", next |-> p, at |-> 0, slid |-> FALSE]
Walk(p) == [step |-> "walk", next |-> p, at |-> 1, slid |-> FALSE]
Move(from, to) == [step |-> "rename", from |-> from, to |-> to]
NoPost == [step |-> "none"]

OrderInit ==
    /\ files = [j \in Jobs |-> {}] /\ status = [j \in Jobs |-> "none"]
    /\ replayable = {} /\ after = [j \in Jobs |-> NoJob]
    /\ op = [j \in Jobs |-> Free] /\ post = NoPost
    /\ names = [j \in Jobs |-> {}] /\ loose = {}
    /\ backs = 0 /\ deaths = 0
    /\ streamed = {} /\ strayed = {} /\ reopened = {} /\ torn = {}

Known == {j \in Jobs : status[j] # "none"}
Next(j) == j \in Jobs \ Known /\ \A k \in Jobs : k < j => k \in Known

Predecessors == [j \in Jobs |-> {after[j]} \ {NoJob}]
Closed(S) == \A p \in S : Predecessors[p] \subseteq S
\* The jobs that j comes after: its predecessor, the predecessor of that one, and on.
Line(j) == {k \in Jobs : \A S \in SUBSET Jobs : Predecessors[j] \subseteq S /\ Closed(S) => k \in S}

----------------------------------------------------------------------------
\* Submission

Publish(j, p) ==
    /\ files' = [files EXCEPT ![j] = {"pending"}]
    /\ status' = [status EXCEPT ![j] = "active"]
    /\ replayable' = replayable \cup {j}
    /\ after' = [after EXCEPT ![j] = p]
    /\ UNCHANGED <<op, payload, backs, deaths, streamed, reopened, torn>>

Submit(j) ==
    /\ post = NoPost /\ Next(j) /\ j \in Alone
    /\ Publish(j, NoJob)
    /\ UNCHANGED <<post, strayed>>

Follow(p) ==
    /\ post = NoPost /\ p \in Known /\ \E j \in Jobs \ Alone : Next(j)
    /\ post' = [step |-> "list", next |-> p, at |-> 1, heard |-> {}, slid |-> FALSE]
    /\ UNCHANGED <<records, op, payload, backs, deaths, past>>

\* A record that moves on between two listings is heard of twice.
ListBucket ==
    /\ post.step = "list" /\ post.at <= 3
    /\ post' = [post EXCEPT !.at = @ + 1,
                   !.heard = @ \cup {<<j, post.at>> : j \in {k \in Jobs : Order[post.at] \in files[k]}}]
    /\ UNCHANGED <<records, op, payload, backs, deaths, past>>

Tails(H) == {h \in H : \A g \in H : after[g[1]] # h[1]}
ExtendsAnyOfThem(p, H) == files[p] # {}
Extends(p, H) ==
    IF H = {} THEN files[p] # {}
    ELSE Cardinality(Tails(H)) = 1 /\ \A h \in Tails(H) : h[1] = p

Join(j) ==
    /\ post.step = "list" /\ post.at = 4 /\ Next(j)
    /\ post' = NoPost
    /\ IF Extends(post.next, post.heard)
       THEN /\ Publish(j, post.next)
            /\ strayed' = IF post.slid THEN strayed \cup {j} ELSE strayed
       ELSE UNCHANGED <<records, op, payload, backs, deaths, past>>

----------------------------------------------------------------------------
\* The claim

Hold(j, o) == op' = [op EXCEPT ![j] = o]

LastBucketButDone == 3
LastBucket == 4

OnwardAtOnce(p) == Move("pending", "running")
Onward(p) == IF after[p] = NoJob THEN Move("pending", "running") ELSE Walk(after[p])

\* A pending record whose status is not pending is settled, not replayed.
Claim(j) ==
    /\ op[j] = Free /\ files[j] = {"pending"}
    /\ Hold(j, IF status[j] = "active" THEN Onward(j) ELSE Move("pending", "done"))
    /\ UNCHANGED <<records, post, payload, backs, deaths, past>>

Look(j) ==
    LET w == op[j]
        Found == Order[w.at] \in files[w.next]
    IN
    /\ w.step = "walk"
    /\ \/ Found /\ status[w.next] = "active" /\ Hold(j, Free) /\ UNCHANGED status
       \/ Found /\ status[w.next] = "ended" /\ Hold(j, Onward(w.next)) /\ UNCHANGED status
       \/ ~Found /\ w.at < LastBucket /\ Hold(j, [w EXCEPT !.at = @ + 1]) /\ UNCHANGED status
       \/ /\ ~Found /\ w.at = LastBucket
          /\ status' = [status EXCEPT ![j] = "ended"]
          /\ Hold(j, Move("pending", "done"))
    /\ UNCHANGED <<files, replayable, after, post, payload, backs, deaths, past>>

----------------------------------------------------------------------------
\* Moves of a record under the lock of its job

\* Whoever was looking for the job may have passed the bucket it moves back to.
Slide(j) ==
    /\ op' = [k \in Jobs |->
                 IF k = j THEN [op[j] EXCEPT !.step = "sync"]
                 ELSE IF op[k].step = "walk" /\ op[k].next = j
                      THEN [op[k] EXCEPT !.slid = TRUE] ELSE op[k]]
    /\ post' = IF post = NoPost THEN post ELSE [post EXCEPT !.slid = TRUE]

Rename(j) ==
    LET o == op[j] IN
    /\ o.step = "rename"
    /\ files' = [files EXCEPT ![j] = (@ \ {o.from}) \cup {o.to}]
    /\ IF Rank[o.to] < Rank[o.from] THEN Slide(j)
       ELSE Hold(j, [o EXCEPT !.step = "sync"]) /\ UNCHANGED post
    /\ UNCHANGED <<status, replayable, after, payload, backs, deaths, past>>

\* The sync makes every earlier removal from done/ durable.  The phase of a record
\* in done/ is not read again.
Sync(j) ==
    LET o == op[j] IN
    /\ o.step = "sync"
    /\ Hold(j, Free)
    /\ IF o.to = "running"
       THEN names' = [names EXCEPT ![j] = {"stream"}] /\ streamed' = streamed \cup {j}
       ELSE UNCHANGED <<names, streamed>>
    /\ IF o.to = "done" THEN loose' = {} /\ replayable' = replayable \ {j}
       ELSE UNCHANGED <<loose, replayable>>
    /\ UNCHANGED <<files, status, after, post, backs, deaths, strayed, reopened, torn>>

MoveFails(j) ==
    /\ op[j].step \in {"rename", "sync"}
    /\ deaths < MaxDeaths /\ deaths' = deaths + 1
    /\ Hold(j, Free)
    /\ UNCHANGED <<records, post, payload, backs, past>>

Commit(j) ==
    /\ op[j] = Free /\ files[j] = {"running"} /\ status[j] = "active"
    /\ replayable' = replayable \ {j}
    /\ UNCHANGED <<files, status, after, op, post, payload, backs, deaths, past>>

\* A result, a cancellation, a refused or an overdue approval, a recovery that
\* does not replay.
End(j, b) ==
    /\ op[j] = Free /\ files[j] = {b} /\ b \in Live
    /\ status' = [status EXCEPT ![j] = "ended"]
    /\ replayable' \in {replayable, IF b = "running" THEN replayable \ {j} ELSE replayable}
    /\ Hold(j, Move(b, "done"))
    /\ UNCHANGED <<files, after, post, payload, backs, deaths, past>>

Suspend(j) ==
    /\ op[j] = Free /\ files[j] = {"running"} /\ status[j] = "active"
    /\ Hold(j, Move("running", "waiting"))
    /\ UNCHANGED <<records, post, payload, backs, deaths, past>>

BackToPending(j, b) ==
    /\ op[j] = Free /\ files[j] = {b}
    /\ backs < MaxBacks /\ backs' = backs + 1
    /\ status' = [status EXCEPT ![j] = "active"]
    /\ replayable' = replayable \cup {j}
    /\ Hold(j, Move(b, "pending"))
    /\ UNCHANGED <<files, after, post, payload, deaths, streamed, strayed, torn>>

Resume(j) ==
    /\ status[j] = "active"
    /\ BackToPending(j, "waiting") /\ UNCHANGED reopened

\* Recovery decides by the phase and does not look at the status.
Requeue(j) ==
    /\ j \in replayable
    /\ BackToPending(j, "running")
    /\ reopened' = IF status[j] = "ended" THEN reopened \cup {j} ELSE reopened

\* Two copies after a power loss: a terminal or unsafe one wins, else the later.
Deduplicate(j) ==
    LET keep == IF status[j] = "ended" \/ j \notin replayable THEN "done"
                ELSE CHOOSE b \in files[j] : \A c \in files[j] : Rank[c] <= Rank[b]
    IN
    /\ op[j] = Free /\ Cardinality(files[j]) > 1
    /\ files' = [files EXCEPT ![j] = {keep}]
    /\ status' = IF keep = "done" THEN [status EXCEPT ![j] = "ended"] ELSE status
    /\ UNCHANGED <<replayable, after, op, post, payload, backs, deaths, past>>

----------------------------------------------------------------------------
\* Prune: the stream is set aside, the record unlinked, the directory synced

ActiveJobExists(j) == files[j] \cap Live # {}
Idle(j) == op[j] = Free

RecoveredAlways(j) == {"stream"}
Recovered(j) == IF "done" \in files[j] THEN {"stream"} ELSE {}

\* Before it selects records, a prune settles what an earlier one left.
RecoverTombstone(j) ==
    /\ Idle(j) /\ "tombstone" \in names[j] /\ ~ActiveJobExists(j)
    /\ names' = [names EXCEPT ![j] = Recovered(j)]
    /\ UNCHANGED <<records, op, post, loose, backs, deaths, past>>

PrunableWhenDone(j) == "done" \in files[j]
Prunable(j) == "done" \in files[j] /\ ~ActiveJobExists(j)

Stage(j) ==
    /\ Idle(j) /\ j \in Old /\ Prunable(j)
    /\ "tombstone" \notin names[j]
    /\ names' = [names EXCEPT ![j] = IF "stream" \in @ THEN {"tombstone"} ELSE @]
    /\ Hold(j, [step |-> "staged"])
    /\ UNCHANGED <<records, post, loose, backs, deaths, past>>

Remove(j) ==
    /\ op[j].step = "staged"
    /\ files' = [files EXCEPT ![j] = @ \ {"done"}]
    /\ loose' = loose \cup {j}
    /\ Hold(j, [step |-> "unlinked"])
    /\ UNCHANGED <<status, replayable, after, post, names, backs, deaths, past>>

Unstage(j) ==
    /\ op[j].step = "staged"
    /\ names' = [names EXCEPT ![j] = IF "tombstone" \in @ THEN {"stream"} ELSE @]
    /\ Hold(j, Free)
    /\ UNCHANGED <<records, post, loose, backs, deaths, past>>

SyncRemoval(j) ==
    /\ op[j].step = "unlinked"
    /\ \/ loose' = {} /\ Hold(j, [step |-> "clear"]) /\ UNCHANGED torn
       \/ torn' = torn \cup {j} /\ Hold(j, Free) /\ UNCHANGED loose
    /\ UNCHANGED <<records, post, names, backs, deaths, streamed, strayed, reopened>>

Clear(j) ==
    /\ op[j].step = "clear"
    /\ names' = [names EXCEPT ![j] = {}]
    /\ Hold(j, Free)
    /\ UNCHANGED <<records, post, loose, backs, deaths, past>>

Prune(j) ==
    RecoverTombstone(j) \/ Stage(j) \/ Remove(j) \/ Unstage(j) \/ SyncRemoval(j) \/ Clear(j)

----------------------------------------------------------------------------
\* Deaths

\* A death that finds nothing under way and nothing unsynced changes nothing.
Die ==
    /\ post # NoPost \/ loose # {} \/ \E j \in Jobs : op[j] # Free
    /\ deaths < MaxDeaths /\ deaths' = deaths + 1
    /\ op' = [j \in Jobs |-> Free] /\ post' = NoPost
    /\ UNCHANGED <<status, replayable, after, names, backs, streamed, strayed, reopened>>

ProcessDies ==
    /\ Die
    /\ torn' = torn \cup {j \in Jobs : op[j].step = "unlinked"}
    /\ UNCHANGED <<files, loose>>

\* A rename that was not synced leaves either name or both; a removal that was
\* not synced may be undone.
Unsynced == {j \in Jobs : op[j].step = "sync"} \cup loose
AfterPower(j, what) ==
    IF j \in loose THEN IF what = "new" THEN files[j] ELSE {"done"}
    ELSE CASE what = "new" -> {op[j].to} [] what = "old" -> {op[j].from}
           [] what = "both" -> {op[j].from, op[j].to}

PowerLoss ==
    /\ Die
    /\ \E what \in [Unsynced -> {"new", "old", "both"}] :
          files' = [j \in Jobs |-> IF j \in Unsynced THEN AfterPower(j, what[j]) ELSE files[j]]
    /\ loose' = {}
    /\ UNCHANGED torn

----------------------------------------------------------------------------
Worker(j) ==
    \/ Claim(j) \/ Look(j) \/ Rename(j) \/ Sync(j) \/ MoveFails(j) \/ Commit(j)
    \/ Suspend(j) \/ Resume(j) \/ Requeue(j) \/ Deduplicate(j) \/ \E b \in Live : End(j, b)

OrderNext ==
    \/ ProcessDies \/ PowerLoss \/ ListBucket
    \/ \E j \in Jobs : Submit(j) \/ Follow(j) \/ Join(j) \/ Worker(j) \/ Prune(j)

OrderSpec == OrderInit /\ [][OrderNext]_orderVars

----------------------------------------------------------------------------
\* Properties

\* Every variable has its type; a job follows an earlier one only.
OrderTypeOK ==
    /\ files \in [Jobs -> SUBSET Buckets]
    /\ status \in [Jobs -> {"none", "active", "ended"}]
    /\ replayable \subseteq Known
    /\ after \in [Jobs -> Jobs \cup {NoJob}] /\ \A j \in Jobs : after[j] < j
    /\ \A j \in Jobs :
          \/ op[j] \in {Free, [step |-> "staged"], [step |-> "unlinked"], [step |-> "clear"]}
          \/ op[j] \in [step : {"walk"}, next : Jobs, at : 1..4, slid : BOOLEAN]
          \/ op[j] \in [step : {"rename", "sync"}, from : Live, to : Buckets]
    /\ post = NoPost \/ post \in [step : {"list"}, next : Jobs, at : 1..4,
                                  heard : SUBSET (Jobs \X (1..3)), slid : BOOLEAN]
    /\ names \in [Jobs -> SUBSET {"stream", "tombstone"}] /\ loose \subseteq Known
    /\ backs \in 0..MaxBacks /\ deaths \in 0..MaxDeaths
    /\ streamed \cup strayed \cup reopened \cup torn \subseteq Known

\* A job that has started has the whole line before it behind it, whatever moved
\* while the line was read and whoever in the middle of it was cancelled.  A job
\* that a crash between the write of its terminal record and the rename lets run
\* again is the exception.
NeverOvertakes ==
    \A j \in Jobs : files[j] \cap {"running", "waiting"} # {} =>
        \A k \in Line(j) : status[k] = "ended" \/ k \in reopened

\* Two jobs that have not ended never follow the same predecessor, whatever
\* moved while the buckets were listed; unless a job moved back to pending/
\* behind the listing, or was requeued after it had ended.
QueuesInLine ==
    \A j, k \in Jobs :
        /\ j # k /\ after[j] = after[k] /\ after[j] # NoJob
        /\ status[j] = "active" /\ status[k] = "active"
        => {j, k} \cap (strayed \cup reopened) # {}

\* A job is refused because its predecessor is unavailable only if the record of
\* that one is gone, or moved back to pending/ behind the search.
UnavailableMeansGone ==
    [][\A j \in Jobs :
          op[j].step = "walk" /\ status[j] = "active" /\ status'[j] = "ended" =>
              files[op[j].next] = {} \/ op[j].slid]_orderVars

\* The stream of a job with a record is there, or set aside where the next prune
\* finds it, and a job that is not over has it in its place: through deaths at any
\* step, failed removals and removals that a power loss undoes.  A removal that
\* was cut off before its sync, and undone later, is the exception.
StreamFollowsRecord ==
    \A j \in streamed \ torn : files[j] # {} =>
        names[j] # {} /\ (ActiveJobExists(j) => "stream" \in names[j])

\* A removed job leaves no stream under a name that no later prune looks at.
NoStreamIsOrphaned ==
    \A j \in Known : files[j] = {} => "stream" \notin names[j]
=============================================================================
