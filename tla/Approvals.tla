----------------------------- MODULE Approvals -----------------------------
(***************************************************************************)
(* The approval store of core/src/approvals.rs and approvals/              *)
(* generations.rs: one file per request, moved by rename between the       *)
(* directories pending/, scratch/, approved/, consumed/ and denied/, and   *)
(* one file of revocation generations.  Decisions, spending and            *)
(* revocation hold the store-wide lock; filing, the sweep that retires the *)
(* open requests of a finished execution, and reading a status do not, and *)
(* any process can die between two file steps.                             *)
(*                                                                         *)
(* Directories are synced only where the code does so: a decision syncs    *)
(* the directory of its outcome, never the one it took the question from.  *)
(* A sync that is issued is taken to work.  A read that fails is what the  *)
(* code makes of it, an absent file.                                       *)
(*                                                                         *)
(* Time is left out: every deadline of the code only takes consent away,   *)
(* so the behaviours with deadlines are among those without.  Requests of  *)
(* one owner are modelled; the other fields that a redemption compares     *)
(* (capability, risk, operation digest) are taken to match.                *)
(***************************************************************************)
EXTENDS Naturals, Sequences, FiniteSets

CONSTANTS
    Requests,        \* request ids
    Actors,          \* threads and processes that use the store
    Locals,          \* in-process Agent invocations
    Workers,         \* worker leases (task, pid, start time, nonce)
    TaskOf,          \* the task of each worker lease
    Sessions,        \* grant sessions
    SessionOf,       \* the session of each execution
    None,            \* "no execution", "no actor", "no request"
    RepeatableUses,  \* REPEATABLE_GRANT_USES
    MaxGeneration,   \* u32::MAX, the width of a generation
    Scanned,         \* bound: requests whose status is looked up
    MaxReaders,      \* bound: lookups at a time (they change nothing)
    MaxOutages,      \* bound: power losses
    Uncut            \* bound: steps at which nobody dies

Executions == Locals \cup Workers

ASSUME NamesAreDistinct ==
    /\ None \notin Requests \cup Actors \cup Executions \cup Sessions
    /\ Locals \cap Workers = {}
ASSUME ScansAreOfRequests == Scanned \subseteq Requests
ASSUME LimitsAreNatural ==
    RepeatableUses \in Nat \ {0} /\ {MaxGeneration, MaxReaders, MaxOutages} \subseteq Nat
ASSUME ExecutionsHaveSessions == SessionOf \in [Executions -> Sessions]

Dirs == {"pending", "scratch", "approved", "consumed", "denied"}

\* The order in which a status is looked for.
ScanOrderScratchFirst == <<"scratch", "pending", "approved", "consumed", "denied">>
ScanOrder == <<"pending", "approved", "consumed", "denied", "scratch">>

\* "granted", "denied", "refused": the outcome can be read, and its directory
\* is not synced.
Steps == {"idle", "submit", "judge", "approve", "granted", "deny", "denied",
          "sweep", "refuse", "refused", "grants", "revoke", "sync", "spend",
          "set", "undo", "scan"}
\* Steps at which the actor holds the store lock.
Locked == {"judge", "approve", "granted", "deny", "denied", "sync", "spend",
           "set", "undo"}

VARIABLES
    dir,        \* directories that hold a file of each request
    kept,       \* the possible values of dir after a power loss
    rec,        \* contents of that file
    gens,       \* the generations file, as read
    disk,       \* the generations file, as a power loss leaves it
    lock,       \* holder of the store lock
    op,         \* the operation each actor is in the middle of
    marked,     \* executions with a committed revocation marker
    gone,       \* executions whose process has ended
    held,       \* worker leases that ended waiting for approval
    outages,    \* power losses so far
    redeemed,   \* history: uses reported of the last consent to each request
    revoked,    \* history: grants an acknowledged revocation covered
    cleared,    \* history: executions that were retired to the end
    unread,     \* history: grants that a retirement failed to read
    wasted,     \* history: grants an operation used up and did not report
    returned    \* history: requests that a power loss put elsewhere

files == <<dir, kept, rec>>
world == <<marked, gone, held, outages>>
history == <<redeemed, revoked, cleared, unread, wasted, returned>>
vars == <<files, gens, disk, lock, op, world, history>>

Idle == [step |-> "idle", req |-> None, subject |-> None, word |-> "none", at |-> 0,
         uses |-> 0, todo |-> {}, done |-> {}]

NoRecord == [exec |-> None, session |-> None, stamp |-> 0, mint |-> 0,
             uses |-> 0, duration |-> "none"]

----------------------------------------------------------------------------
\* Revocation generations

Greatest(S) == CHOOSE n \in S : \A m \in S : m <= n

Current(s) == Greatest({gens.owner, gens.session[s]})

RaisedFromOwner(word, s) ==
    IF word = "owner"
    THEN [owner |-> 1 + gens.owner, session |-> [t \in Sessions |-> 0]]
    ELSE [gens EXCEPT !.session[s] = 1 + Current(s)]

\* An owner-wide revocation rises above every session counter and drops
\* those; a session's counter rises above the owner's floor.
Raised(word, s) ==
    IF word = "owner"
    THEN [owner |-> 1 + Greatest({gens.owner} \cup {gens.session[t] : t \in Sessions}),
          session |-> [t \in Sessions |-> 0]]
    ELSE [gens EXCEPT !.session[s] = 1 + Current(s)]

Counters == 0 .. MaxGeneration
Fits(g) == g \in [owner : Counters, session : [Sessions -> Counters]]

----------------------------------------------------------------------------
\* What makes a request decidable and a grant redeemable

CanBeGrantedIfUnrevoked(r) ==
    r.exec # None =>
        /\ r.exec \in Workers \/ r.exec \notin gone
        /\ r.stamp = Current(r.session)

\* A worker's request waits for a successor of its process; a local one
\* does not.
CanStillBeGranted(r) ==
    r.exec # None =>
        /\ r.exec \notin marked
        /\ r.exec \in Workers \/ r.exec \notin gone
        /\ r.stamp = Current(r.session)

\* The same process, or a successor in the task whose job was resumed with
\* this request in resumed_after_approval.
IsFor(r, e) ==
    \/ r.exec = e
    \/ /\ r.exec \in held /\ e \in Workers
       /\ TaskOf[r.exec] = TaskOf[e]

\* A record that load_matching_grant returns to a caller of execution e.
Redeemable(q, e) ==
    LET r == rec[q] IN
    /\ "approved" \in dir[q]
    /\ r.uses > 0
    /\ r.mint = Current(r.session)
    /\ IF e = None THEN r.exec = None
       ELSE /\ e \notin gone
            /\ IsFor(r, e)
            /\ r.exec \notin marked
            /\ r.stamp = Current(r.session)

UsesOf(duration) == IF duration = "once" THEN 1 ELSE RepeatableUses

----------------------------------------------------------------------------
Init ==
    /\ dir = [q \in Requests |-> {}]
    /\ kept = [q \in Requests |-> {{}}]
    /\ rec = [q \in Requests |-> NoRecord]
    /\ gens = [owner |-> 0, session |-> [s \in Sessions |-> 0]]
    /\ disk = gens
    /\ lock = None
    /\ op = [a \in Actors |-> Idle]
    /\ marked = {} /\ gone = {} /\ held = {} /\ outages = 0
    /\ redeemed = [q \in Requests |-> 0]
    /\ revoked = {} /\ cleared = {} /\ unread = {} /\ wasted = {} /\ returned = {}

At(a, step) == op[a].step = step
Enter(a, o) == op' = [op EXCEPT ![a] = o]
Leave(a) == Enter(a, Idle)
Acquire(a) == lock = None /\ lock' = a
Release(a) == lock' = IF lock = a THEN None ELSE lock

\* The files of requests S renamed from one directory to another.
Moved(S, from, to) ==
    [q \in Requests |-> IF q \in S THEN (dir[q] \ {from}) \cup {to} ELSE dir[q]]

\* Until the directories are synced either name of it, or both, may be found
\* after a power loss.
Drifting(S, from, to) ==
    [q \in Requests |->
        IF q \in S
        THEN kept[q] \cup {k \cup {to} : k \in kept[q]}
                     \cup {(k \ {from}) \cup {to} : k \in kept[q]}
        ELSE kept[q]]

Rename(S, from, to) == dir' = Moved(S, from, to) /\ kept' = Drifting(S, from, to)

\* A sync settles the entries of directories D for every request: possible
\* places K, where the files are read in the places F.  A rename is one change
\* of the file system, so no power loss leaves a request without a name.
Synced(K, F, D) ==
    [q \in Requests |->
        {F[q]} \cup ({(k \ D) \cup (F[q] \cap D) : k \in K[q]} \ {{}})]

Both == {"approved", "consumed"}

RenameAndSync(S) ==
    /\ dir' = Moved(S, "approved", "consumed")
    /\ kept' = Synced(Drifting(S, "approved", "consumed"), dir', Both)

----------------------------------------------------------------------------
\* Filing a request: the execution is checked, then the file appears.

Submit(a, q, e, s) ==
    /\ At(a, "idle")
    /\ dir[q] = {} /\ \A b \in Actors : op[b].req # q
    /\ e # None => e \notin marked \cup gone /\ s = SessionOf[e]
    /\ rec' = [rec EXCEPT ![q] =
           [NoRecord EXCEPT !.exec = e, !.session = s,
                            !.stamp = IF e = None THEN 0 ELSE Current(s)]]
    /\ Enter(a, [Idle EXCEPT !.step = "submit", !.req = q])
    /\ UNCHANGED <<dir, kept, gens, disk, lock, world, history>>

WritePending(a) ==
    /\ At(a, "submit")
    /\ dir' = [dir EXCEPT ![op[a].req] = @ \cup {"pending"}]
    /\ kept' = Synced(kept, dir', {"pending"})
    /\ Leave(a)
    /\ UNCHANGED <<rec, gens, disk, lock, world, history>>

----------------------------------------------------------------------------
\* A decision, under the lock: claim the file, judge it, write the outcome.

Claim(a, q, word) ==
    /\ At(a, "idle")
    /\ Acquire(a)
    /\ "pending" \in dir[q]
    /\ Rename({q}, "pending", "scratch")
    /\ Enter(a, [Idle EXCEPT !.step = "judge", !.req = q, !.word = word])
    /\ UNCHANGED <<rec, gens, disk, world, history>>

JudgeTo(a, step) ==
    /\ Enter(a, [op[a] EXCEPT !.step = step])
    /\ UNCHANGED <<files, gens, disk, lock, world, history>>

\* An approval that comes too late is written as a denial.
JudgeDenied(a) ==
    /\ At(a, "judge")
    /\ op[a].word = "deny" \/ ~CanStillBeGranted(rec[op[a].req])
    /\ JudgeTo(a, "deny")

JudgeApproved(a) ==
    /\ At(a, "judge")
    /\ op[a].word # "deny" /\ CanStillBeGranted(rec[op[a].req])
    /\ JudgeTo(a, "approve")

\* The risk of an Agent's capability (not tracked) may forbid reuse; the
\* request is then put back, and the reviewer told to choose "once".
JudgeRestored(a) ==
    LET q == op[a].req IN
    /\ At(a, "judge")
    /\ op[a].word = "repeat" /\ rec[q].exec # None /\ CanStillBeGranted(rec[q])
    /\ Rename({q}, "scratch", "pending")
    /\ op' = [b \in Actors |->
                IF b = a THEN Idle
                ELSE IF At(b, "scan") /\ op[b].req = q
                THEN [op[b] EXCEPT !.word = "restored"] ELSE op[b]]
    /\ Release(a)
    /\ UNCHANGED <<rec, gens, disk, world, history>>

\* The outcome is renamed into place ...
Outcome(q, to) ==
    /\ dir' = [dir EXCEPT ![q] = @ \cup {to}]
    /\ kept' = [kept EXCEPT ![q] = @ \cup {k \cup {to} : k \in @}]

\* ... its directory is synced, and the scratch file removed on a best effort.
Settle(q, to) ==
    LET K == Synced(kept, dir, {to}) IN
    \/ UNCHANGED dir /\ kept' = K
    \/ /\ dir' = [dir EXCEPT ![q] = @ \ {"scratch"}]
       /\ kept' = [K EXCEPT ![q] = @ \cup {k \ {"scratch"} : k \in @}]

WriteApproved(a) ==
    LET q == op[a].req IN
    /\ At(a, "approve")
    /\ Outcome(q, "approved")
    /\ rec' = [rec EXCEPT ![q].mint = Current(rec[q].session),
                          ![q].uses = UsesOf(op[a].word),
                          ![q].duration = op[a].word]
    /\ redeemed' = [redeemed EXCEPT ![q] = 0]
    /\ revoked' = revoked \ {q}
    /\ Enter(a, [op[a] EXCEPT !.step = "granted"])
    /\ UNCHANGED <<gens, disk, lock, world, cleared, unread, wasted, returned>>

WriteDenied(a) ==
    /\ At(a, "deny")
    /\ Outcome(op[a].req, "denied")
    /\ Enter(a, [op[a] EXCEPT !.step = "denied"])
    /\ UNCHANGED <<rec, gens, disk, lock, world, history>>

DecisionEnds(a) ==
    /\ \/ At(a, "granted") /\ Settle(op[a].req, "approved")
       \/ At(a, "denied") /\ Settle(op[a].req, "denied")
    /\ Leave(a) /\ Release(a)
    /\ UNCHANGED <<rec, gens, disk, world, history>>

----------------------------------------------------------------------------
\* Retiring a finished execution.  The sweep of its open requests takes no
\* lock and races decisions for the same rename.

\* An execution that never used the store has nothing to retire ("touched").
Touched(e) == \E q \in Requests : rec[q].exec = e

OpenOf(e) == {q \in Requests : "pending" \in dir[q] /\ rec[q].exec = e}

\* A file that cannot be read is passed over, and so is a directory.
BeginSweep(a, e) ==
    \E S \in SUBSET OpenOf(e) :
        Enter(a, [Idle EXCEPT !.step = "sweep", !.subject = e, !.todo = S])

\* Drop for LocalApprovalInvocation: the marker is committed before pending/
\* is listed.
EndInvocation(a, e) ==
    /\ At(a, "idle")
    /\ e \in Locals \ (marked \cup gone) /\ Touched(e)
    /\ marked' = marked \cup {e}
    /\ BeginSweep(a, e)
    /\ UNCHANGED <<files, gens, disk, lock, gone, held, outages, history>>

\* A worker whose task waits for approval leaves its requests open.
WorkerWaits(w) ==
    /\ w \in Workers \ gone /\ Touched(w)
    /\ gone' = gone \cup {w} /\ held' = held \cup {w}
    /\ UNCHANGED <<files, gens, disk, lock, op, marked, outages, history>>

\* Any other worker that ended is torn down by the task that supervised it.
WorkerEnds(a, w) ==
    /\ At(a, "idle")
    /\ w \in Workers \ gone /\ Touched(w)
    /\ gone' = gone \cup {w}
    /\ BeginSweep(a, w)
    /\ UNCHANGED <<files, gens, disk, lock, marked, held, outages, history>>

GrantsOf(e) == {q \in Requests : "approved" \in dir[q] /\ rec[q].exec = e}

SweepListed(a, q) ==
    /\ At(a, "sweep") /\ q \in op[a].todo
    /\ Rename({q}, "pending", "scratch")
    /\ Enter(a, [op[a] EXCEPT !.step = "refuse", !.req = q, !.todo = @ \ {q}])
    /\ UNCHANGED <<rec, gens, disk, lock, world, history>>

\* A request that somebody else claimed meanwhile is theirs.
SweepOne(a, q) ==
    IF "pending" \in dir[q] THEN SweepListed(a, q)
    ELSE /\ At(a, "sweep") /\ q \in op[a].todo
         /\ Enter(a, [op[a] EXCEPT !.todo = @ \ {q}])
         /\ UNCHANGED <<files, gens, disk, lock, world, history>>

WriteRefused(a) ==
    /\ At(a, "refuse")
    /\ Outcome(op[a].req, "denied")
    /\ Enter(a, [op[a] EXCEPT !.step = "refused"])
    /\ UNCHANGED <<rec, gens, disk, lock, world, history>>

RefusalEnds(a) ==
    /\ At(a, "refused")
    /\ Settle(op[a].req, "denied")
    /\ Enter(a, [op[a] EXCEPT !.step = "sweep", !.req = None])
    /\ UNCHANGED <<rec, gens, disk, lock, world, history>>

\* A worker's session is revoked next (below), an invocation's grants are
\* consumed under the lock.
RevokeNext(a) ==
    Enter(a, [Idle EXCEPT !.step = "revoke", !.word = "session",
                          !.subject = SessionOf[op[a].subject]])

SweepEnds(a) ==
    /\ At(a, "sweep") /\ op[a].todo = {}
    /\ IF op[a].subject \in Locals
       THEN Enter(a, [op[a] EXCEPT !.step = "grants"])
       ELSE RevokeNext(a)
    /\ UNCHANGED <<files, gens, disk, lock, world, history>>

\* The teardown of a worker goes on after a sweep that failed.
SweepFails(a) ==
    /\ (At(a, "sweep") /\ op[a].todo # {}) \/ At(a, "refuse") \/ At(a, "refused")
    /\ op[a].subject \in Workers
    /\ RevokeNext(a)
    /\ UNCHANGED <<files, gens, disk, lock, world, history>>

\* Each rename is synced before the next; a grant that cannot be read is passed
\* over; an error or a death ends it half-way.
ConsumeGrants(a) ==
    LET e == op[a].subject IN
    /\ At(a, "grants") /\ lock = None
    /\ \E S \in SUBSET GrantsOf(e) :
          \/ /\ Rename(S, "approved", "consumed")
             /\ UNCHANGED <<cleared, unread>>
          \/ /\ IF S = {} THEN UNCHANGED <<dir, kept>> ELSE RenameAndSync(S)
             /\ cleared' = cleared \cup {e}
             /\ unread' = unread \cup (GrantsOf(e) \ S)
    /\ Leave(a)
    /\ UNCHANGED <<rec, gens, disk, lock, world, redeemed, revoked,
                   wasted, returned>>

----------------------------------------------------------------------------
\* Revocation, under the lock: the file is replaced, then its directory is
\* synced, and only then is the revocation acknowledged.

StoreGenerations(a, word, s) ==
    /\ Fits(Raised(word, s))
    /\ Acquire(a)
    /\ gens' = Raised(word, s)
    /\ Enter(a, [Idle EXCEPT !.step = "sync", !.subject = s, !.word = word])
    /\ UNCHANGED <<files, disk, world, history>>

Revoke(a, word, s) == At(a, "idle") /\ StoreGenerations(a, word, s)

RevokeAfterSweep(a) ==
    At(a, "revoke") /\ StoreGenerations(a, op[a].word, op[a].subject)

\* checked_add: an exhausted counter refuses the revocation.
RevokeExhausted(a) ==
    /\ At(a, "revoke") /\ lock = None
    /\ ~Fits(Raised(op[a].word, op[a].subject))
    /\ Leave(a)
    /\ UNCHANGED <<files, gens, disk, lock, world, history>>

\* The revocation of session s, or of its owner, covers session t.
Covers(word, s, t) == word = "owner" \/ s = t

SyncGenerations(a) ==
    /\ At(a, "sync")
    /\ disk' = gens
    /\ revoked' = revoked \cup
           {q \in Requests : /\ rec[q].duration # "none"
                             /\ Covers(op[a].word, op[a].subject, rec[q].session)}
    /\ Leave(a) /\ Release(a)
    /\ UNCHANGED <<files, gens, world, redeemed, cleared, unread, wasted,
                   returned>>

----------------------------------------------------------------------------
\* Spending, under the lock.

LoadGrant(a, q, e) ==
    /\ At(a, "idle")
    /\ Redeemable(q, e)
    /\ Enter(a, [Idle EXCEPT !.step = "spend", !.req = q, !.uses = rec[q].uses])
    /\ UNCHANGED <<files, gens, disk, world, history>>

FindGrantUnlocked(a, q, e) == LoadGrant(a, q, e) /\ UNCHANGED lock

FindGrant(a, q, e) == LoadGrant(a, q, e) /\ Acquire(a)

Report(q) == redeemed' = [redeemed EXCEPT ![q] = @ + 1] /\ UNCHANGED wasted

\* The last use retires the grant.  An error or the death of the caller can cut
\* the operation short after the rename, before the sync or the report.
SpendLast(q) ==
    /\ UNCHANGED rec
    /\ IF "approved" \in dir[q]
       THEN \/ RenameAndSync({q}) /\ Report(q)
            \/ /\ Rename({q}, "approved", "consumed")
               /\ wasted' = wasted \cup {q} /\ UNCHANGED redeemed
       ELSE UNCHANGED <<dir, kept, redeemed, wasted>>

SpendOne(q, left) ==
    /\ rec' = [rec EXCEPT ![q].uses = left]
    /\ \/ Outcome(q, "approved") /\ UNCHANGED <<redeemed, wasted>>
       \/ /\ dir' = [dir EXCEPT ![q] = @ \cup {"approved"}]
          /\ kept' = Synced(kept, dir', {"approved"})
          /\ Report(q)

\* A boundary that always asks retires the grant with its first use.
Spend(a) ==
    /\ At(a, "spend")
    /\ \E left \in {0, op[a].uses - 1} :
         IF left = 0 THEN SpendLast(op[a].req) ELSE SpendOne(op[a].req, left)
    /\ Leave(a) /\ Release(a)
    /\ UNCHANGED <<gens, disk, world, revoked, cleared, unread, returned>>

\* An App launch spends one grant for each capability it lacks, whatever
\* their durations, or none.
ListSet(a, S) ==
    /\ At(a, "idle")
    /\ S # {} /\ \A q \in S : Redeemable(q, None)
    /\ \A p, q \in S : rec[p].session = rec[q].session
    /\ Enter(a, [Idle EXCEPT !.step = "set", !.todo = S])
    /\ UNCHANGED <<files, gens, disk, world, history>>

FindSetUnlocked(a, S) == ListSet(a, S) /\ UNCHANGED lock

FindSet(a, S) == ListSet(a, S) /\ Acquire(a)

MoveOne(a, q) ==
    /\ At(a, "set") /\ q \in op[a].todo /\ "approved" \in dir[q]
    /\ Rename({q}, "approved", "consumed")
    /\ Enter(a, [op[a] EXCEPT !.todo = @ \ {q}, !.done = @ \cup {q}])
    /\ UNCHANGED <<rec, gens, disk, lock, world, history>>

\* A rename fails: those already made are undone, one by one.
MoveFails(a) ==
    /\ At(a, "set") /\ op[a].todo # {}
    /\ Enter(a, [op[a] EXCEPT !.step = "undo", !.todo = {}])
    /\ UNCHANGED <<files, gens, disk, lock, world, history>>

RollBackNothing(a, q) ==
    /\ At(a, "undo") /\ q \in op[a].done
    /\ Enter(a, [op[a] EXCEPT !.done = @ \ {q}])
    /\ UNCHANGED <<files, gens, disk, lock, world, history>>

\* The failure of a rename back is ignored.
RollBack(a, q) ==
    /\ At(a, "undo") /\ q \in op[a].done
    /\ \/ Rename({q}, "consumed", "approved") /\ UNCHANGED wasted
       \/ wasted' = wasted \cup {q} /\ UNCHANGED <<dir, kept>>
    /\ Enter(a, [op[a] EXCEPT !.done = @ \ {q}])
    /\ UNCHANGED <<rec, gens, disk, lock, world, redeemed, revoked, cleared,
                   unread, returned>>

SyncSet(a) ==
    /\ kept' = Synced(kept, dir, Both)
    /\ Leave(a) /\ Release(a)
    /\ UNCHANGED <<dir, rec, gens, disk, world>>

SetIsRolledBack(a) ==
    /\ At(a, "undo") /\ op[a].done = {}
    /\ SyncSet(a) /\ UNCHANGED history

SetIsSpent(a) ==
    /\ At(a, "set") /\ op[a].todo = {}
    /\ redeemed' = [q \in Requests |-> redeemed[q] + (IF q \in op[a].done THEN 1 ELSE 0)]
    /\ SyncSet(a)
    /\ UNCHANGED <<revoked, cleared, unread, wasted, returned>>

----------------------------------------------------------------------------
\* Reading a status looks into the directories one after the other.  An id is
\* known to nobody before its request is filed.  A reader's word is history:
\* what misled it, a request put back or a file it could not read.

BeginScan(a, q) ==
    /\ At(a, "idle") /\ dir[q] # {}
    /\ Cardinality({b \in Actors : At(b, "scan")}) < MaxReaders
    /\ Enter(a, [Idle EXCEPT !.step = "scan", !.req = q, !.at = 1])
    /\ UNCHANGED <<files, gens, disk, lock, world, history>>

FoundAt(o) == ScanOrder[o.at] \in dir[o.req]
FindsNothing(a) == At(a, "scan") /\ op[a].at > Len(ScanOrder)

\* A file that is there and cannot be read, for whatever reason, is passed over.
ScanOne(a) ==
    /\ At(a, "scan") /\ ~FindsNothing(a)
    /\ \/ FoundAt(op[a]) /\ Leave(a)
       \/ Enter(a, [op[a] EXCEPT !.at = @ + 1,
                                 !.word = IF FoundAt(op[a]) THEN "unread" ELSE @])
    /\ UNCHANGED <<files, gens, disk, lock, world, history>>

AnswerUnknown(a) ==
    /\ FindsNothing(a)
    /\ Leave(a)
    /\ UNCHANGED <<files, gens, disk, lock, world, history>>

----------------------------------------------------------------------------
\* What actors A were about to file does not exist.
Unfiled(A) ==
    [q \in Requests |->
        IF \E a \in A : At(a, "submit") /\ op[a].req = q THEN NoRecord ELSE rec[q]]

\* What they have moved of a set stays moved.
Taken(A) == UNION {op[a].done : a \in A}

\* The death of a process, or an I/O error that ends its operation, frees
\* the lock and leaves the files as they are.
CutShort(a) ==
    /\ op[a].step \notin {"idle"} \cup Uncut
    /\ Leave(a) /\ Release(a)
    /\ rec' = Unfiled({a})
    /\ wasted' = wasted \cup Taken({a})
    /\ UNCHANGED <<dir, kept, gens, disk, world, redeemed, revoked, cleared,
                   unread, returned>>

\* The files of a request are found in other places than before.  A leftover in
\* scratch/ beside an answer is nothing new.
Displaced(f) ==
    {q \in Requests : /\ f[q] # dir[q]
                      /\ \/ f[q] \ {"scratch"} # dir[q] \ {"scratch"}
                         \/ "pending" \in f[q]}

\* The executions that filed anything end; the queue's recovery lets some of
\* their tasks wait.  A file that comes back has its latest contents.
PowerLoss ==
    /\ \A a \in Actors : op[a].step \notin Uncut
    /\ outages < MaxOutages /\ outages' = outages + 1
    /\ gens' = disk
    /\ dir' \in [Requests -> UNION {kept[q] : q \in Requests}]
    /\ \A q \in Requests : dir'[q] \in kept[q]
    /\ kept' = [q \in Requests |-> {dir'[q]}]
    /\ op' = [a \in Actors |-> Idle] /\ lock' = None
    /\ LET ended == {rec[q].exec : q \in Requests} \ {None} IN
       /\ gone' = gone \cup ended
       /\ \E W \in SUBSET ((ended \cap Workers) \ gone) : held' = held \cup W
    /\ rec' = Unfiled(Actors)
    /\ wasted' = wasted \cup Taken(Actors)
    /\ returned' = returned \cup Displaced(dir')
    /\ UNCHANGED <<disk, marked, redeemed, revoked, cleared, unread>>

FilingStep(a) ==
    \/ \E q \in Requests, e \in Executions \cup {None}, s \in Sessions :
         Submit(a, q, e, s)
    \/ WritePending(a)

DecisionStep(a) ==
    \/ \E q \in Requests, word \in {"deny", "once", "repeat"} : Claim(a, q, word)
    \/ JudgeDenied(a) \/ JudgeApproved(a) \/ JudgeRestored(a)
    \/ WriteApproved(a) \/ WriteDenied(a) \/ DecisionEnds(a)

RetirementStep(a) ==
    \/ \E e \in Locals : EndInvocation(a, e)
    \/ \E w \in Workers : WorkerEnds(a, w)
    \/ \E q \in Requests : SweepOne(a, q)
    \/ WriteRefused(a) \/ RefusalEnds(a) \/ SweepEnds(a) \/ SweepFails(a)
    \/ ConsumeGrants(a)

RevocationStep(a) ==
    \/ \E word \in {"owner", "session"}, s \in Sessions : Revoke(a, word, s)
    \/ RevokeAfterSweep(a) \/ RevokeExhausted(a) \/ SyncGenerations(a)

SpendingStep(a) ==
    \/ \E q \in Requests, e \in Executions \cup {None} : FindGrant(a, q, e)
    \/ Spend(a)
    \/ \E S \in SUBSET Requests : FindSet(a, S)
    \/ \E q \in Requests : MoveOne(a, q) \/ RollBack(a, q)
    \/ MoveFails(a) \/ SetIsRolledBack(a) \/ SetIsSpent(a)

ReadingStep(a) ==
    ScanOne(a) \/ AnswerUnknown(a) \/ \E q \in Scanned : BeginScan(a, q)

Next ==
    \/ \E a \in Actors :
        \/ FilingStep(a) \/ DecisionStep(a) \/ RetirementStep(a)
        \/ RevocationStep(a) \/ SpendingStep(a) \/ ReadingStep(a)
        \/ CutShort(a)
    \/ \E w \in Workers : WorkerWaits(w)
    \/ PowerLoss

Spec == Init /\ [][Next]_vars

----------------------------------------------------------------------------
(***************************************************************************)
(* Properties.                                                             *)
(***************************************************************************)
Operations ==
    [step : Steps, req : Requests \cup {None},
     subject : Executions \cup Sessions \cup {None},
     word : {"none", "deny", "once", "repeat", "owner", "session", "restored", "unread"},
     at : 0 .. Len(ScanOrder) + 1, uses : 0 .. RepeatableUses,
     todo : SUBSET Requests, done : SUBSET Requests]

Records ==
    [exec : Executions \cup {None}, session : Sessions \cup {None},
     stamp : Nat, mint : Nat, uses : 0 .. RepeatableUses,
     duration : {"none", "once", "repeat"}]

\* Every variable keeps its type, and whoever is at a step that the code
\* runs under the store lock holds it.
ApprovalsTypeOK ==
    /\ dir \in [Requests -> SUBSET Dirs]
    /\ kept \in [Requests -> SUBSET SUBSET Dirs]
    /\ \A q \in Requests : dir[q] \in kept[q]
    /\ rec \in [Requests -> Records]
    /\ op \in [Actors -> Operations]
    /\ Fits(gens) /\ Fits(disk)
    /\ lock \in Actors \cup {None}
    /\ \A a \in Actors : op[a].step \in Locked <=> lock = a
    /\ outages \in 0 .. MaxOutages
    /\ marked \subseteq Locals /\ gone \subseteq Executions /\ held \subseteq Workers
    /\ redeemed \in [Requests -> Nat]

\* A request is in one place: reviewers, sweeps and spenders that race for
\* its file never leave it both open and decided, both granted and refused
\* or both spendable and spent, wherever they died.  Only a leftover in
\* scratch/ may stand beside a decision, and only a power loss can put a
\* request elsewhere: it may undo the rename that took the question out of
\* pending/, which no decision syncs.  No death and no power loss leaves a
\* request that was filed without a file.
OnePlace ==
    \A q \in Requests :
        /\ q \notin returned =>
              /\ \A d, e \in dir[q] \ {"scratch"} : d = e
              /\ "pending" \in dir[q] => "scratch" \notin dir[q]
        /\ dir[q] = {} =>
              rec[q] = NoRecord \/ \E a \in Actors : At(a, "submit") /\ op[a].req = q

\* Consent is never stretched: the uses reported of a grant and those its
\* record still holds never exceed what the reviewer chose, also where a
\* power loss undoes renames or brings back a question, which a reviewer may
\* then answer with a new consent.
BudgetRespected ==
    \A q \in Requests :
        redeemed[q] + (IF "approved" \in dir[q] THEN rec[q].uses ELSE 0)
            <= UsesOf(rec[q].duration)

\* A grant that an acknowledged revocation covered is dead for good: nobody
\* can redeem it, or is about to, whatever later revocations, decisions and
\* restarts do to the generations.
RevokedStaysDead ==
    \A q \in revoked :
        /\ \A e \in Executions \cup {None} : ~Redeemable(q, e)
        /\ \A a \in Actors : At(a, "spend") => op[a].req # q

\* Once an invocation has been retired no record in approved/ carries it:
\* not one decided while it was being retired, nor one decided later; only
\* one that the retirement could not read, or that a power loss put back.
RetiredHoldsNoGrant ==
    \A e \in cleared : GrantsOf(e) \subseteq unread \cup returned

\* Consent is not used up for nothing: a grant in consumed/ had a use that its
\* caller learnt of, or its invocation is over, or it belongs to a set that is
\* being spent.  A launch that fails puts the grants it took back.  The
\* exceptions are named: its caller died, or got an error, between the rename
\* and the report; or the launch died between two renames, or a rename back
\* failed ("wasted"); or a power loss undid renames.
NoConsentIsWasted ==
    \A q \in Requests : "consumed" \in dir[q] =>
        \/ redeemed[q] > 0
        \/ rec[q].exec \in marked
        \/ \E a \in Actors : q \in op[a].done
        \/ q \in wasted \cup returned

\* A lookup that finds nothing answers Unknown, which fails the task that waits.
\* It can miss a file that moves, but a request nobody has decided only if a
\* reviewer put it back while the lookup went on, or a file could not be read.
UnknownMeansDecided ==
    \A a \in Actors :
        FindsNothing(a) =>
            \/ dir[op[a].req] \cap {"approved", "denied", "consumed"} # {}
            \/ op[a].word \in {"restored", "unread"}

\* The status of each request as the contract sees it.  A set that is being
\* spent is still approved: a failure puts it back.
Standing ==
    [q \in Requests |->
        IF q \in returned THEN "unsettled"
        ELSE IF "denied" \in dir[q] THEN "denied"
        ELSE IF \E a \in Actors : q \in op[a].done THEN "approved"
        ELSE IF "consumed" \in dir[q] THEN "consumed"
        ELSE IF "approved" \in dir[q] THEN "approved"
        ELSE IF dir[q] # {} THEN "pending"
        ELSE "unknown"]

Contract == INSTANCE ConsentContract WITH standing <- Standing

\* The files implement the contract: one filing, one answer, and what was
\* refused or used up stays so, until a power loss unsettles it.
KeepsConsentContract == Contract!ConsentSpec
=============================================================================
