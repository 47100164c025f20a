--------------------------- MODULE SessionJournal ---------------------------
(***************************************************************************)
(* One partition of the session event journal (core/src/session/journal/)  *)
(* and the bracket that the broker puts around a durable mutation          *)
(* (core/src/clawd/journal.rs): the chain of records, the head anchor that *)
(* says how much of it is committed, rotation and its retention records,   *)
(* the closure reserve, the recovery of a new daemon, and the refusal to   *)
(* run a mutation again while the outcome of an earlier run is unknown.    *)
(*                                                                         *)
(* A process can die, and the power can fail, between any two steps; a     *)
(* write can fail half-way.  An append and a rotation hold the partition   *)
(* lock from the load of the head to its commit, so each is one step whose *)
(* failures leave on disk what a death in its middle would leave there.    *)
(* Reading the head outside the lock is a step of its own.                 *)
(*                                                                         *)
(* Bytes are counted in records; record contents, MACs, keys and clocks    *)
(* are left out, and a reader takes the committed records as they are.     *)
(***************************************************************************)
EXTENDS Naturals, Sequences, FiniteSets

CONSTANTS
    Operations,      \* operation ids
    Identities,      \* route and request key of a mutation, as digested
    IdentityOf,      \* the identity each operation is begun under
    Handlers,        \* request handlers of the broker
    None,            \* "no operation"
    MaxEvents,       \* MAX_EVENTS_PER_PARTITION
    MaxControl,      \* MAX_CONTROL_EVENTS
    ClosureRecords,  \* CLOSURE_RECORDS_PER_BRACKET
    Headroom,        \* RECOVERY_HEADROOM
    RotateAt,        \* ROTATE_BYTES
    MaxRestarts,     \* bound: restarts of the daemon
    MaxFaults        \* bound: appends and rotations that meet an I/O error

ASSUME JournalNames == None \notin Operations /\ IdentityOf \in [Operations -> Identities]
ASSUME JournalLimits ==
    {MaxEvents, MaxControl, ClosureRecords, Headroom, RotateAt, MaxRestarts, MaxFaults}
        \subseteq Nat
\* A bracket reserves room for a flag and an end at least, and an empty chain has
\* room for the headroom.
ASSUME JournalReserve == ClosureRecords >= 2 /\ Headroom <= MaxEvents

VARIABLES
    log,         \* committed records, as a reader sees them
    head,        \* the head anchor, as a reader sees it
    durable,     \* what a power loss would leave of both
    tail,        \* bytes past the committed end of the active segment
    stray,       \* whether a segment past the active one holds bytes
    phase,       \* of the daemon; "blind" when it serves without a startup pass
    quarantined, \* whether this daemon refuses the partition
    unresolved,  \* identities this daemon refuses to run again
    recovery,    \* brackets the startup pass found, and has still to flag
    at,          \* where each handler is
    restarts, faults,
    acked,       \* history: records acknowledged to a caller
    dispatched,  \* history: operations whose effect was begun
    overlapped   \* history: operations in flight beside one of their identity

disk == <<log, head, durable, tail, stray>>
memory == <<phase, quarantined, unresolved, recovery>>
history == <<acked, dispatched, overlapped>>
journalVars == <<disk, memory, at, restarts, faults, history>>

\* "settled" stands for MutationCommitted and MutationFailed, "note" for every
\* record that is not about a bracket.
Resolving == {"settled", "resolved"}
Flagging == {"indeterminate", "orphaned"}
ClosureOrNote == Resolving \cup Flagging \cup {"scanned", "retention", "note"}
Closure == Resolving \cup Flagging \cup {"scanned", "retention"}
Kinds == Closure \cup {"started", "note"}

Event(k, o) == [kind |-> k, op |-> o, cut |-> 0]
Retention(n) == [kind |-> "retention", op |-> None, cut |-> n]

\* first: records in the segments before the active one.  pending: the segment
\* whose retention record is still owed, or 0.
EmptyHead == [made |-> FALSE, index |-> 1, first |-> 0, open |-> 0, pending |-> 0]

Idle == [step |-> "idle", event |-> Event("note", None), owed |-> 0]

JournalInit ==
    /\ log = <<>> /\ head = EmptyHead /\ tail = "none" /\ stray = FALSE
    /\ durable = [head |-> EmptyHead, seq |-> 0]
    /\ phase = "starting" /\ quarantined = FALSE /\ unresolved = {}
    /\ recovery = [found |-> {}, todo |-> {}]
    /\ at = [h \in Handlers |-> Idle]
    /\ restarts = 0 /\ faults = 0 /\ acked = 0 /\ dispatched = {}
    /\ overlapped = {}

----------------------------------------------------------------------------
\* The chain

Told(o, K, n) == \E i \in 1..n : log[i].op = o /\ log[i].kind \in K
OpenEverBegun(n) == {o \in Operations : Told(o, {"started"}, n)}
Open(n) == {o \in Operations : Told(o, {"started"}, n) /\ ~Told(o, Resolving, n)}
OpenNow == Open(Len(log))
Control == Cardinality({i \in 1..Len(log) : log[i].kind \notin Closure})

\* Chain bytes without a head are damage, and so is a segment past the active.
HeadMissing == ~head.made /\ (tail # "none" \/ stray)
Damaged == HeadMissing \/ stray

Reserve(e) ==
    (head.open + IF e.kind = "started" THEN 1 ELSE 0) * ClosureRecords + Headroom
HasRoom(e) ==
    /\ Len(log) < MaxEvents
    /\ e.kind \notin Closure => /\ Control < MaxControl
                                /\ Len(log) + 1 + Reserve(e) <= MaxEvents

CountedUnsaturated(e) ==
    CASE e.kind = "started" -> head.open + 1
      [] e.kind \in Resolving -> head.open - 1
      [] OTHER -> head.open
Counted(e) ==
    CASE e.kind = "started" -> head.open + 1
      [] e.kind \in Resolving /\ head.open > 0 -> head.open - 1
      [] OTHER -> head.open
ClearedByAny(e) == 0
\* The marker is cleared by any retention record written to the segment that
\* the pending rotation began.
Cleared(e) == IF e.kind = "retention" THEN 0 ELSE head.pending

Extend(e) ==
    /\ log' = Append(log, e)
    /\ head' = [head EXCEPT !.made = TRUE, !.open = Counted(e), !.pending = Cleared(e)]
    /\ tail' = "none"
    /\ UNCHANGED stray

SyncOfTheFileOnly == UNCHANGED durable
Sync == durable' = [head |-> head', seq |-> Len(log')]

Stored(e) ==
    /\ ~HeadMissing /\ HasRoom(e)
    /\ Extend(e) /\ Sync
    /\ acked' = Len(log')
    /\ UNCHANGED faults

Fault == faults < MaxFaults /\ faults' = faults + 1

\* Refused for the head, the quota or the rate; or the line or the head is not
\* written; or the head is renamed into place and the directory not synced.
NotStored(e) ==
    /\ UNCHANGED acked
    /\ \/ /\ HeadMissing \/ ~HasRoom(e) \/ e.kind \notin Closure
          /\ UNCHANGED <<disk, faults>>
       \/ Fault /\ UNCHANGED disk
       \/ /\ Fault /\ ~HeadMissing /\ HasRoom(e)
          /\ tail' \in {"torn", "line"}
          /\ UNCHANGED <<log, head, durable, stray>>
       \/ /\ Fault /\ ~HeadMissing /\ HasRoom(e)
          /\ Extend(e)
          /\ UNCHANGED durable

----------------------------------------------------------------------------
\* A handler: record one event, after the maintenance that is due

Become(h, s, e, n) == at' = [at EXCEPT ![h] = [step |-> s, event |-> e, owed |-> n]]
EventOf(h) == at[h].event
IdentityAt(h) == IdentityOf[EventOf(h).op]
Owe(h, s, n) == Become(h, s, EventOf(h), n)
Enter(h, s) == Owe(h, s, 0)
Turn(h, s, e) == Become(h, s, e, 0)
Leave(h) == at' = [at EXCEPT ![h] = Idle]

\* The record could not be written.
GiveUp(h) ==
    IF EventOf(h).kind = "settled"
    THEN /\ unresolved' = unresolved \cup {IdentityAt(h)}
         /\ Turn(h, "admit", Event("indeterminate", EventOf(h).op))
    ELSE Leave(h) /\ UNCHANGED unresolved

\* Failed maintenance stands in the way of everything but a closure.
SkipMaintenance(h) ==
    IF EventOf(h).kind \in Closure
    THEN Enter(h, "append") /\ UNCHANGED unresolved
    ELSE GiveUp(h)

Lasting == UNCHANGED <<phase, quarantined, recovery, restarts, dispatched>>
Steady == Lasting /\ UNCHANGED overlapped

Admit(h) ==
    /\ at[h].step = "admit"
    /\ IF quarantined THEN GiveUp(h)
       ELSE IF HeadMissing THEN SkipMaintenance(h)
       ELSE /\ UNCHANGED unresolved
            /\ IF head.pending # 0
               THEN Owe(h, "retain", head.pending)
               ELSE Enter(h, "measure")
    /\ Steady /\ UNCHANGED <<disk, faults, acked>>

Retain(h) ==
    /\ at[h].step = "retain"
    /\ \/ Stored(Retention(at[h].owed)) /\ Enter(h, "measure") /\ UNCHANGED unresolved
       \/ NotStored(Retention(at[h].owed)) /\ SkipMaintenance(h)
    /\ Steady

Measure(h) ==
    /\ at[h].step = "measure"
    /\ Enter(h, IF Len(log) - head.first < RotateAt THEN "append" ELSE "rotate")
    /\ Steady /\ UNCHANGED <<disk, unresolved, faults, acked>>

\* Bytes that were left in the next segment are past its committed end.
Cut ==
    /\ head' = [head EXCEPT !.index = @ + 1, !.first = Len(log), !.pending = head.index]
    /\ tail' = IF stray THEN "line" ELSE "none"
    /\ stray' = FALSE
    /\ UNCHANGED log

Rotate(h) ==
    /\ at[h].step = "rotate"
    /\ \/ /\ head.pending # 0
          /\ Owe(h, "archive", head.pending)
          /\ UNCHANGED <<disk, unresolved, faults>>
       \/ /\ head.pending = 0 /\ Len(log) = head.first
          /\ Enter(h, "append") /\ UNCHANGED <<disk, unresolved, faults>>
       \/ /\ head.pending = 0 /\ Len(log) > head.first
          /\ Cut /\ Sync
          /\ Owe(h, "archive", head.index)
          /\ UNCHANGED <<unresolved, faults>>
       \/ /\ head.pending = 0 /\ Len(log) > head.first
          /\ Fault
          /\ UNCHANGED disk \/ (Cut /\ UNCHANGED durable)
          /\ SkipMaintenance(h)
    /\ Steady /\ UNCHANGED acked

Archive(h) ==
    /\ at[h].step = "archive"
    /\ \/ Stored(Retention(at[h].owed)) /\ Enter(h, "append") /\ UNCHANGED unresolved
       \/ NotStored(Retention(at[h].owed)) /\ SkipMaintenance(h)
    /\ Steady

AppendEvent(h) ==
    /\ at[h].step = "append"
    /\ \/ /\ Stored(EventOf(h))
          /\ IF EventOf(h).kind = "started"
             THEN Enter(h, "begun") /\ UNCHANGED unresolved
             ELSE /\ Leave(h)
                  /\ unresolved' = IF EventOf(h).kind \in Resolving
                                   THEN unresolved \ {IdentityAt(h)} ELSE unresolved
       \/ NotStored(EventOf(h)) /\ GiveUp(h)
    /\ Steady

----------------------------------------------------------------------------
\* The bracket around a mutation, an operator's resolution, other records

Fresh(o) ==
    /\ o \notin dispatched /\ ~Told(o, Kinds, Len(log))
    /\ \A h \in Handlers : EventOf(h).op # o

Arrive(h, e) ==
    /\ phase \in {"serving", "blind"} /\ at[h].step = "idle"
    /\ Turn(h, "admit", e)
    /\ Lasting /\ UNCHANGED <<disk, unresolved, faults, acked>>

\* Operations of the identity of o that are in flight.
Beside(o) ==
    {p \in Operations : /\ IdentityOf[p] = IdentityOf[o]
                        /\ \E g \in Handlers : EventOf(g).op = p
                                               /\ EventOf(g).kind # "resolved"}

OverlappedBy(o) ==
    IF Beside(o) = {} THEN overlapped \ {o} ELSE overlapped \cup Beside(o) \cup {o}

\* Only outcomes that are known to be unknown are looked at: the requests of one
\* identity that are in flight do not see each other.
Begin(h, o) ==
    /\ Fresh(o)
    /\ IdentityOf[o] \notin unresolved
    /\ Arrive(h, Event("started", o))
    /\ overlapped' = OverlappedBy(o)

Resolve(h, o) ==
    /\ ~Damaged /\ o \in OpenNow
    /\ Arrive(h, Event("resolved", o)) /\ UNCHANGED overlapped

Note(h) == Arrive(h, Event("note", None)) /\ UNCHANGED overlapped

Dispatch(h) ==
    /\ at[h].step = "begun"
    /\ Enter(h, "running")
    /\ dispatched' = dispatched \cup {EventOf(h).op}
    /\ UNCHANGED <<disk, memory, restarts, faults, acked, overlapped>>

Return(h) ==
    /\ at[h].step = "running"
    /\ \E k \in {"settled", "indeterminate"} :
          /\ Turn(h, "admit", Event(k, EventOf(h).op))
          /\ unresolved' = IF k = "indeterminate" THEN unresolved \cup {IdentityAt(h)}
                           ELSE unresolved
    /\ Steady /\ UNCHANGED <<disk, faults, acked>>

Handle(h) ==
    \/ Admit(h) \/ Retain(h) \/ Measure(h) \/ Rotate(h) \/ Archive(h) \/ AppendEvent(h)
    \/ Dispatch(h) \/ Return(h) \/ Note(h)
    \/ \E o \in Operations : Begin(h, o) \/ Resolve(h, o)

----------------------------------------------------------------------------
\* The startup pass of a new daemon

Absent == ~head.made /\ tail = "none" /\ ~stray

Serve(p, refused, S) ==
    /\ phase' = p /\ quarantined' = refused /\ unresolved' = S
    /\ recovery' = [found |-> {}, todo |-> {}]

Working == UNCHANGED <<at, restarts, dispatched, overlapped>>

Unflagged == {o \in OpenNow : ~Told(o, Flagging, Len(log))}
FoundUnflagged == Unflagged
Found == OpenNow

Scan ==
    /\ phase = "starting"
    /\ IF Absent THEN Serve("serving", FALSE, {})
       ELSE IF Damaged THEN Serve("serving", TRUE, {})
       ELSE /\ phase' = "flagging"
            /\ recovery' = [found |-> Found, todo |-> Unflagged]
            /\ UNCHANGED <<quarantined, unresolved>>
    /\ Working /\ UNCHANGED <<disk, faults, acked>>

\* The partitions cannot be listed, or the lease is not to be had: an alarm is
\* raised and the daemon serves.
ScanFails ==
    /\ phase = "starting" /\ ~Absent
    /\ Serve("blind", FALSE, {})
    /\ Working /\ UNCHANGED <<disk, faults, acked>>

Flag(o) ==
    /\ phase = "flagging" /\ o \in recovery.todo
    /\ \/ /\ Stored(Event("orphaned", o))
          /\ recovery' = [recovery EXCEPT !.todo = @ \ {o}]
          /\ UNCHANGED <<phase, quarantined, unresolved>>
       \/ NotStored(Event("orphaned", o)) /\ Serve("serving", TRUE, {})
    /\ Working

RecordScan ==
    /\ phase = "flagging" /\ recovery.todo = {}
    /\ \/ /\ Stored(Event("scanned", None))
          /\ Serve("serving", FALSE, {IdentityOf[o] : o \in recovery.found})
       \/ NotStored(Event("scanned", None)) /\ Serve("serving", TRUE, {})
    /\ Working

Recover == Scan \/ ScanFails \/ RecordScan \/ \E o \in Operations : Flag(o)

----------------------------------------------------------------------------
\* Deaths

Die ==
    /\ restarts < MaxRestarts /\ restarts' = restarts + 1
    /\ phase' = "starting" /\ quarantined' = FALSE /\ unresolved' = {}
    /\ recovery' = [found |-> {}, todo |-> {}]
    /\ at' = [h \in Handlers |-> Idle] /\ overlapped' = {}
    /\ UNCHANGED <<faults, acked, dispatched>>

Crash == Die /\ UNCHANGED disk

\* The head is the last one whose directory was synced.  Lines are synced one
\* by one; only a torn line may be gone.
PowerLoss ==
    /\ Die
    /\ log' = SubSeq(log, 1, durable.seq)
    /\ head' = durable.head
    /\ UNCHANGED durable
    /\ \E kept \in {tail, IF tail = "torn" THEN "none" ELSE tail} :
          LET crossed == head.index # durable.head.index
              here == Len(log) > durable.seq /\ (crossed => head.first > durable.seq)
          IN  /\ stray' = (stray \/ (crossed /\ (Len(log) > head.first \/ kept # "none")))
              /\ tail' = IF here THEN "line" ELSE IF crossed THEN "none" ELSE kept

JournalNext == Recover \/ Crash \/ PowerLoss \/ \E h \in Handlers : Handle(h)

JournalSpec == JournalInit /\ [][JournalNext]_journalVars

----------------------------------------------------------------------------
\* Properties

\* Every variable has its type, and the disk never holds less than a power loss
\* would leave.
JournalTypeOK ==
    /\ log \in Seq([kind : Kinds, op : Operations \cup {None}, cut : Nat])
    /\ head \in [made : BOOLEAN, index : Nat \ {0}, first : Nat, open : Nat, pending : Nat]
    /\ durable.seq \in 0..Len(log)
    /\ tail \in {"none", "torn", "line"} /\ stray \in BOOLEAN
    /\ phase \in {"starting", "flagging", "serving", "blind"} /\ quarantined \in BOOLEAN
    /\ unresolved \subseteq Identities
    /\ recovery \in [found : SUBSET Operations, todo : SUBSET Operations]
    /\ at \in [Handlers -> [step : {"idle", "admit", "retain", "measure", "rotate",
                                    "archive", "append", "begun", "running"},
                            event : [kind : Kinds, op : Operations \cup {None}, cut : Nat],
                            owed : Nat]]
    /\ restarts \in 0..MaxRestarts /\ faults \in 0..MaxFaults
    /\ acked \in 0..Len(log) /\ dispatched \subseteq Operations
    /\ overlapped \subseteq Operations

Acknowledged == SubSeq(log, 1, IF acked <= Len(log) THEN acked ELSE Len(log))

Ledger == INSTANCE LedgerContract WITH ledger <- Acknowledged, effects <- dispatched

\* No death, power loss or failed write takes back a record that was
\* acknowledged, and no effect begins before its start record was acknowledged.
KeepsLedger == Ledger!LedgerSpec

\* The effect of an operation began, no handler is at it any more, and the
\* chain does not say how it ended.
Unknown(o) ==
    /\ o \in dispatched /\ ~Told(o, Resolving, Len(log))
    /\ \A h \in Handlers : EventOf(h).op # o

\* An operator resolved an operation of the same identity since.
Conceded(o) ==
    \E i, j \in 1..Len(log) :
        /\ i < j /\ log[i].op = o /\ log[i].kind = "started"
        /\ log[j].kind = "resolved" /\ IdentityOf[log[j].op] = IdentityOf[o]

Replays(p, o) ==
    /\ p \in dispatched' \ dispatched
    /\ Unknown(o) /\ IdentityOf[o] = IdentityOf[p]

\* While the outcome of an operation is unknown no other operation of its
\* identity is dispatched, in this life of the daemon or in a later one, until
\* an operator has resolved one of them: server.rs and clawd/journal.rs say so
\* without a condition.
NoBlindReplay ==
    [][\A o, p \in Operations : Replays(p, o) => Conceded(o)]_journalVars

\* A daemon whose startup pass completed keeps that promise, also for operations
\* of earlier lives, through failed writes, rotations and power losses.  One case
\* is excepted, which the code does not refuse: in this life the operation was in
\* flight together with another of its identity.  Neither could find the other's
\* outcome unknown when it asked, and the end of one lifts the refusal that the
\* other left, for every later request of the identity.
RecoveredRefusesReplay ==
    [][\A o, p \in Operations :
          phase = "serving" /\ Replays(p, o)
              => Conceded(o) \/ o \in overlapped]_journalVars

\* What is written from the recovery headroom: scans, retention records, and
\* closures of a bracket whose reserve an earlier resolution released.
HeadroomSpent ==
    Cardinality({i \in 1..Len(log) : log[i].kind \in {"scanned", "retention"}})
    + (ClosureRecords + 1) * Cardinality({i \in 1..Len(log) :
          log[i].op # None /\ Told(log[i].op, Resolving, i - 1)})

\* Every open bracket keeps room for the record that closes it, whoever else
\* writes, as long as the recovery headroom is not overspent.
BracketsStayClosable ==
    HeadroomSpent <= Headroom => Len(log) + Cardinality(OpenNow) <= MaxEvents

\* Recovery flags an operation at most once, and never one whose end is in the
\* chain already.
OrphansAreHonest ==
    \A i \in 1..Len(log) : log[i].kind = "orphaned" =>
        ~Told(log[i].op, Resolving \cup {"orphaned"}, i - 1)

\* A segment that rotation closed has its retention record, or the head still
\* asks for it, through crashes, lost heads and failed writes.  The one
\* way to lose it is a handler that writes the record of an earlier segment a
\* second time, after the next rotation: that clears the newer marker.
Recorded(n) == {i \in 1..Len(log) : log[i].kind = "retention" /\ log[i].cut = n}
ClosedSegmentsAreRecorded ==
    \A n \in 1..(head.index - 1) :
        \/ Recorded(n) # {} \/ head.pending = n
        \/ \E m \in 1..(n - 1) : Cardinality(Recorded(m)) > 1
=============================================================================
