--------------------------- MODULE JournalProofs ----------------------------
(***************************************************************************)
(* Theorems about SessionJournal.tla, for every number of operations,      *)
(* identities, handlers, restarts and failed writes and every limit of the *)
(* quota.  The chain keeps what was acknowledged, an effect begins only    *)
(* after its start record was acknowledged, recovery flags honestly,       *)
(* a daemon whose startup pass completed does not run a mutation again     *)
(* while the outcome of an earlier run of it is unknown, every segment     *)
(* that rotation closed gets its retention record, and every open bracket  *)
(* keeps room for its end.                                                 *)
(*                                                                         *)
(* The last two are about the chain and its head together, and a power     *)
(* loss takes both back to what was synced: their invariants are stated of *)
(* a chain l up to its k-th record under a head H, and kept twice, for the *)
(* chain a reader sees and for the one a power loss would leave.           *)
(***************************************************************************)
EXTENDS SessionJournal, FiniteSetTheorems, TLAPS

Records == [kind : Kinds, op : Operations \cup {None}, cut : Nat]
Heads == [made : BOOLEAN, index : Nat \ {0}, first : Nat, open : Nat, pending : Nat]

\* The chain, its head, what a power loss would leave of them, and the records
\* somebody was told of.  Without a head there are no committed records.
DiskOK ==
    /\ log \in Seq(Records) /\ head \in Heads
    /\ durable \in [head : Heads, seq : Nat]
    /\ tail \in {"none", "torn", "line"} /\ stray \in BOOLEAN
    /\ acked \in Nat /\ acked <= durable.seq /\ durable.seq <= Len(log)
    /\ faults \in 0..MaxFaults
    /\ ~head.made => Len(log) = 0
    /\ ~durable.head.made => durable.seq = 0

\* What was acknowledged stays.
Kept == acked' \in Nat /\ acked <= acked' /\ \A i \in 1..acked : log'[i] = log[i]

-----------------------------------------------------------------------------
\* The chain

LEMMA LimitsAreNatural ==
    /\ MaxFaults \in Nat /\ MaxRestarts \in Nat
  BY JournalLimits

LEMMA EventsAreRecords ==
    ASSUME NEW k \in Kinds, NEW o \in Operations \cup {None}
    PROVE  Event(k, o) \in Records /\ Event(k, o).kind = k /\ Event(k, o).op = o
  BY DEF Event, Records

LEMMA RetentionsAreRecords ==
    ASSUME NEW n \in Nat
    PROVE  Retention(n) \in Records /\ Retention(n).kind = "retention" /\ Retention(n).op = None
  BY DEF Retention, Records, Kinds, Closure

LEMMA Appending ==
    ASSUME log \in Seq(Records), NEW e \in Records, log' = Append(log, e)
    PROVE  /\ log' \in Seq(Records) /\ Len(log') = Len(log) + 1
           /\ \A i \in 1..Len(log) : log'[i] = log[i]
           /\ log'[Len(log')] = e
  OBVIOUS

LEMMA CountedIsNatural ==
    ASSUME DiskOK, NEW e \in Records
    PROVE  Counted(e) \in Nat /\ Cleared(e) \in Nat
<1>1. head.open \in Nat /\ head.pending \in Nat
  BY DEF DiskOK, Heads
<1>2. Cleared(e) \in Nat
  BY <1>1 DEF Cleared
<1>3. CASE e.kind = "started"
  BY <1>1, <1>2, <1>3 DEF Counted
<1>4. CASE e.kind # "started" /\ e.kind \in Resolving /\ head.open > 0
  BY <1>1, <1>2, <1>4 DEF Counted
<1>5. CASE e.kind # "started" /\ ~(e.kind \in Resolving /\ head.open > 0)
  BY <1>1, <1>2, <1>5 DEF Counted
<1> QED
  BY <1>3, <1>4, <1>5

LEMMA Extending ==
    ASSUME DiskOK, NEW e \in Records, Extend(e)
    PROVE  /\ log' = Append(log, e)
           /\ log' \in Seq(Records) /\ Len(log') = Len(log) + 1
           /\ \A i \in 1..Len(log) : log'[i] = log[i]
           /\ head' \in Heads /\ head'.made
           /\ tail' \in {"none", "torn", "line"} /\ stray' \in BOOLEAN
<1>1. Counted(e) \in Nat /\ Cleared(e) \in Nat
  BY CountedIsNatural
<1>2. head' = [head EXCEPT !.made = TRUE, !.open = Counted(e), !.pending = Cleared(e)]
  BY DEF Extend
<1>3. head' \in Heads /\ head'.made
  BY <1>1, <1>2 DEF DiskOK, Heads
<1>4. log' = Append(log, e) /\ log \in Seq(Records)
  BY DEF Extend, DiskOK
<1>5. tail' \in {"none", "torn", "line"} /\ stray' \in BOOLEAN
  BY DEF Extend, DiskOK
<1> QED
  BY <1>3, <1>4, <1>5, Appending

LEMMA StoredKeepsDisk ==
    ASSUME DiskOK, NEW e \in Records, Stored(e)
    PROVE  DiskOK' /\ Kept /\ log' = Append(log, e) /\ acked' = Len(log')
<1>1. /\ log' = Append(log, e) /\ log' \in Seq(Records) /\ Len(log') = Len(log) + 1
      /\ \A i \in 1..Len(log) : log'[i] = log[i]
      /\ head' \in Heads /\ head'.made
      /\ tail' \in {"none", "torn", "line"} /\ stray' \in BOOLEAN
  BY Extending DEF Stored
<1>2. durable' = [head |-> head', seq |-> Len(log')] /\ acked' = Len(log') /\ faults' = faults
  BY DEF Stored, Sync
<1>3. Len(log) \in Nat /\ acked \in Nat /\ acked <= Len(log) /\ faults \in 0..MaxFaults
  BY DEF DiskOK
<1>4. Kept
  BY <1>1, <1>2, <1>3 DEF Kept
<1>5. /\ durable' \in [head : Heads, seq : Nat]
      /\ durable'.seq = Len(log') /\ durable'.head.made
  BY <1>1, <1>2, <1>3
<1>6. DiskOK'
  BY <1>1, <1>2, <1>3, <1>5 DEF DiskOK
<1> QED
  BY <1>1, <1>2, <1>4, <1>6

LEMMA NotStoredKeepsDisk ==
    ASSUME DiskOK, NEW e \in Records, NotStored(e)
    PROVE  DiskOK' /\ Kept /\ acked' = acked /\ (log' = log \/ log' = Append(log, e))
<1>1. acked' = acked /\ acked \in Nat /\ Len(log) \in Nat /\ acked <= Len(log)
  BY DEF NotStored, DiskOK
<1>2. Fault => faults' \in 0..MaxFaults
  BY LimitsAreNatural DEF Fault, DiskOK
<1>3. CASE UNCHANGED <<disk, faults>>
  BY <1>1, <1>3 DEF DiskOK, Kept, disk
<1>4. CASE Fault /\ UNCHANGED disk
  BY <1>1, <1>2, <1>4 DEF DiskOK, Kept, disk
<1>5. CASE Fault /\ tail' \in {"torn", "line"} /\ UNCHANGED <<log, head, durable, stray>>
  BY <1>1, <1>2, <1>5 DEF DiskOK, Kept
<1>6. CASE Fault /\ Extend(e) /\ UNCHANGED durable
  <2>1. /\ log' = Append(log, e) /\ log' \in Seq(Records) /\ Len(log') = Len(log) + 1
        /\ \A i \in 1..Len(log) : log'[i] = log[i]
        /\ head' \in Heads /\ head'.made
        /\ tail' \in {"none", "torn", "line"} /\ stray' \in BOOLEAN
    BY <1>6, Extending
  <2>2. Kept
    BY <1>1, <2>1 DEF Kept
  <2>3. DiskOK'
    BY <1>1, <1>2, <1>6, <2>1 DEF DiskOK
  <2> QED
    BY <1>1, <2>1, <2>2, <2>3
<1> QED
  BY <1>3, <1>4, <1>5, <1>6 DEF NotStored

LEMMA CutKeepsDisk ==
    ASSUME DiskOK, Cut, Sync \/ UNCHANGED durable, acked' = acked, faults' \in 0..MaxFaults
    PROVE  DiskOK' /\ Kept /\ log' = log
<1>1. log' = log /\ Len(log) \in Nat /\ acked \in Nat /\ acked <= Len(log)
  BY DEF Cut, DiskOK
<1>2. head' = [head EXCEPT !.index = @ + 1, !.first = Len(log), !.pending = head.index]
  BY DEF Cut
<1>3. head' \in Heads /\ head'.made = head.made
  <2>1. head \in Heads /\ head.index \in Nat \ {0} /\ head.index + 1 \in Nat \ {0}
    BY DEF DiskOK, Heads
  <2> QED
    BY <1>1, <1>2, <2>1 DEF Heads
<1>4. tail' \in {"none", "torn", "line"} /\ stray' \in BOOLEAN
  BY DEF Cut
<1>5. /\ durable' \in [head : Heads, seq : Nat] /\ acked <= durable'.seq
      /\ durable'.seq <= Len(log) /\ (~durable'.head.made => durable'.seq = 0)
  <2>1. CASE Sync
    <3>1. durable' = [head |-> head', seq |-> Len(log)]
      BY <1>1, <2>1 DEF Sync
    <3> QED
      BY <1>1, <1>3, <3>1 DEF DiskOK
  <2>2. CASE UNCHANGED durable
    BY <2>2 DEF DiskOK
  <2> QED
    BY <2>1, <2>2
<1>6. Kept
  BY <1>1 DEF Kept
<1>7. DiskOK'
  BY <1>1, <1>3, <1>4, <1>5 DEF DiskOK
<1> QED
  BY <1>1, <1>6, <1>7

LEMMA PowerLossKeepsDisk ==
    ASSUME DiskOK, PowerLoss
    PROVE  /\ DiskOK' /\ Kept /\ acked' = acked
           /\ Len(log') <= Len(log) /\ \A i \in 1..Len(log') : log'[i] = log[i]
<1>1. /\ log \in Seq(Records) /\ durable \in [head : Heads, seq : Nat]
      /\ durable.seq <= Len(log) /\ acked <= durable.seq /\ acked \in Nat
      /\ (~durable.head.made => durable.seq = 0) /\ faults \in 0..MaxFaults
      /\ tail \in {"none", "torn", "line"} /\ stray \in BOOLEAN
  BY DEF DiskOK
<1>2. /\ log' = SubSeq(log, 1, durable.seq) /\ head' = durable.head /\ durable' = durable
      /\ faults' = faults /\ acked' = acked
  BY DEF PowerLoss, Die, history
<1>3. /\ log' \in Seq(Records) /\ Len(log') = durable.seq
      /\ \A i \in 1..durable.seq : log'[i] = log[i]
  BY <1>1, <1>2
<1>4. tail' \in {"none", "torn", "line"} /\ stray' \in BOOLEAN
  <2>1. PICK kept \in {tail, IF tail = "torn" THEN "none" ELSE tail} :
          LET crossed == head.index # durable.head.index
              here == Len(log) > durable.seq /\ (crossed => head.first > durable.seq)
          IN  /\ stray' = (stray \/ (crossed /\ (Len(log) > head.first \/ kept # "none")))
              /\ tail' = IF here THEN "line" ELSE IF crossed THEN "none" ELSE kept
    BY DEF PowerLoss
  <2> QED
    BY <1>1, <2>1
<1>5. Kept
  BY <1>1, <1>2, <1>3 DEF Kept
<1>6. head' \in Heads /\ durable' \in [head : Heads, seq : Nat] /\ durable.seq \in Nat
  BY <1>1, <1>2
<1>7. DiskOK'
  BY <1>1, <1>2, <1>3, <1>4, <1>6 DEF DiskOK
<1> QED
  BY <1>1, <1>2, <1>3, <1>5, <1>7

-----------------------------------------------------------------------------
\* The handlers

Middle == {"retain", "measure", "rotate", "archive", "append"}
Steps == Middle \cup {"idle", "admit", "begun", "running"}
HandlerStates == [step : Steps, event : Records, owed : Nat]

\* What a handler holds: nothing, an ordinary record, or a step of a bracket.
HandlerIsSound(h) ==
    /\ at[h].step = "idle" => at[h] = Idle
    /\ \/ at[h].event.kind = "note" /\ at[h].event.op = None
       \/ /\ at[h].event.kind \in {"started", "settled", "indeterminate", "resolved"}
          /\ at[h].event.op \in Operations
    /\ at[h].step \in {"begun", "running"} => at[h].event.kind = "started"

ActorsOK ==
    /\ phase \in {"starting", "flagging", "serving", "blind"} /\ quarantined \in BOOLEAN
    /\ unresolved \subseteq Identities
    /\ recovery \in [found : SUBSET Operations, todo : SUBSET Operations]
    /\ at \in [Handlers -> HandlerStates]
    /\ restarts \in 0..MaxRestarts /\ dispatched \subseteq Operations
    /\ \A h \in Handlers : HandlerIsSound(h)

\* Nobody is served before the startup pass is over, and a quarantined partition
\* lets nobody past its door.
DoorsAreKept ==
    /\ phase \in {"starting", "flagging"} => \A h \in Handlers : at[h] = Idle
    /\ quarantined => /\ phase = "serving"
                      /\ \A h \in Handlers : at[h].step \in {"idle", "admit"}

StartIsIn(o, n) == \E i \in 1..n : log[i].op = o /\ log[i].kind = "started"

\* What runs or has run was recorded before, for good.
StartsAreRecorded ==
    /\ \A o \in dispatched : StartIsIn(o, acked)
    /\ \A h \in Handlers :
          at[h].step \in {"begun", "running"} => StartIsIn(at[h].event.op, acked)

LedgerInv == DiskOK /\ ActorsOK /\ DoorsAreKept /\ StartsAreRecorded

Becomes(h, x) == at' = [at EXCEPT ![h] = x]

LEMMA Owing ==
    ASSUME at \in [Handlers -> HandlerStates], NEW h \in Handlers, NEW s \in Steps,
           NEW n \in Nat, Owe(h, s, n)
    PROVE  \E x \in HandlerStates :
              Becomes(h, x) /\ x.step = s /\ x.event = at[h].event
<1> DEFINE x == [step |-> s, event |-> at[h].event, owed |-> n]
<1>1. at[h].event \in Records
  BY DEF HandlerStates
<1>2. x \in HandlerStates /\ x.step = s /\ x.event = at[h].event
  BY <1>1 DEF HandlerStates
<1>3. Becomes(h, x)
  BY DEF Owe, Become, EventOf, Becomes
<1> QED
  BY <1>2, <1>3

\* Giving up turns the end of a bracket into "indeterminate", or drops the record.
Drops(h) == at' = [at EXCEPT ![h] = Idle] /\ unresolved' = unresolved
            /\ at[h].event.kind # "settled"
Doubts(h) ==
    /\ at[h].event.kind = "settled"
    /\ unresolved' = unresolved \cup {IdentityOf[at[h].event.op]}
    /\ \E x \in HandlerStates :
          /\ Becomes(h, x) /\ x.step = "admit"
          /\ x.event.kind = "indeterminate" /\ x.event.op = at[h].event.op

LEMMA GivingUp ==
    ASSUME ActorsOK, NEW h \in Handlers, GiveUp(h)
    PROVE  Drops(h) \/ Doubts(h)
<1>1. CASE at[h].event.kind = "settled"
  <2> DEFINE x == [step |-> "admit", event |-> Event("indeterminate", at[h].event.op), owed |-> 0]
  <2>1. at[h].event.op \in Operations
    BY <1>1 DEF ActorsOK, HandlerIsSound
  <2>2. "indeterminate" \in Kinds
    BY DEF Kinds, Closure, Flagging
  <2>3. /\ Event("indeterminate", at[h].event.op) \in Records
        /\ Event("indeterminate", at[h].event.op).kind = "indeterminate"
        /\ Event("indeterminate", at[h].event.op).op = at[h].event.op
    BY <2>1, <2>2, EventsAreRecords
  <2>4. /\ x \in HandlerStates /\ x.step = "admit"
        /\ x.event.kind = "indeterminate" /\ x.event.op = at[h].event.op
    BY <2>3 DEF HandlerStates, Steps
  <2>5. Becomes(h, x) /\ unresolved' = unresolved \cup {IdentityOf[at[h].event.op]}
    BY <1>1 DEF GiveUp, EventOf, IdentityAt, Turn, Become, Becomes
  <2> QED
    BY <1>1, <2>4, <2>5 DEF Doubts
<1>2. CASE at[h].event.kind # "settled"
  BY <1>2 DEF GiveUp, EventOf, Leave, Drops
<1> QED
  BY <1>1, <1>2
-----------------------------------------------------------------------------
\* What one step of a handler amounts to

Unmoved == UNCHANGED <<phase, quarantined, recovery, restarts>>
Quietly == log' = log \/ \E n \in Nat : log' = Append(log, Retention(n))

GoesOn(h) ==
    /\ at[h].step \in Middle \cup {"admit"} /\ ~quarantined
    /\ \E x \in HandlerStates :
          Becomes(h, x) /\ x.step \in Middle /\ x.event = at[h].event
    /\ Quietly /\ unresolved' = unresolved /\ dispatched' = dispatched

Gives(h) ==
    /\ at[h].step \in Middle \cup {"admit"}
    /\ Drops(h) \/ Doubts(h)
    /\ Quietly \/ log' = Append(log, at[h].event)
    /\ dispatched' = dispatched

Starts(h) ==
    /\ at[h].step = "append" /\ at[h].event.kind = "started"
    /\ log' = Append(log, at[h].event) /\ acked' = Len(log')
    /\ \E x \in HandlerStates : Becomes(h, x) /\ x.step = "begun" /\ x.event = at[h].event
    /\ unresolved' = unresolved /\ dispatched' = dispatched

Ends(h) ==
    /\ at[h].step = "append" /\ at[h].event.kind # "started"
    /\ log' = Append(log, at[h].event)
    /\ at' = [at EXCEPT ![h] = Idle]
    /\ unresolved' = IF at[h].event.kind \in Resolving
                     THEN unresolved \ {IdentityOf[at[h].event.op]} ELSE unresolved
    /\ dispatched' = dispatched

Runs(h) ==
    /\ at[h].step = "begun"
    /\ \E x \in HandlerStates : Becomes(h, x) /\ x.step = "running" /\ x.event = at[h].event
    /\ dispatched' = dispatched \cup {at[h].event.op}
    /\ log' = log /\ acked' = acked /\ unresolved' = unresolved

Comes(h) ==
    /\ at[h].step = "running"
    /\ \E x \in HandlerStates :
          /\ Becomes(h, x) /\ x.step = "admit" /\ x.event.op = at[h].event.op
          /\ \/ x.event.kind = "settled" /\ unresolved' = unresolved
             \/ /\ x.event.kind = "indeterminate"
                /\ unresolved' = unresolved \cup {IdentityOf[at[h].event.op]}
    /\ dispatched' = dispatched /\ log' = log /\ acked' = acked

Asks(h) ==
    /\ phase \in {"serving", "blind"} /\ at[h].step = "idle"
    /\ \E x \in HandlerStates :
          /\ Becomes(h, x) /\ x.step = "admit"
          /\ \/ x.event.kind = "note" /\ x.event.op = None /\ overlapped' = overlapped
             \/ /\ x.event.kind = "resolved" /\ x.event.op \in Operations
                /\ x.event.op \in OpenNow /\ overlapped' = overlapped
             \/ /\ x.event.kind = "started" /\ x.event.op \in Operations
                /\ Fresh(x.event.op) /\ IdentityOf[x.event.op] \notin unresolved
                /\ overlapped' = OverlappedBy(x.event.op)
    /\ dispatched' = dispatched /\ log' = log /\ acked' = acked /\ unresolved' = unresolved

LEMMA Skipping ==
    ASSUME ActorsOK, NEW h \in Handlers, at[h].step \in Middle \cup {"admit"}, ~quarantined,
           SkipMaintenance(h), Quietly, dispatched' = dispatched
    PROVE  GoesOn(h) \/ Gives(h)
<1>1. CASE at[h].event.kind \in Closure
  <2>1. Owe(h, "append", 0) /\ unresolved' = unresolved
    BY <1>1 DEF SkipMaintenance, EventOf, Enter
  <2>2. at \in [Handlers -> HandlerStates] /\ "append" \in Steps /\ 0 \in Nat
    BY DEF ActorsOK, Steps, Middle
  <2>3. PICK x \in HandlerStates : Becomes(h, x) /\ x.step = "append" /\ x.event = at[h].event
    BY <2>1, <2>2, Owing
  <2> QED
    BY <2>1, <2>3 DEF GoesOn, Middle
<1>2. CASE at[h].event.kind \notin Closure
  <2>1. GiveUp(h)
    BY <1>2 DEF SkipMaintenance, EventOf
  <2> QED
    BY <2>1, GivingUp DEF Gives
<1> QED
  BY <1>1, <1>2

LEMMA Advancing ==
    ASSUME ActorsOK, NEW h \in Handlers, at[h].step \in Middle \cup {"admit"}, ~quarantined,
           NEW s \in Middle, NEW n \in Nat, Owe(h, s, n),
           Quietly, unresolved' = unresolved, dispatched' = dispatched
    PROVE  GoesOn(h)
<1>1. at \in [Handlers -> HandlerStates] /\ s \in Steps
  BY DEF ActorsOK, Steps
<1>2. PICK x \in HandlerStates : Becomes(h, x) /\ x.step = s /\ x.event = at[h].event
  BY <1>1, Owing
<1> QED
  BY <1>2 DEF GoesOn

LEMMA AdmitSteps ==
    ASSUME DiskOK, ActorsOK, NEW h \in Handlers, Admit(h)
    PROVE  DiskOK' /\ Kept /\ Unmoved /\ (GoesOn(h) \/ Gives(h))
<1>1. /\ at[h].step = "admit" /\ dispatched' = dispatched /\ Unmoved
      /\ log' = log /\ acked' = acked /\ UNCHANGED <<disk, faults>>
  BY DEF Admit, Steady, Lasting, Unmoved, disk
<1>2. DiskOK' /\ Kept
  BY <1>1 DEF DiskOK, Kept, disk
<1>3. Quietly
  BY <1>1 DEF Quietly
<1>4. CASE quarantined
  BY <1>1, <1>2, <1>3, <1>4, GivingUp DEF Admit, Gives
<1>5. CASE ~quarantined /\ HeadMissing
  BY <1>1, <1>2, <1>3, <1>5, Skipping DEF Admit
<1>6. CASE ~quarantined /\ ~HeadMissing /\ head.pending # 0
  <2>1. Owe(h, "retain", head.pending) /\ unresolved' = unresolved
    BY <1>6 DEF Admit
  <2>2. head.pending \in Nat /\ "retain" \in Middle
    BY DEF DiskOK, Heads, Middle
  <2> QED
    BY <1>1, <1>2, <1>3, <1>6, <2>1, <2>2, Advancing
<1>7. CASE ~quarantined /\ ~HeadMissing /\ head.pending = 0
  <2>1. Owe(h, "measure", 0) /\ unresolved' = unresolved
    BY <1>7 DEF Admit, Enter
  <2>2. 0 \in Nat /\ "measure" \in Middle
    BY DEF Middle
  <2> QED
    BY <1>1, <1>2, <1>3, <1>7, <2>1, <2>2, Advancing
<1> QED
  BY <1>1, <1>2, <1>4, <1>5, <1>6, <1>7

\* A retention record is owed by "retain" and "archive", and written or not.
LEMMA RetainSteps ==
    ASSUME DiskOK, ActorsOK, NEW h \in Handlers, ~quarantined,
           at[h].step \in {"retain", "archive"}, NEW s \in Middle, Steady,
           \/ Stored(Retention(at[h].owed)) /\ Enter(h, s) /\ UNCHANGED unresolved
           \/ NotStored(Retention(at[h].owed)) /\ SkipMaintenance(h)
    PROVE  DiskOK' /\ Kept /\ Unmoved /\ (GoesOn(h) \/ Gives(h))
<1>1. Unmoved /\ dispatched' = dispatched /\ at[h].step \in Middle
  BY DEF Steady, Lasting, Unmoved, Middle
<1>2. at[h].owed \in Nat
  BY DEF ActorsOK, HandlerStates
<1>3. Retention(at[h].owed) \in Records
  BY <1>2, RetentionsAreRecords
<1>4. CASE Stored(Retention(at[h].owed)) /\ Enter(h, s) /\ UNCHANGED unresolved
  <2>1. DiskOK' /\ Kept /\ log' = Append(log, Retention(at[h].owed))
    BY <1>3, <1>4, StoredKeepsDisk
  <2>2. Quietly
    BY <1>2, <2>1 DEF Quietly
  <2>3. Owe(h, s, 0) /\ 0 \in Nat
    BY <1>4 DEF Enter
  <2> QED
    BY <1>1, <1>4, <2>1, <2>2, <2>3, Advancing
<1>5. CASE NotStored(Retention(at[h].owed)) /\ SkipMaintenance(h)
  <2>1. DiskOK' /\ Kept /\ (log' = log \/ log' = Append(log, Retention(at[h].owed)))
    BY <1>3, <1>5, NotStoredKeepsDisk
  <2>2. Quietly
    BY <1>2, <2>1 DEF Quietly
  <2> QED
    BY <1>1, <1>5, <2>1, <2>2, Skipping
<1> QED
  BY <1>4, <1>5

LEMMA MeasureSteps ==
    ASSUME DiskOK, ActorsOK, NEW h \in Handlers, ~quarantined, Measure(h)
    PROVE  DiskOK' /\ Kept /\ Unmoved /\ (GoesOn(h) \/ Gives(h))
<1>1. /\ at[h].step = "measure" /\ dispatched' = dispatched /\ Unmoved
      /\ log' = log /\ acked' = acked /\ UNCHANGED <<disk, faults>> /\ unresolved' = unresolved
  BY DEF Measure, Steady, Lasting, Unmoved, disk
<1>2. DiskOK' /\ Kept
  BY <1>1 DEF DiskOK, Kept, disk
<1>3. Quietly /\ at[h].step \in Middle
  BY <1>1 DEF Quietly, Middle
<1>4. PICK s \in Middle : Owe(h, s, 0)
  BY DEF Measure, Enter, Middle
<1> QED
  BY <1>1, <1>2, <1>3, <1>4, Advancing

LEMMA RotateSteps ==
    ASSUME DiskOK, ActorsOK, NEW h \in Handlers, ~quarantined, Rotate(h)
    PROVE  DiskOK' /\ Kept /\ Unmoved /\ (GoesOn(h) \/ Gives(h))
<1>1. /\ at[h].step = "rotate" /\ dispatched' = dispatched /\ Unmoved /\ acked' = acked
  BY DEF Rotate, Steady, Lasting, Unmoved
<1>2. /\ at[h].step \in Middle /\ "archive" \in Middle /\ "append" \in Middle
      /\ head.pending \in Nat /\ head.index \in Nat /\ 0 \in Nat
  BY <1>1 DEF Middle, DiskOK, Heads
<1>3. ASSUME UNCHANGED <<disk, faults>>
      PROVE  DiskOK' /\ Kept /\ Quietly
  BY <1>1, <1>3 DEF DiskOK, Kept, disk, Quietly
<1>4. CASE /\ Owe(h, "archive", head.pending) /\ UNCHANGED <<disk, unresolved, faults>>
  BY <1>1, <1>2, <1>3, <1>4, Advancing
<1>5. CASE Enter(h, "append") /\ UNCHANGED <<disk, unresolved, faults>>
  BY <1>1, <1>2, <1>3, <1>5, Advancing DEF Enter
<1>6. CASE Cut /\ Sync /\ Owe(h, "archive", head.index) /\ UNCHANGED <<unresolved, faults>>
  <2>1. faults' \in 0..MaxFaults
    BY <1>6 DEF DiskOK
  <2>2. DiskOK' /\ Kept /\ log' = log
    BY <1>1, <1>6, <2>1, CutKeepsDisk
  <2> QED
    BY <1>1, <1>2, <1>6, <2>2, Advancing DEF Quietly
<1>7. CASE Fault /\ (UNCHANGED disk \/ (Cut /\ UNCHANGED durable)) /\ SkipMaintenance(h)
  <2>1. faults' \in 0..MaxFaults
    BY <1>7, LimitsAreNatural DEF Fault, DiskOK
  <2>2. ASSUME UNCHANGED disk
        PROVE  DiskOK' /\ Kept /\ log' = log
    BY <1>1, <2>1, <2>2 DEF DiskOK, Kept, disk
  <2>3. ASSUME Cut, UNCHANGED durable
        PROVE  DiskOK' /\ Kept /\ log' = log
    BY <1>1, <2>1, <2>3, CutKeepsDisk
  <2>4. DiskOK' /\ Kept /\ log' = log
    BY <1>7, <2>2, <2>3
  <2> QED
    BY <1>1, <1>2, <1>7, <2>4, Skipping DEF Quietly
<1> QED
  BY <1>4, <1>5, <1>6, <1>7 DEF Rotate

LEMMA AppendSteps ==
    ASSUME DiskOK, ActorsOK, NEW h \in Handlers, AppendEvent(h)
    PROVE  DiskOK' /\ Kept /\ Unmoved /\ (Starts(h) \/ Ends(h) \/ Gives(h))
<1>1. /\ at[h].step = "append" /\ dispatched' = dispatched /\ Unmoved
      /\ at[h].step \in Middle
  BY DEF AppendEvent, Steady, Lasting, Unmoved, Middle
<1>2. at[h].event \in Records /\ at \in [Handlers -> HandlerStates]
  BY DEF ActorsOK, HandlerStates
<1>3. CASE Stored(at[h].event) /\ at[h].event.kind = "started"
  <2>1. DiskOK' /\ Kept /\ log' = Append(log, at[h].event) /\ acked' = Len(log')
    BY <1>2, <1>3, StoredKeepsDisk
  <2>2. CASE Owe(h, "begun", 0) /\ unresolved' = unresolved
    <3>1. "begun" \in Steps /\ 0 \in Nat
      BY DEF Steps
    <3>2. PICK x \in HandlerStates : Becomes(h, x) /\ x.step = "begun" /\ x.event = at[h].event
      BY <1>2, <2>2, <3>1, Owing
    <3> QED
      BY <1>1, <1>3, <2>1, <2>2, <3>2 DEF Starts
  <2>3. CASE NotStored(at[h].event) /\ GiveUp(h)
    BY <1>1, <1>3, <2>1, <2>3, GivingUp DEF Gives
  <2> QED
    BY <1>3, <2>2, <2>3 DEF AppendEvent, EventOf, Enter
<1>4. CASE Stored(at[h].event) /\ at[h].event.kind # "started"
  <2>1. DiskOK' /\ Kept /\ log' = Append(log, at[h].event) /\ acked' = Len(log')
    BY <1>2, <1>4, StoredKeepsDisk
  <2>2. CASE /\ at' = [at EXCEPT ![h] = Idle]
             /\ unresolved' = IF at[h].event.kind \in Resolving
                              THEN unresolved \ {IdentityOf[at[h].event.op]} ELSE unresolved
    BY <1>1, <1>4, <2>1, <2>2 DEF Ends
  <2>3. CASE NotStored(at[h].event) /\ GiveUp(h)
    BY <1>1, <1>4, <2>1, <2>3, GivingUp DEF Gives
  <2> QED
    BY <1>4, <2>2, <2>3 DEF AppendEvent, EventOf, Leave, IdentityAt
<1>5. CASE NotStored(at[h].event) /\ GiveUp(h)
  <2>1. DiskOK' /\ Kept /\ (log' = log \/ log' = Append(log, at[h].event))
    BY <1>2, <1>5, NotStoredKeepsDisk
  <2> QED
    BY <1>1, <1>5, <2>1, GivingUp DEF Gives, Quietly
<1> QED
  BY <1>3, <1>4, <1>5 DEF AppendEvent, EventOf

LEMMA DispatchSteps ==
    ASSUME DiskOK, ActorsOK, NEW h \in Handlers, Dispatch(h)
    PROVE  DiskOK' /\ Kept /\ Unmoved /\ Runs(h)
<1>1. /\ at[h].step = "begun" /\ Owe(h, "running", 0)
      /\ dispatched' = dispatched \cup {at[h].event.op}
      /\ UNCHANGED <<disk, memory, restarts, faults, acked>>
  BY DEF Dispatch, EventOf, Enter
<1>2. at \in [Handlers -> HandlerStates] /\ "running" \in Steps /\ 0 \in Nat
  BY DEF ActorsOK, Steps
<1>3. PICK x \in HandlerStates : Becomes(h, x) /\ x.step = "running" /\ x.event = at[h].event
  BY <1>1, <1>2, Owing
<1>4. Unmoved /\ log' = log /\ acked' = acked /\ unresolved' = unresolved
  BY <1>1 DEF Unmoved, disk, memory
<1>5. DiskOK' /\ Kept
  BY <1>1 DEF DiskOK, Kept, disk
<1> QED
  BY <1>1, <1>3, <1>4, <1>5 DEF Runs

LEMMA Turning ==
    ASSUME NEW h \in Handlers, NEW k \in Kinds, NEW o \in Operations \cup {None},
           Turn(h, "admit", Event(k, o))
    PROVE  \E x \in HandlerStates :
              Becomes(h, x) /\ x.step = "admit" /\ x.event.kind = k /\ x.event.op = o
<1> DEFINE x == [step |-> "admit", event |-> Event(k, o), owed |-> 0]
<1>1. Event(k, o) \in Records /\ Event(k, o).kind = k /\ Event(k, o).op = o
  BY EventsAreRecords
<1>2. x \in HandlerStates /\ x.step = "admit" /\ x.event.kind = k /\ x.event.op = o
  BY <1>1 DEF HandlerStates, Steps
<1>3. Becomes(h, x)
  BY DEF Turn, Become, Becomes
<1> QED
  BY <1>2, <1>3

LEMMA ReturnSteps ==
    ASSUME DiskOK, ActorsOK, NEW h \in Handlers, Return(h)
    PROVE  DiskOK' /\ Kept /\ Unmoved /\ Comes(h)
<1>1. PICK k \in {"settled", "indeterminate"} :
          /\ Turn(h, "admit", Event(k, at[h].event.op))
          /\ unresolved' = IF k = "indeterminate"
                           THEN unresolved \cup {IdentityOf[at[h].event.op]} ELSE unresolved
  BY DEF Return, EventOf, IdentityAt
<1>2. k \in Kinds /\ at[h].event.op \in Operations \cup {None}
  BY DEF Kinds, Closure, Resolving, Flagging, ActorsOK, HandlerStates, Records
<1>3. PICK x \in HandlerStates :
          Becomes(h, x) /\ x.step = "admit" /\ x.event.kind = k /\ x.event.op = at[h].event.op
  BY <1>1, <1>2, Turning
<1>4. /\ at[h].step = "running" /\ Unmoved /\ dispatched' = dispatched
      /\ UNCHANGED <<disk, faults, acked>> /\ log' = log /\ acked' = acked
  BY DEF Return, Steady, Lasting, Unmoved, disk
<1>5. DiskOK' /\ Kept
  BY <1>4 DEF DiskOK, Kept, disk
<1> QED
  BY <1>1, <1>3, <1>4, <1>5 DEF Comes

LEMMA ArriveSteps ==
    ASSUME DiskOK, ActorsOK, NEW h \in Handlers,
           Note(h) \/ \E o \in Operations : Begin(h, o) \/ Resolve(h, o)
    PROVE  DiskOK' /\ Kept /\ Unmoved /\ Asks(h)
<1>1. ASSUME NEW k \in Kinds, NEW o \in Operations \cup {None}, Arrive(h, Event(k, o)),
             \/ k = "note" /\ o = None /\ overlapped' = overlapped
             \/ /\ k = "resolved" /\ o \in Operations /\ o \in OpenNow
                /\ overlapped' = overlapped
             \/ /\ k = "started" /\ o \in Operations
                /\ Fresh(o) /\ IdentityOf[o] \notin unresolved
                /\ overlapped' = OverlappedBy(o)
      PROVE  DiskOK' /\ Kept /\ Unmoved /\ Asks(h)
  <2>1. PICK x \in HandlerStates :
            Becomes(h, x) /\ x.step = "admit" /\ x.event.kind = k /\ x.event.op = o
    BY <1>1, Turning DEF Arrive
  <2>2. /\ at[h].step = "idle" /\ Unmoved /\ dispatched' = dispatched
        /\ phase \in {"serving", "blind"} /\ unresolved' = unresolved
        /\ UNCHANGED <<disk, faults, acked>> /\ log' = log /\ acked' = acked
    BY <1>1 DEF Arrive, Lasting, Unmoved, disk
  <2>3. DiskOK' /\ Kept
    BY <2>2 DEF DiskOK, Kept, disk
  <2> QED
    BY <1>1, <2>1, <2>2, <2>3 DEF Asks
<1>2. "note" \in Kinds /\ "started" \in Kinds /\ "resolved" \in Kinds
  BY DEF Kinds, Closure, Resolving
<1>3. CASE Note(h)
  BY <1>1, <1>2, <1>3 DEF Note
<1>4. ASSUME NEW o \in Operations, Begin(h, o)
      PROVE  DiskOK' /\ Kept /\ Unmoved /\ Asks(h)
  BY <1>1, <1>2, <1>4 DEF Begin, EventOf, IdentityAt
<1>5. ASSUME NEW o \in Operations, Resolve(h, o)
      PROVE  DiskOK' /\ Kept /\ Unmoved /\ Asks(h)
  BY <1>1, <1>2, <1>5 DEF Resolve
<1> QED
  BY <1>3, <1>4, <1>5

LEMMA HandlerSteps ==
    ASSUME LedgerInv, NEW h \in Handlers, Handle(h)
    PROVE  /\ DiskOK' /\ Kept /\ Unmoved
           /\ \/ GoesOn(h) \/ Gives(h) \/ Starts(h) \/ Ends(h)
              \/ Runs(h) \/ Comes(h) \/ Asks(h)
<1>1. DiskOK /\ ActorsOK
  BY DEF LedgerInv
<1>2. at[h].step \in Middle => ~quarantined
  BY DEF LedgerInv, DoorsAreKept, Middle
<1>3. CASE Admit(h)
  BY <1>1, <1>3, AdmitSteps
<1>4. CASE Retain(h)
  <2>1. at[h].step \in {"retain", "archive"} /\ "measure" \in Middle /\ ~quarantined
    BY <1>2, <1>4 DEF Retain, Middle
  <2> QED
    BY <1>1, <1>4, <2>1, RetainSteps DEF Retain
<1>5. CASE Archive(h)
  <2>1. at[h].step \in {"retain", "archive"} /\ "append" \in Middle /\ ~quarantined
    BY <1>2, <1>5 DEF Archive, Middle
  <2> QED
    BY <1>1, <1>5, <2>1, RetainSteps DEF Archive
<1>6. CASE Measure(h)
  BY <1>1, <1>2, <1>6, MeasureSteps DEF Measure, Middle
<1>7. CASE Rotate(h)
  BY <1>1, <1>2, <1>7, RotateSteps DEF Rotate, Middle
<1>8. CASE AppendEvent(h)
  BY <1>1, <1>8, AppendSteps
<1>9. CASE Dispatch(h)
  BY <1>1, <1>9, DispatchSteps
<1>10. CASE Return(h)
  BY <1>1, <1>10, ReturnSteps
<1>11. CASE Note(h) \/ \E o \in Operations : Begin(h, o) \/ Resolve(h, o)
  BY <1>1, <1>11, ArriveSteps
<1> QED
  BY <1>3, <1>4, <1>5, <1>6, <1>7, <1>8, <1>9, <1>10, <1>11 DEF Handle

\* Only a bracket that begins finds others of its identity in flight.
LEMMA WhoOverlaps ==
    ASSUME NEW h \in Handlers, Handle(h)
    PROVE  /\ at[h].step # "idle" => overlapped' = overlapped
           /\ \/ overlapped' = overlapped
              \/ \E o \in Operations : overlapped' = OverlappedBy(o)
  BY DEF Handle, Admit, Retain, Measure, Rotate, Archive, AppendEvent, Dispatch, Return, Note,
     Begin, Resolve, Arrive, Steady

-----------------------------------------------------------------------------
\* The invariant behind the ledger

LEMMA IdleIsAState == Idle \in HandlerStates /\ Idle.step = "idle"
                      /\ Idle.event.kind = "note" /\ Idle.event.op = None
<1>1. Event("note", None) \in Records /\ Event("note", None).kind = "note"
      /\ Event("note", None).op = None
  BY EventsAreRecords DEF Kinds
<1> QED
  BY <1>1 DEF Idle, HandlerStates, Steps

StartWillBeIn(o) == \E i \in 1..acked' : log'[i].op = o /\ log'[i].kind = "started"

LEMMA StartsStay ==
    ASSUME DiskOK, Kept, NEW o, StartIsIn(o, acked)
    PROVE  StartWillBeIn(o)
<1>1. PICK i \in 1..acked : log[i].op = o /\ log[i].kind = "started"
  BY DEF StartIsIn
<1>2. acked \in Nat /\ acked' \in Nat /\ acked <= acked' /\ log'[i] = log[i]
  BY DEF DiskOK, Kept
<1>3. i \in 1..acked'
  BY <1>2
<1> QED
  BY <1>1, <1>2, <1>3 DEF StartWillBeIn

\* What one handler is left with.
Rests(x) == x = Idle
KnownKind(x) ==
    \/ x.event.kind = "note" /\ x.event.op = None
    \/ /\ x.event.kind \in {"started", "settled", "indeterminate", "resolved"}
       /\ x.event.op \in Operations
Landed(h, x) ==
    /\ Becomes(h, x)
    /\ x.step = "idle" => Rests(x)
    /\ KnownKind(x)
    /\ x.step \in {"begun", "running"} => x.event.kind = "started" /\ StartWillBeIn(x.event.op)
    /\ quarantined => x.step \in {"idle", "admit"}
Settles ==
    /\ unresolved' \subseteq Identities /\ dispatched' \subseteq Operations
    /\ \A o \in dispatched' : StartWillBeIn(o)

LEMMA StepsLand ==
    ASSUME LedgerInv, NEW h \in Handlers, Handle(h)
    PROVE  Settles /\ (\E x \in HandlerStates : Landed(h, x)) /\ phase \in {"serving", "blind"}
<1>1. /\ DiskOK' /\ Kept
      /\ \/ GoesOn(h) \/ Gives(h) \/ Starts(h) \/ Ends(h)
         \/ Runs(h) \/ Comes(h) \/ Asks(h)
  BY HandlerSteps
<1>2. /\ DiskOK /\ HandlerIsSound(h) /\ unresolved \subseteq Identities
      /\ dispatched \subseteq Operations
      /\ \A o \in Operations : IdentityOf[o] \in Identities
  BY JournalNames DEF LedgerInv, ActorsOK
<1>3. \A o \in dispatched : StartWillBeIn(o)
  BY <1>1, <1>2, StartsStay DEF LedgerInv, StartsAreRecorded
<1>4. at[h].step # "idle" => phase \in {"serving", "blind"}
  BY IdleIsAState DEF LedgerInv, DoorsAreKept, ActorsOK
<1>5. quarantined => at[h].step \in {"idle", "admit"}
  BY DEF LedgerInv, DoorsAreKept
<1>6. at[h].step \in {"begun", "running"} => StartWillBeIn(at[h].event.op)
  BY <1>1, <1>2, StartsStay DEF LedgerInv, StartsAreRecorded
<1>7. Idle \in HandlerStates /\ (Becomes(h, Idle) => Landed(h, Idle))
  BY IdleIsAState DEF Landed, Rests, KnownKind
<1>8. KnownKind(at[h])
  BY <1>2 DEF HandlerIsSound, KnownKind
<1>9. CASE GoesOn(h)
  <2>1. PICK x \in HandlerStates : Becomes(h, x) /\ x.step \in Middle /\ x.event = at[h].event
    BY <1>9 DEF GoesOn
  <2>2. Landed(h, x)
    BY <1>8, <1>9, <2>1 DEF Landed, KnownKind, Middle, GoesOn
  <2>3. Settles /\ at[h].step # "idle"
    BY <1>2, <1>3, <1>9 DEF Settles, GoesOn, Middle
  <2> QED
    BY <1>4, <2>2, <2>3
<1>10. CASE Gives(h) /\ Drops(h)
  <2>1. Becomes(h, Idle) /\ Settles /\ at[h].step # "idle"
    BY <1>2, <1>3, <1>10 DEF Settles, Gives, Drops, Becomes, Middle
  <2> QED
    BY <1>4, <1>7, <2>1
<1>11. CASE Gives(h) /\ Doubts(h)
  <2>1. PICK x \in HandlerStates :
            /\ Becomes(h, x) /\ x.step = "admit"
            /\ x.event.kind = "indeterminate" /\ x.event.op = at[h].event.op
    BY <1>11 DEF Doubts
  <2>2. at[h].event.kind = "settled" /\ at[h].event.op \in Operations
    BY <1>8, <1>11 DEF Doubts, KnownKind
  <2>3. Landed(h, x)
    BY <2>1, <2>2 DEF Landed, KnownKind
  <2>4. Settles /\ at[h].step # "idle"
    BY <1>2, <1>3, <1>11, <2>2 DEF Settles, Gives, Doubts, Middle
  <2> QED
    BY <1>4, <2>3, <2>4
<1>12. CASE Starts(h)
  <2>1. PICK x \in HandlerStates : Becomes(h, x) /\ x.step = "begun" /\ x.event = at[h].event
    BY <1>12 DEF Starts
  <2>2. StartWillBeIn(at[h].event.op)
    <3>1. log' = Append(log, at[h].event) /\ acked' = Len(log') /\ at[h].event.kind = "started"
      BY <1>12 DEF Starts
    <3>2. log \in Seq(Records) /\ at[h].event \in Records
      BY DEF LedgerInv, DiskOK, ActorsOK, HandlerStates
    <3>3. Len(log') \in 1..Len(log') /\ log'[Len(log')] = at[h].event
      BY <3>1, <3>2
    <3> QED
      BY <3>1, <3>3 DEF StartWillBeIn
  <2>3. Landed(h, x)
    BY <1>5, <1>8, <1>12, <2>1, <2>2 DEF Landed, KnownKind, Starts
  <2>4. Settles /\ at[h].step # "idle"
    BY <1>2, <1>3, <1>12 DEF Settles, Starts
  <2> QED
    BY <1>4, <2>3, <2>4
<1>13. CASE Ends(h)
  <2>1. Becomes(h, Idle) /\ Settles /\ at[h].step # "idle"
    BY <1>2, <1>3, <1>13 DEF Settles, Ends, Becomes
  <2> QED
    BY <1>4, <1>7, <2>1
<1>14. CASE Runs(h)
  <2>1. PICK x \in HandlerStates : Becomes(h, x) /\ x.step = "running" /\ x.event = at[h].event
    BY <1>14 DEF Runs
  <2>2. at[h].event.kind = "started" /\ at[h].event.op \in Operations
    BY <1>2, <1>8, <1>14 DEF Runs, KnownKind, HandlerIsSound
  <2>3. Landed(h, x)
    BY <1>5, <1>6, <1>14, <2>1, <2>2 DEF Landed, KnownKind, Runs
  <2>4. Settles /\ at[h].step # "idle"
    BY <1>2, <1>3, <1>6, <1>14, <2>2 DEF Settles, Runs
  <2> QED
    BY <1>4, <2>3, <2>4
<1>15. CASE Comes(h)
  <2>1. PICK x \in HandlerStates :
            /\ Becomes(h, x) /\ x.step = "admit" /\ x.event.op = at[h].event.op
            /\ x.event.kind \in {"settled", "indeterminate"}
    BY <1>15 DEF Comes
  <2>2. at[h].event.kind = "started" /\ at[h].event.op \in Operations
    BY <1>2, <1>8, <1>15 DEF Comes, KnownKind, HandlerIsSound
  <2>3. Landed(h, x)
    BY <2>1, <2>2 DEF Landed, KnownKind
  <2>4. Settles /\ at[h].step # "idle"
    BY <1>2, <1>3, <1>15, <2>2 DEF Settles, Comes
  <2> QED
    BY <1>4, <2>3, <2>4
<1>16. CASE Asks(h)
  <2>1. PICK x \in HandlerStates : Becomes(h, x) /\ x.step = "admit" /\ KnownKind(x)
    BY <1>16 DEF Asks, KnownKind
  <2>2. Landed(h, x)
    BY <2>1 DEF Landed
  <2>3. Settles /\ phase \in {"serving", "blind"}
    BY <1>2, <1>3, <1>16 DEF Settles, Asks
  <2> QED
    BY <2>2, <2>3
<1> QED
  BY <1>1, <1>9, <1>10, <1>11, <1>12, <1>13, <1>14, <1>15, <1>16 DEF Gives

LEMMA HandlersKeepLedgerInv ==
    ASSUME LedgerInv, NEW h \in Handlers, Handle(h)
    PROVE  LedgerInv'
<1>1. DiskOK' /\ Kept /\ Unmoved
  BY HandlerSteps
<1>2. Settles /\ phase \in {"serving", "blind"}
  BY StepsLand
<1>3. PICK x \in HandlerStates : Landed(h, x)
  BY StepsLand
<1>4. /\ at \in [Handlers -> HandlerStates] /\ at' = [at EXCEPT ![h] = x]
      /\ at' \in [Handlers -> HandlerStates] /\ at'[h] = x
      /\ \A g \in Handlers : g # h => at'[g] = at[g]
  BY <1>3 DEF LedgerInv, ActorsOK, Landed, Becomes
<1>5. \A g \in Handlers : HandlerIsSound(g)'
  <2>1. HandlerIsSound(h)'
    BY <1>3, <1>4 DEF Landed, HandlerIsSound, KnownKind, Rests
  <2>2. ASSUME NEW g \in Handlers, g # h PROVE HandlerIsSound(g)'
    BY <1>4, <2>2 DEF LedgerInv, ActorsOK, HandlerIsSound
  <2> QED
    BY <2>1, <2>2
<1>6. ActorsOK'
  BY <1>1, <1>2, <1>4, <1>5 DEF ActorsOK, LedgerInv, Unmoved, Settles
<1>7. DoorsAreKept'
  <2>1. phase' = phase /\ quarantined' = quarantined
    BY <1>1 DEF Unmoved
  <2>2. quarantined => \A g \in Handlers : at'[g].step \in {"idle", "admit"}
    BY <1>3, <1>4 DEF LedgerInv, DoorsAreKept, Landed
  <2> QED
    BY <1>2, <2>1, <2>2 DEF DoorsAreKept, LedgerInv
<1>8. StartsAreRecorded'
  <2>1. ASSUME NEW g \in Handlers, at'[g].step \in {"begun", "running"}
        PROVE  StartWillBeIn(at'[g].event.op)
    <3>1. CASE g = h
      BY <1>3, <1>4, <2>1, <3>1 DEF Landed
    <3>2. CASE g # h
      <4>1. StartIsIn(at[g].event.op, acked) /\ DiskOK
        BY <1>4, <2>1, <3>2 DEF LedgerInv, StartsAreRecorded
      <4> QED
        BY <1>1, <1>4, <3>2, <4>1, StartsStay
    <3> QED
      BY <3>1, <3>2
  <2> QED
    BY <1>2, <2>1 DEF StartsAreRecorded, Settles, StartIsIn, StartWillBeIn
<1> QED
  BY <1>1, <1>6, <1>7, <1>8 DEF LedgerInv

ServedTypes ==
    /\ phase' \in {"flagging", "serving", "blind"}
    /\ quarantined' \in BOOLEAN /\ (quarantined' => phase' = "serving" \/ quarantined)
    /\ unresolved' \subseteq Identities
    /\ recovery' \in [found : SUBSET Operations, todo : SUBSET Operations]

\* The startup pass: nobody is at work, and nothing was dispatched by it.
Recovers(e) ==
    /\ phase \in {"starting", "flagging"} /\ UNCHANGED <<at, restarts, dispatched>>
    /\ ServedTypes
    /\ log' = log \/ (phase = "flagging" /\ log' = Append(log, e))

LEMMA Refusing == Serve("serving", TRUE, {}) => ServedTypes
<1> SUFFICES ASSUME Serve("serving", TRUE, {}) PROVE ServedTypes
  OBVIOUS
<1>1. phase' = "serving" /\ quarantined' = TRUE /\ unresolved' = {}
  BY DEF Serve
<1>2. recovery' \in [found : SUBSET Operations, todo : SUBSET Operations]
  BY DEF Serve
<1> QED
  BY <1>1, <1>2 DEF ServedTypes

LEMMA Serving ==
    ASSUME NEW p \in {"serving", "blind"}, NEW S \in SUBSET Identities, Serve(p, FALSE, S)
    PROVE  ServedTypes
<1>1. phase' = p /\ quarantined' = FALSE /\ unresolved' = S
  BY DEF Serve
<1>2. recovery' \in [found : SUBSET Operations, todo : SUBSET Operations]
  BY DEF Serve
<1> QED
  BY <1>1, <1>2 DEF ServedTypes

LEMMA Pausing ==
    ASSUME DiskOK, UNCHANGED <<disk, faults, acked>>
    PROVE  DiskOK' /\ Kept /\ log' = log
  BY DEF DiskOK, Kept, disk

LEMMA ScanSteps ==
    ASSUME DiskOK, ActorsOK, Scan \/ ScanFails
    PROVE  /\ DiskOK' /\ Kept /\ log' = log /\ \E e \in Records : Recovers(e)
<1>1. /\ phase = "starting" /\ UNCHANGED <<at, restarts, dispatched>>
      /\ UNCHANGED <<disk, faults, acked>>
  BY DEF Scan, ScanFails, Working
<1>2. DiskOK' /\ Kept /\ log' = log
  BY <1>1, Pausing
<1>3. ServedTypes
  <2>1. CASE Serve("serving", FALSE, {}) \/ Serve("serving", TRUE, {}) \/ Serve("blind", FALSE, {})
    <3>1. {} \in SUBSET Identities
      OBVIOUS
    <3>2. CASE Serve("serving", FALSE, {})
      BY <3>1, <3>2, Serving
    <3>3. CASE Serve("serving", TRUE, {})
      BY <3>3, Refusing
    <3>4. CASE Serve("blind", FALSE, {})
      BY <3>1, <3>4, Serving
    <3> QED
      BY <2>1, <3>2, <3>3, <3>4
  <2>2. CASE /\ phase' = "flagging" /\ recovery' = [found |-> Found, todo |-> Unflagged]
             /\ UNCHANGED <<quarantined, unresolved>>
    <3>1. Found \subseteq Operations /\ Unflagged \subseteq Operations
      BY DEF Found, Unflagged, OpenNow, Open
    <3> QED
      BY <2>2, <3>1 DEF ActorsOK, ServedTypes
  <2> QED
    BY <2>1, <2>2 DEF Scan, ScanFails
<1>4. Event("note", None) \in Records
  BY EventsAreRecords DEF Kinds
<1> QED
  BY <1>1, <1>2, <1>3, <1>4 DEF Recovers, ServedTypes

LEMMA FlagSteps ==
    ASSUME DiskOK, ActorsOK, NEW o \in Operations, Flag(o)
    PROVE  /\ DiskOK' /\ Kept /\ Recovers(Event("orphaned", o))
<1>1. phase = "flagging" /\ UNCHANGED <<at, restarts, dispatched>>
  BY DEF Flag, Working
<1>2. Event("orphaned", o) \in Records
  BY EventsAreRecords DEF Kinds, Closure, Flagging
<1>3. CASE /\ Stored(Event("orphaned", o))
           /\ recovery' = [recovery EXCEPT !.todo = @ \ {o}]
           /\ UNCHANGED <<phase, quarantined, unresolved>>
  <2>1. DiskOK' /\ Kept /\ log' = Append(log, Event("orphaned", o))
    BY <1>2, <1>3, StoredKeepsDisk
  <2>2. recovery' \in [found : SUBSET Operations, todo : SUBSET Operations]
    BY <1>3 DEF ActorsOK
  <2> QED
    BY <1>1, <1>3, <2>1, <2>2 DEF Recovers, ServedTypes, ActorsOK
<1>4. CASE NotStored(Event("orphaned", o)) /\ Serve("serving", TRUE, {})
  <2>1. DiskOK' /\ Kept /\ (log' = log \/ log' = Append(log, Event("orphaned", o)))
    BY <1>2, <1>4, NotStoredKeepsDisk
  <2> QED
    BY <1>1, <1>4, <2>1, Refusing DEF Recovers
<1> QED
  BY <1>3, <1>4 DEF Flag

LEMMA RecordScanSteps ==
    ASSUME DiskOK, ActorsOK, RecordScan
    PROVE  /\ DiskOK' /\ Kept /\ Recovers(Event("scanned", None))
<1>1. phase = "flagging" /\ UNCHANGED <<at, restarts, dispatched>>
  BY DEF RecordScan, Working
<1>2. Event("scanned", None) \in Records
  BY EventsAreRecords DEF Kinds, Closure, Flagging
<1>3. CASE /\ Stored(Event("scanned", None))
           /\ Serve("serving", FALSE, {IdentityOf[o] : o \in recovery.found})
  <2>1. DiskOK' /\ Kept /\ log' = Append(log, Event("scanned", None))
    BY <1>2, <1>3, StoredKeepsDisk
  <2>2. {IdentityOf[o] : o \in recovery.found} \in SUBSET Identities
    BY JournalNames DEF ActorsOK
  <2> QED
    BY <1>1, <1>3, <2>1, <2>2, Serving DEF Recovers
<1>4. CASE NotStored(Event("scanned", None)) /\ Serve("serving", TRUE, {})
  <2>1. DiskOK' /\ Kept /\ (log' = log \/ log' = Append(log, Event("scanned", None)))
    BY <1>2, <1>4, NotStoredKeepsDisk
  <2> QED
    BY <1>1, <1>4, <2>1, Refusing DEF Recovers
<1> QED
  BY <1>3, <1>4 DEF RecordScan

LEMMA RecoveryKeepsLedgerInv ==
    ASSUME LedgerInv, Recover
    PROVE  LedgerInv' /\ Kept /\ UNCHANGED <<at, dispatched>>
<1>1. DiskOK /\ ActorsOK
  BY DEF LedgerInv
<1>2. DiskOK' /\ Kept /\ \E e \in Records : Recovers(e)
  <2>1. CASE Scan \/ ScanFails
    BY <1>1, <2>1, ScanSteps
  <2>2. CASE \E o \in Operations : Flag(o)
    BY <1>1, <2>2, FlagSteps, EventsAreRecords DEF Kinds, Closure, Flagging
  <2>3. CASE RecordScan
    BY <1>1, <2>3, RecordScanSteps, EventsAreRecords DEF Kinds, Closure, Flagging
  <2> QED
    BY <2>1, <2>2, <2>3 DEF Recover
<1>3. PICK e \in Records : Recovers(e)
  BY <1>2
<1>4. /\ at' = at /\ restarts' = restarts /\ dispatched' = dispatched
      /\ phase \in {"starting", "flagging"}
      /\ phase' \in {"flagging", "serving", "blind"}
      /\ quarantined' \in BOOLEAN /\ (quarantined' => phase' = "serving" \/ quarantined)
      /\ unresolved' \subseteq Identities
      /\ recovery' \in [found : SUBSET Operations, todo : SUBSET Operations]
  BY <1>3 DEF Recovers, ServedTypes
<1>5. \A h \in Handlers : HandlerIsSound(h)'
  BY <1>1, <1>4 DEF ActorsOK, HandlerIsSound
<1>6. ActorsOK'
  BY <1>1, <1>4, <1>5 DEF ActorsOK
<1>7. (\A h \in Handlers : at[h] = Idle) /\ ~quarantined
  BY <1>4 DEF LedgerInv, DoorsAreKept
<1>8. DoorsAreKept'
  BY <1>4, <1>7, IdleIsAState DEF DoorsAreKept
<1>9. StartsAreRecorded'
  <2>1. \A o \in dispatched : StartWillBeIn(o)
    BY <1>1, <1>2, StartsStay DEF LedgerInv, StartsAreRecorded
  <2>2. \A h \in Handlers : at'[h].step \notin {"begun", "running"}
    BY <1>4, <1>7, IdleIsAState
  <2> QED
    BY <1>4, <2>1, <2>2 DEF StartsAreRecorded, StartIsIn, StartWillBeIn
<1> QED
  BY <1>2, <1>4, <1>6, <1>8, <1>9 DEF LedgerInv

LEMMA DeathsKeepLedgerInv ==
    ASSUME LedgerInv, Crash \/ PowerLoss
    PROVE  LedgerInv' /\ Kept /\ dispatched' = dispatched
<1>1. DiskOK /\ ActorsOK
  BY DEF LedgerInv
<1>2. Die
  BY DEF Crash, PowerLoss
<1>3. DiskOK' /\ Kept
  <2>1. CASE Crash
    BY <1>1, <1>2, <2>1, Pausing DEF Crash, Die, history
  <2>2. CASE PowerLoss
    BY <1>1, <2>2, PowerLossKeepsDisk
  <2> QED
    BY <2>1, <2>2
<1>4. /\ restarts' = restarts + 1 /\ restarts < MaxRestarts /\ phase' = "starting"
      /\ quarantined' = FALSE /\ unresolved' = {} /\ recovery' = [found |-> {}, todo |-> {}]
      /\ at' = [h \in Handlers |-> Idle] /\ dispatched' = dispatched
  BY <1>2 DEF Die, history
<1>5. /\ \A h \in Handlers : at'[h] = Idle
      /\ at' \in [Handlers -> HandlerStates]
  BY <1>4, IdleIsAState
<1>6. \A h \in Handlers : HandlerIsSound(h)'
  BY <1>5, IdleIsAState DEF HandlerIsSound
<1>7. restarts' \in 0..MaxRestarts
  BY <1>1, <1>4, LimitsAreNatural DEF ActorsOK
<1>8. ActorsOK'
  BY <1>1, <1>4, <1>5, <1>6, <1>7 DEF ActorsOK
<1>9. DoorsAreKept'
  BY <1>4, <1>5 DEF DoorsAreKept
<1>10. StartsAreRecorded'
  <2>1. \A o \in dispatched : StartWillBeIn(o)
    BY <1>1, <1>3, StartsStay DEF LedgerInv, StartsAreRecorded
  <2>2. \A h \in Handlers : at'[h].step \notin {"begun", "running"}
    BY <1>5, IdleIsAState
  <2> QED
    BY <1>4, <2>1, <2>2 DEF StartsAreRecorded, StartIsIn, StartWillBeIn
<1> QED
  BY <1>3, <1>4, <1>8, <1>9, <1>10 DEF LedgerInv

LEMMA InitIsSound == JournalInit => LedgerInv
<1> SUFFICES ASSUME JournalInit PROVE LedgerInv
  OBVIOUS
<1>1. EmptyHead \in Heads /\ EmptyHead.made = FALSE
  BY DEF EmptyHead, Heads
<1>2. DiskOK
  <2>1. durable \in [head : Heads, seq : Nat] /\ durable.seq = 0
    BY <1>1 DEF JournalInit
  <2>2. log = <<>> /\ head = EmptyHead /\ tail = "none" /\ stray = FALSE /\ acked = 0 /\ faults = 0
    BY DEF JournalInit
  <2>3. log \in Seq(Records) /\ Len(log) = 0
    BY <2>2
  <2>4. head \in Heads /\ faults \in 0..MaxFaults
    BY <1>1, <2>2, LimitsAreNatural
  <2>5. tail \in {"none", "torn", "line"} /\ stray \in BOOLEAN
    BY <2>2
  <2>6. acked = 0
    BY <2>2
  <2> QED
    BY <2>1, <2>3, <2>4, <2>5, <2>6 DEF DiskOK
<1>3. \A h \in Handlers : at[h] = Idle
  BY DEF JournalInit
<1>4. ActorsOK
  <2>1. at \in [Handlers -> HandlerStates]
    BY IdleIsAState DEF JournalInit
  <2>2. \A h \in Handlers : HandlerIsSound(h)
    BY <1>3, IdleIsAState DEF HandlerIsSound
  <2>3. /\ phase = "starting" /\ quarantined = FALSE /\ unresolved = {} /\ restarts = 0
        /\ dispatched = {} /\ recovery = [found |-> {}, todo |-> {}]
    BY DEF JournalInit
  <2>4. restarts \in 0..MaxRestarts /\ unresolved \subseteq Identities /\ dispatched \subseteq Operations
    BY <2>3, LimitsAreNatural
  <2>5. recovery \in [found : SUBSET Operations, todo : SUBSET Operations]
    BY <2>3
  <2> QED
    BY <2>1, <2>2, <2>3, <2>4, <2>5 DEF ActorsOK
<1>5. DoorsAreKept /\ StartsAreRecorded
  BY <1>3, IdleIsAState DEF JournalInit, DoorsAreKept, StartsAreRecorded
<1> QED
  BY <1>2, <1>4, <1>5 DEF LedgerInv

LEMMA StutterKeepsLedgerInv ==
    ASSUME LedgerInv, UNCHANGED journalVars
    PROVE  LedgerInv' /\ Kept
<1>1. UNCHANGED <<log, head, durable, tail, stray, phase, quarantined, unresolved, recovery,
                  at, restarts, faults, acked, dispatched>>
  BY DEF journalVars, disk, memory, history
<1>2. DiskOK' /\ Kept
  BY <1>1 DEF LedgerInv, DiskOK, Kept
<1>3. ActorsOK'
  BY <1>1 DEF LedgerInv, ActorsOK, HandlerIsSound
<1>4. DoorsAreKept' /\ StartsAreRecorded'
  BY <1>1 DEF LedgerInv, DoorsAreKept, StartsAreRecorded, StartIsIn
<1> QED
  BY <1>2, <1>3, <1>4 DEF LedgerInv

LEMMA LedgerInvHolds == JournalSpec => []LedgerInv
<1>1. JournalInit => LedgerInv
  BY InitIsSound
<1>2. LedgerInv /\ [JournalNext]_journalVars => LedgerInv'
  <2> SUFFICES ASSUME LedgerInv, [JournalNext]_journalVars PROVE LedgerInv'
    OBVIOUS
  <2>1. CASE Recover
    BY <2>1, RecoveryKeepsLedgerInv
  <2>2. CASE Crash \/ PowerLoss
    BY <2>2, DeathsKeepLedgerInv
  <2>3. CASE \E h \in Handlers : Handle(h)
    BY <2>3, HandlersKeepLedgerInv
  <2>4. CASE UNCHANGED journalVars
    BY <2>4, StutterKeepsLedgerInv
  <2> QED
    BY <2>1, <2>2, <2>3, <2>4 DEF JournalNext
<1> QED
  BY <1>1, <1>2, PTL DEF JournalSpec

\* Every variable has its type, and the disk never holds less than a power loss
\* would leave, for every size of the journal: durable.seq and acked never pass
\* the end of the chain.
THEOREM JournalIsTyped == JournalSpec => []JournalTypeOK
<1>1. LedgerInv /\ overlapped \subseteq Operations => JournalTypeOK
  <2> SUFFICES ASSUME LedgerInv, overlapped \subseteq Operations PROVE JournalTypeOK
    OBVIOUS
  <2>1. durable.seq \in 0..Len(log) /\ acked \in 0..Len(log)
    BY DEF LedgerInv, DiskOK
  <2>2. Steps = {"idle", "admit", "retain", "measure", "rotate", "archive", "append",
                 "begun", "running"}
    BY DEF Steps, Middle
  <2>3. at \in [Handlers -> [step : {"idle", "admit", "retain", "measure", "rotate",
                                     "archive", "append", "begun", "running"},
                             event : Records, owed : Nat]]
    BY <2>2 DEF LedgerInv, ActorsOK, HandlerStates
  <2>4. /\ log \in Seq(Records) /\ head \in Heads /\ tail \in {"none", "torn", "line"}
        /\ stray \in BOOLEAN /\ faults \in 0..MaxFaults
    BY DEF LedgerInv, DiskOK
  <2>5. /\ phase \in {"starting", "flagging", "serving", "blind"} /\ quarantined \in BOOLEAN
        /\ unresolved \subseteq Identities
        /\ recovery \in [found : SUBSET Operations, todo : SUBSET Operations]
        /\ restarts \in 0..MaxRestarts /\ dispatched \subseteq Operations
    BY DEF LedgerInv, ActorsOK
  <2> QED
    BY <2>1, <2>3, <2>4, <2>5 DEF JournalTypeOK, Records, Heads
<1>2. JournalInit => overlapped \subseteq Operations
  BY DEF JournalInit
<1>3. overlapped \subseteq Operations /\ [JournalNext]_journalVars
        => (overlapped \subseteq Operations)'
  <2> SUFFICES ASSUME overlapped \subseteq Operations, [JournalNext]_journalVars
               PROVE  overlapped' \subseteq Operations
    OBVIOUS
  <2>1. ASSUME NEW h \in Handlers, Handle(h) PROVE overlapped' \subseteq Operations
    BY <2>1, WhoOverlaps DEF OverlappedBy, Beside
  <2>2. CASE Recover \/ Crash \/ PowerLoss \/ UNCHANGED journalVars
    BY <2>2 DEF Recover, Scan, ScanFails, Flag, RecordScan, Working, Crash, PowerLoss, Die,
       journalVars, history
  <2> QED
    BY <2>1, <2>2 DEF JournalNext
<1> QED
  BY <1>1, <1>2, <1>3, LedgerInvHolds, PTL DEF JournalSpec

-----------------------------------------------------------------------------
\* The journal implements the ledger

LEMMA Prefixes ==
    ASSUME NEW s \in Seq(Records), NEW n \in Nat, n <= Len(s)
    PROVE  /\ SubSeq(s, 1, n) \in Seq(Records) /\ Len(SubSeq(s, 1, n)) = n
           /\ \A i \in 1..n : SubSeq(s, 1, n)[i] = s[i]
  OBVIOUS

LEMMA PrefixStays ==
    ASSUME NEW s \in Seq(Records), NEW n \in Nat, n <= Len(s),
           NEW t \in Seq(Records), NEW m \in Nat, m <= Len(t),
           n <= m, \A i \in 1..n : t[i] = s[i]
    PROVE  /\ SubSeq(SubSeq(t, 1, m), 1, n) = SubSeq(s, 1, n)
           /\ n = m => SubSeq(t, 1, m) = SubSeq(s, 1, n)
<1>1. /\ SubSeq(s, 1, n) \in Seq(Records) /\ Len(SubSeq(s, 1, n)) = n
      /\ \A i \in 1..n : SubSeq(s, 1, n)[i] = s[i]
  BY Prefixes
<1>2. /\ SubSeq(t, 1, m) \in Seq(Records) /\ Len(SubSeq(t, 1, m)) = m
      /\ \A i \in 1..m : SubSeq(t, 1, m)[i] = t[i]
  BY Prefixes
<1> DEFINE u == SubSeq(t, 1, m)
<1>3. /\ SubSeq(u, 1, n) \in Seq(Records) /\ Len(SubSeq(u, 1, n)) = n
      /\ \A i \in 1..n : SubSeq(u, 1, n)[i] = u[i]
  BY <1>2, Prefixes
<1>4. SubSeq(u, 1, n) = SubSeq(s, 1, n)
  <2>1. \A i \in 1..n : SubSeq(u, 1, n)[i] = SubSeq(s, 1, n)[i]
    <3> TAKE i \in 1..n
    <3>1. i \in 1..m
      OBVIOUS
    <3> QED
      BY <1>1, <1>2, <1>3, <3>1
  <2> QED
    BY <1>1, <1>3, <2>1
<1>5. ASSUME n = m PROVE u = SubSeq(s, 1, n)
  <2>1. \A i \in 1..n : u[i] = SubSeq(s, 1, n)[i]
    BY <1>1, <1>2, <1>5
  <2> QED
    BY <1>1, <1>2, <1>5, <2>1
<1> QED
  BY <1>4, <1>5

LEMMA AcknowledgedIsKept ==
    ASSUME DiskOK, DiskOK', Kept
    PROVE  /\ Len(Acknowledged) = acked /\ Len(Acknowledged') = acked'
           /\ SubSeq(Acknowledged', 1, acked) = Acknowledged
           /\ acked' = acked => Acknowledged' = Acknowledged
           /\ \A i \in 1..acked : Acknowledged[i] = log[i]
<1>1. log \in Seq(Records) /\ acked \in Nat /\ acked <= Len(log)
  BY DEF DiskOK
<1>2. log' \in Seq(Records) /\ acked' \in Nat /\ acked' <= Len(log')
  BY DEF DiskOK
<1>3. Acknowledged = SubSeq(log, 1, acked)
  BY <1>1 DEF Acknowledged
<1>4. Acknowledged' = SubSeq(log', 1, acked')
  BY <1>2 DEF Acknowledged
<1>5. acked <= acked' /\ \A i \in 1..acked : log'[i] = log[i]
  BY DEF Kept
<1>6. /\ SubSeq(SubSeq(log', 1, acked'), 1, acked) = SubSeq(log, 1, acked)
      /\ acked = acked' => SubSeq(log', 1, acked') = SubSeq(log, 1, acked)
  BY <1>1, <1>2, <1>5, PrefixStays
<1>7. /\ Len(SubSeq(log, 1, acked)) = acked /\ Len(SubSeq(log', 1, acked')) = acked'
      /\ \A i \in 1..acked : SubSeq(log, 1, acked)[i] = log[i]
  BY <1>1, <1>2, Prefixes
<1> QED
  BY <1>3, <1>4, <1>6, <1>7

LEMMA Keeping ==
    ASSUME DiskOK, DiskOK', Kept, dispatched' = dispatched
    PROVE  [Ledger!LedgerNext]_(Ledger!ledgerVars)
<1>1. /\ Len(Acknowledged) = acked /\ Len(Acknowledged') = acked'
      /\ SubSeq(Acknowledged', 1, acked) = Acknowledged
      /\ acked' = acked => Acknowledged' = Acknowledged
      /\ acked \in Nat /\ acked' \in Nat /\ acked <= acked'
  BY AcknowledgedIsKept DEF Kept, DiskOK
<1>2. CASE acked' = acked
  BY <1>1, <1>2 DEF Ledger!ledgerVars
<1>3. CASE acked' # acked
  <2>1. Len(Acknowledged) < Len(Acknowledged')
    BY <1>1, <1>3
  <2>2. SubSeq(Acknowledged', 1, Len(Acknowledged)) = Acknowledged
    BY <1>1
  <2>3. Ledger!Acknowledge
    BY <2>1, <2>2 DEF Ledger!Acknowledge
  <2> QED
    BY <2>3 DEF Ledger!LedgerNext
<1> QED
  BY <1>2, <1>3

LEMMA Performing ==
    ASSUME LedgerInv, DiskOK', Kept, NEW h \in Handlers, Runs(h)
    PROVE  [Ledger!LedgerNext]_(Ledger!ledgerVars)
<1> DEFINE o == at[h].event.op
<1>1. at[h].step = "begun" /\ dispatched' = dispatched \cup {o} /\ acked' = acked
  BY DEF Runs
<1>2. StartIsIn(o, acked) /\ o \in Operations
  BY <1>1 DEF LedgerInv, StartsAreRecorded, ActorsOK, HandlerIsSound
<1>3. /\ Len(Acknowledged) = acked /\ Acknowledged' = Acknowledged
      /\ \A i \in 1..acked : Acknowledged[i] = log[i]
  BY <1>1, AcknowledgedIsKept DEF LedgerInv
<1>4. Ledger!Tells(o)
  BY <1>2, <1>3 DEF Ledger!Tells, StartIsIn
<1>5. CASE o \in dispatched
  <2>1. dispatched' = dispatched
    BY <1>1, <1>5
  <2> QED
    BY <1>3, <2>1 DEF Ledger!ledgerVars
<1>6. CASE o \notin dispatched
  <2>1. Ledger!Perform(o)
    BY <1>1, <1>3, <1>4, <1>6 DEF Ledger!Perform
  <2> QED
    BY <1>2, <2>1 DEF Ledger!LedgerNext
<1> QED
  BY <1>5, <1>6

\* The journal implements the ledger: for every number of handlers, deaths,
\* power losses and failed writes, a record that was acknowledged stays at its
\* place, and an effect begins only after its start record was acknowledged.
THEOREM JournalKeepsLedger == JournalSpec => KeepsLedger
<1>1. JournalInit => Ledger!LedgerInit
  <2> SUFFICES ASSUME JournalInit PROVE Ledger!LedgerInit
    OBVIOUS
  <2>1. log = <<>> /\ acked = 0 /\ dispatched = {}
    BY DEF JournalInit
  <2>2. Acknowledged = <<>>
    BY <2>1 DEF Acknowledged
  <2> QED
    BY <2>1, <2>2 DEF Ledger!LedgerInit
<1>2. LedgerInv /\ [JournalNext]_journalVars => [Ledger!LedgerNext]_(Ledger!ledgerVars)
  <2> SUFFICES ASSUME LedgerInv, [JournalNext]_journalVars
               PROVE  [Ledger!LedgerNext]_(Ledger!ledgerVars)
    OBVIOUS
  <2>1. DiskOK
    BY DEF LedgerInv
  <2>2. CASE Recover
    <3>1. DiskOK' /\ Kept /\ dispatched' = dispatched
      BY <2>2, RecoveryKeepsLedgerInv DEF LedgerInv
    <3> QED
      BY <2>1, <3>1, Keeping
  <2>3. CASE Crash \/ PowerLoss
    <3>1. DiskOK' /\ Kept /\ dispatched' = dispatched
      BY <2>3, DeathsKeepLedgerInv DEF LedgerInv
    <3> QED
      BY <2>1, <3>1, Keeping
  <2>4. CASE \E h \in Handlers : Handle(h)
    <3>1. PICK h \in Handlers : Handle(h)
      BY <2>4
    <3>2. /\ DiskOK' /\ Kept
          /\ \/ GoesOn(h) \/ Gives(h) \/ Starts(h) \/ Ends(h)
             \/ Runs(h) \/ Comes(h) \/ Asks(h)
      BY <3>1, HandlerSteps
    <3>3. CASE Runs(h)
      BY <3>2, <3>3, Performing
    <3>4. CASE ~Runs(h)
      <4>1. dispatched' = dispatched
        BY <3>2, <3>4 DEF GoesOn, Gives, Starts, Ends, Comes, Asks
      <4> QED
        BY <2>1, <3>2, <4>1, Keeping
    <3> QED
      BY <3>3, <3>4
  <2>5. CASE UNCHANGED journalVars
    <3>1. DiskOK' /\ Kept /\ dispatched' = dispatched
      BY <2>5, StutterKeepsLedgerInv DEF LedgerInv, journalVars, history
    <3> QED
      BY <2>1, <3>1, Keeping
  <2> QED
    BY <2>2, <2>3, <2>4, <2>5 DEF JournalNext
<1> QED
  BY <1>1, <1>2, LedgerInvHolds, PTL DEF JournalSpec, KeepsLedger, Ledger!LedgerSpec

-----------------------------------------------------------------------------
\* Recovery flags honestly

Flagged == Resolving \cup {"orphaned"}

HonestInv ==
    /\ OrphansAreHonest
    /\ phase = "flagging" => \A o \in recovery.todo : ~Told(o, Flagged, Len(log))

LEMMA HonestPrefixes ==
    ASSUME log \in Seq(Records), log' \in Seq(Records), Len(log') <= Len(log),
           \A i \in 1..Len(log') : log'[i] = log[i], OrphansAreHonest
    PROVE  OrphansAreHonest'
<1> SUFFICES ASSUME NEW i \in 1..Len(log'), log'[i].kind = "orphaned",
                    NEW j \in 1..(i - 1),
                    log'[j].op = log'[i].op, log'[j].kind \in Resolving \cup {"orphaned"}
             PROVE  FALSE
  BY DEF OrphansAreHonest, Told
<1>1. Len(log) \in Nat /\ Len(log') \in Nat
  OBVIOUS
<1>2. i \in 1..Len(log) /\ j \in 1..Len(log') /\ log'[i] = log[i] /\ log'[j] = log[j]
  BY <1>1
<1>3. Told(log[i].op, Resolving \cup {"orphaned"}, i - 1)
  BY <1>2 DEF Told
<1> QED
  BY <1>2, <1>3 DEF OrphansAreHonest

LEMMA HonestAppends ==
    ASSUME log \in Seq(Records), NEW e \in Records, log' = Append(log, e), OrphansAreHonest,
           e.kind = "orphaned" => ~Told(e.op, Flagged, Len(log))
    PROVE  OrphansAreHonest'
<1> SUFFICES ASSUME NEW i \in 1..Len(log'), log'[i].kind = "orphaned",
                    NEW j \in 1..(i - 1),
                    log'[j].op = log'[i].op, log'[j].kind \in Resolving \cup {"orphaned"}
             PROVE  FALSE
  BY DEF OrphansAreHonest, Told
<1>1. /\ Len(log) \in Nat /\ Len(log') = Len(log) + 1 /\ log'[Len(log) + 1] = e
      /\ \A n \in 1..Len(log) : log'[n] = log[n]
  OBVIOUS
<1>2. j \in 1..Len(log) /\ log'[j] = log[j]
  BY <1>1
<1>3. CASE i \in 1..Len(log)
  <2>1. log'[i] = log[i]
    BY <1>1, <1>3
  <2>2. Told(log[i].op, Resolving \cup {"orphaned"}, i - 1)
    BY <1>2, <2>1 DEF Told
  <2> QED
    BY <1>3, <2>1, <2>2 DEF OrphansAreHonest
<1>4. CASE i = Len(log) + 1
  <2>1. log'[i] = e
    BY <1>1, <1>4
  <2>2. Told(e.op, Flagged, Len(log))
    BY <1>2, <2>1 DEF Told, Flagged
  <2> QED
    BY <2>1, <2>2
<1> QED
  BY <1>1, <1>3, <1>4

\* What a handler writes is never an orphan's record.
LEMMA HandlersWrite ==
    ASSUME LedgerInv, NEW h \in Handlers, Handle(h)
    PROVE  \/ log' = log
           \/ \E n \in Nat : log' = Append(log, Retention(n))
           \/ /\ log' = Append(log, at[h].event) /\ at[h].event \in Records
              /\ at[h].event.kind \in {"note", "started", "settled", "indeterminate", "resolved"}
<1>1. at[h].event \in Records
  BY DEF LedgerInv, ActorsOK, HandlerStates
<1>2. at[h].event.kind \in {"note", "started", "settled", "indeterminate", "resolved"}
  BY DEF LedgerInv, ActorsOK, HandlerIsSound
<1>3. GoesOn(h) \/ Gives(h) \/ Starts(h) \/ Ends(h) \/ Runs(h) \/ Comes(h) \/ Asks(h)
  BY HandlerSteps
<1>4. log' = log \/ (\E n \in Nat : log' = Append(log, Retention(n)))
      \/ log' = Append(log, at[h].event)
  BY <1>3 DEF GoesOn, Gives, Starts, Ends, Runs, Comes, Asks, Quietly
<1> QED
  BY <1>1, <1>2, <1>4

LEMMA HandlersStayHonest ==
    ASSUME LedgerInv, HonestInv, NEW h \in Handlers, Handle(h)
    PROVE  HonestInv'
<1>1. log \in Seq(Records) /\ log' \in Seq(Records) /\ Len(log) \in Nat
  BY HandlerSteps DEF LedgerInv, DiskOK
<1>2. phase' = phase /\ phase \in {"serving", "blind"}
  BY HandlerSteps, StepsLand DEF Unmoved
<1>3. OrphansAreHonest'
  <2>1. CASE log' = log
    BY <1>1, <2>1, HonestPrefixes DEF HonestInv
  <2>2. CASE \E n \in Nat : log' = Append(log, Retention(n))
    BY <1>1, <2>2, RetentionsAreRecords, HonestAppends DEF HonestInv
  <2>3. CASE /\ log' = Append(log, at[h].event) /\ at[h].event \in Records
             /\ at[h].event.kind \in {"note", "started", "settled", "indeterminate", "resolved"}
    BY <1>1, <2>3, HonestAppends DEF HonestInv
  <2> QED
    BY <2>1, <2>2, <2>3, HandlersWrite
<1> QED
  BY <1>2, <1>3 DEF HonestInv

LEMMA RecoveryStaysHonest ==
    ASSUME LedgerInv, HonestInv, Recover
    PROVE  HonestInv'
<1>1. /\ log \in Seq(Records) /\ Len(log) \in Nat /\ DiskOK /\ ActorsOK
      /\ recovery \in [found : SUBSET Operations, todo : SUBSET Operations]
  BY DEF LedgerInv, DiskOK, ActorsOK
<1>2. CASE Scan \/ ScanFails
  <2>1. log' = log
    BY <1>1, <1>2, ScanSteps
  <2>2. OrphansAreHonest'
    BY <1>1, <2>1, HonestPrefixes DEF HonestInv
  <2>3. ASSUME phase' = "flagging", NEW o \in recovery'.todo
        PROVE  ~Told(o, Flagged, Len(log))
    <3>1. recovery' = [found |-> Found, todo |-> Unflagged]
      BY <1>2, <2>3 DEF Scan, ScanFails, Serve
    <3>2. o \in Unflagged
      BY <2>3, <3>1
    <3> QED
      BY <3>2 DEF Unflagged, OpenNow, Open, Told, Flagged, Flagging
  <2>4. \A o : Told(o, Flagged, Len(log))' <=> Told(o, Flagged, Len(log))
    BY <2>1 DEF Told
  <2> QED
    BY <2>2, <2>3, <2>4 DEF HonestInv
<1>3. ASSUME NEW o \in Operations, Flag(o) PROVE HonestInv'
  <2> DEFINE e == Event("orphaned", o)
  <2>1. e \in Records /\ e.kind = "orphaned" /\ e.op = o
    BY EventsAreRecords DEF Kinds, Closure, Flagging
  <2> HIDE DEF e
  <2>2. ~Told(o, Flagged, Len(log)) /\ phase = "flagging" /\ o \in recovery.todo
    BY <1>3 DEF Flag, HonestInv
  <2>3. log' = log \/ log' = Append(log, e)
    BY <1>1, <1>3, <2>2, FlagSteps DEF Recovers, e
  <2>4. OrphansAreHonest'
    <3>1. CASE log' = log
      BY <1>1, <3>1, HonestPrefixes DEF HonestInv
    <3>2. CASE log' = Append(log, e)
      BY <1>1, <2>1, <2>2, <3>2, HonestAppends DEF HonestInv
    <3> QED
      BY <2>3, <3>1, <3>2
  <2>5. ASSUME phase' = "flagging", NEW p \in recovery'.todo, Told(p, Flagged, Len(log))'
        PROVE  FALSE
    <3>1. /\ log' = Append(log, e)
          /\ recovery' = [recovery EXCEPT !.todo = recovery.todo \ {o}]
      BY <1>1, <1>3, <2>1, <2>5, StoredKeepsDisk DEF Flag, Serve, e
    <3>2. p \in recovery.todo /\ p # o
      BY <1>1, <2>5, <3>1
    <3>3. PICK i \in 1..Len(log') : log'[i].op = p /\ log'[i].kind \in Flagged
      BY <2>5 DEF Told
    <3>4. log'[i] = log[i] /\ i \in 1..Len(log)
      BY <1>1, <2>1, <3>1, <3>2, <3>3
    <3>5. Told(p, Flagged, Len(log))
      BY <3>3, <3>4 DEF Told
    <3> QED
      BY <2>2, <3>2, <3>5 DEF HonestInv
  <2> QED
    BY <2>4, <2>5 DEF HonestInv
<1>4. CASE RecordScan
  <2> DEFINE e == Event("scanned", None)
  <2>1. e \in Records /\ e.kind = "scanned"
    BY EventsAreRecords DEF Kinds, Closure
  <2> HIDE DEF e
  <2>2. log' = log \/ log' = Append(log, e)
    BY <1>1, <1>4, RecordScanSteps DEF Recovers, e
  <2>3. OrphansAreHonest'
    <3>1. CASE log' = log
      BY <1>1, <3>1, HonestPrefixes DEF HonestInv
    <3>2. CASE log' = Append(log, e)
      BY <1>1, <2>1, <3>2, HonestAppends DEF HonestInv
    <3> QED
      BY <2>2, <3>1, <3>2
  <2>4. phase' = "serving"
    BY <1>4 DEF RecordScan, Serve
  <2> QED
    BY <2>3, <2>4 DEF HonestInv
<1> QED
  BY <1>2, <1>3, <1>4 DEF Recover

LEMMA DeathsStayHonest ==
    ASSUME LedgerInv, HonestInv, Crash \/ PowerLoss
    PROVE  HonestInv'
<1>1. phase' = "starting"
  BY DEF Crash, PowerLoss, Die
<1>2. /\ log \in Seq(Records) /\ log' \in Seq(Records) /\ Len(log') <= Len(log)
      /\ \A i \in 1..Len(log') : log'[i] = log[i]
  <2>1. DiskOK
    BY DEF LedgerInv
  <2>2. CASE Crash
    BY <2>1, <2>2 DEF DiskOK, Crash, disk
  <2>3. CASE PowerLoss
    BY <2>1, <2>3, PowerLossKeepsDisk DEF DiskOK
  <2> QED
    BY <2>2, <2>3
<1> QED
  BY <1>1, <1>2, HonestPrefixes DEF HonestInv

\* Recovery flags an operation at most once, and never one whose end the chain
\* already tells, through deaths, power losses and failed writes of any number.
THEOREM OrphansStayHonest == JournalSpec => []OrphansAreHonest
<1>1. JournalInit => HonestInv
  BY DEF JournalInit, HonestInv, OrphansAreHonest
<1>2. LedgerInv /\ HonestInv /\ [JournalNext]_journalVars => HonestInv'
  <2> SUFFICES ASSUME LedgerInv, HonestInv, [JournalNext]_journalVars PROVE HonestInv'
    OBVIOUS
  <2>1. CASE Recover
    BY <2>1, RecoveryStaysHonest
  <2>2. CASE Crash \/ PowerLoss
    BY <2>2, DeathsStayHonest
  <2>3. CASE \E h \in Handlers : Handle(h)
    BY <2>3, HandlersStayHonest
  <2>4. CASE UNCHANGED journalVars
    BY <2>4 DEF HonestInv, OrphansAreHonest, Told, journalVars, disk, memory
  <2> QED
    BY <2>1, <2>2, <2>3, <2>4 DEF JournalNext
<1>3. HonestInv => OrphansAreHonest
  BY DEF HonestInv
<1> QED
  BY <1>1, <1>2, <1>3, LedgerInvHolds, PTL DEF JournalSpec

-----------------------------------------------------------------------------
\* While the outcome of a mutation is unknown it is not run again

Brackets == {"started", "settled", "indeterminate"}
Has(h, K, o) == at[h].event.kind \in K /\ at[h].event.op = o
Loose(o) == o \in dispatched /\ ~Told(o, Resolving, Len(log))
Healthy == phase = "serving" /\ ~quarantined
Excused(o) == Conceded(o) \/ o \in overlapped

\* Two brackets in flight are different, and if they are of one identity they
\* count as overlapped.
Apart ==
    \A g, h \in Handlers : \A o, p \in Operations :
        g # h /\ Has(g, Brackets, o) /\ Has(h, Brackets, p) =>
            /\ o # p
            /\ IdentityOf[o] = IdentityOf[p] => o \in overlapped /\ p \in overlapped

\* A bracket that does not run yet has had no effect.
Untouched ==
    \A h \in Handlers : \A o \in Operations :
        Has(h, {"started"}, o) /\ at[h].step # "running" => o \notin dispatched

\* A handler about to record a doubt has made its identity refused, unless the
\* bracket is excused.
Doubted ==
    \A h \in Handlers : \A o \in Operations :
        Has(h, {"indeterminate"}, o) /\ Loose(o)
            => IdentityOf[o] \in unresolved \/ Excused(o)

\* The startup pass has found everything that is loose.
FoundAll ==
    phase = "flagging" => \A o \in Operations : Loose(o) => o \in recovery.found

\* What is loose is tended, or refused, or an operator has conceded it, or it
\* was in flight beside another bracket of its identity.
Guarded ==
    Healthy => \A o \in Operations : Loose(o) =>
        \/ \E h \in Handlers : Has(h, Brackets, o)
        \/ IdentityOf[o] \in unresolved \/ Excused(o)

\* Nothing else of the identity of a bracket in flight is loose, unless excused.
Alone ==
    Healthy => \A h \in Handlers : \A o, p \in Operations :
        /\ Has(h, Brackets, p) /\ o # p /\ IdentityOf[o] = IdentityOf[p] /\ Loose(o)
        => Excused(o)

ReplayInv == Apart /\ Untouched /\ Doubted /\ FoundAll /\ Guarded /\ Alone

Grows == log' = log \/ \E e \in Records : log' = Append(log, e)

\* What the chain tells of an operation it goes on telling.
LEMMA GrowingTells ==
    ASSUME log \in Seq(Records), Grows, NEW o \in Operations
    PROVE  /\ Told(o, Resolving, Len(log)) => Told(o, Resolving, Len(log))'
           /\ Conceded(o) => Conceded(o)'
           /\ o \in dispatched /\ Loose(o)' => Loose(o)
<1>1. /\ Len(log) \in Nat /\ Len(log') \in Nat /\ Len(log) <= Len(log')
      /\ \A i \in 1..Len(log) : log'[i] = log[i] /\ i \in 1..Len(log')
  BY DEF Grows
<1>2. ASSUME Told(o, Resolving, Len(log)) PROVE Told(o, Resolving, Len(log))'
  BY <1>1, <1>2 DEF Told
<1>3. ASSUME Conceded(o) PROVE Conceded(o)'
  <2>1. PICK i, j \in 1..Len(log) :
            /\ i < j /\ log[i].op = o /\ log[i].kind = "started"
            /\ log[j].kind = "resolved" /\ IdentityOf[log[j].op] = IdentityOf[o]
    BY <1>3 DEF Conceded
  <2> QED
    BY <1>1, <2>1 DEF Conceded
<1> QED
  BY <1>2, <1>3 DEF Loose

LEMMA HandlersGrow ==
    ASSUME LedgerInv, NEW h \in Handlers, Handle(h)
    PROVE  Grows /\ log \in Seq(Records)
<1>1. \A n \in Nat : Retention(n) \in Records
  BY RetentionsAreRecords
<1> QED
  BY <1>1, HandlersWrite DEF Grows, LedgerInv, DiskOK

\* A handler that goes on with its bracket.
LEMMA CarryingOn ==
    ASSUME ReplayInv, at \in [Handlers -> HandlerStates], log \in Seq(Records), Grows,
           NEW h \in Handlers, NEW x \in HandlerStates, Becomes(h, x),
           x.event.op = at[h].event.op,
           x.event.kind \in Brackets <=> at[h].event.kind \in Brackets,
           x.event.kind = "started" => at[h].event.kind = "started" /\ at[h].step # "running",
           x.event.kind = "indeterminate" =>
               at[h].event.kind = "indeterminate" \/ IdentityOf[at[h].event.op] \in unresolved',
           unresolved \subseteq unresolved', dispatched' = dispatched, overlapped' = overlapped,
           UNCHANGED <<phase, quarantined>>, phase # "flagging"
    PROVE  ReplayInv'
<1>1. at'[h] = x /\ \A g \in Handlers : g # h => at'[g] = at[g]
  BY DEF Becomes
<1>2. \A g \in Handlers : \A o \in Operations : Has(g, Brackets, o)' <=> Has(g, Brackets, o)
  BY <1>1 DEF Has
<1>3. \A o \in Operations : (Excused(o) => Excused(o)') /\ (Loose(o)' => Loose(o))
  BY GrowingTells DEF Loose, Excused
<1>4. Healthy' <=> Healthy
  BY DEF Healthy
<1>5. Apart'
  BY <1>2 DEF ReplayInv, Apart
<1>6. Untouched'
  <2> SUFFICES ASSUME NEW g \in Handlers, NEW o \in Operations,
                      Has(g, {"started"}, o)', at'[g].step # "running"
               PROVE  o \notin dispatched
    BY DEF Untouched
  <2>1. Has(g, {"started"}, o) /\ at[g].step # "running"
    BY <1>1 DEF Has
  <2> QED
    BY <2>1 DEF ReplayInv, Untouched
<1>7. Doubted'
  <2> SUFFICES ASSUME NEW g \in Handlers, NEW o \in Operations,
                      Has(g, {"indeterminate"}, o)', Loose(o)'
               PROVE  IdentityOf[o] \in unresolved' \/ Excused(o)'
    BY DEF Doubted
  <2>1. Has(g, {"indeterminate"}, o) \/ IdentityOf[o] \in unresolved'
    BY <1>1 DEF Has
  <2> QED
    BY <1>3, <2>1 DEF ReplayInv, Doubted
<1>8. FoundAll'
  BY DEF FoundAll
<1>9. Guarded'
  BY <1>2, <1>3, <1>4 DEF ReplayInv, Guarded
<1>10. Alone'
  BY <1>2, <1>3, <1>4 DEF ReplayInv, Alone
<1> QED
  BY <1>5, <1>6, <1>7, <1>8, <1>9, <1>10 DEF ReplayInv

\* A handler that lays down its record: the chain tells how its operation ended,
\* or it had no effect, or its identity is refused or it is excused.
LEMMA LayingDown ==
    ASSUME ReplayInv, at \in [Handlers -> HandlerStates], log \in Seq(Records), Grows,
           NEW h \in Handlers, Becomes(h, Idle),
           \A o \in Operations : Has(h, Brackets, o) /\ Loose(o)' =>
               IdentityOf[o] \in unresolved' \/ Excused(o)',
           \A o \in Operations :
               /\ Loose(o)' /\ IdentityOf[o] \in unresolved \ unresolved'
               /\ Healthy \/ \E g \in Handlers : g # h /\ Has(g, Brackets, o)
               => Excused(o)',
           dispatched' = dispatched, overlapped' = overlapped, UNCHANGED <<phase, quarantined>>, phase # "flagging"
    PROVE  ReplayInv'
<1>1. at'[h] = Idle /\ \A g \in Handlers : g # h => at'[g] = at[g]
  BY DEF Becomes
<1>2. \A K : \A o \in Operations : ~Has(h, K, o)'
  BY <1>1, IdleIsAState, JournalNames DEF Has
<1>3. \A g \in Handlers : g # h => \A K : \A o \in Operations : Has(g, K, o)' <=> Has(g, K, o)
  BY <1>1 DEF Has
<1>4. \A o \in Operations : (Excused(o) => Excused(o)') /\ (Loose(o)' => Loose(o))
  BY GrowingTells DEF Loose, Excused
<1>5. Healthy' <=> Healthy
  BY DEF Healthy
<1>6. Apart'
  BY <1>2, <1>3 DEF ReplayInv, Apart
<1>7. Untouched'
  <2> SUFFICES ASSUME NEW g \in Handlers, NEW o \in Operations,
                      Has(g, {"started"}, o)', at'[g].step # "running"
               PROVE  o \notin dispatched
    BY DEF Untouched
  <2>1. Has(g, {"started"}, o) /\ at[g].step # "running"
    BY <1>1, <1>2, <1>3
  <2> QED
    BY <2>1 DEF ReplayInv, Untouched
<1>8. Doubted'
  <2> SUFFICES ASSUME NEW g \in Handlers, NEW o \in Operations,
                      Has(g, {"indeterminate"}, o)', Loose(o)'
               PROVE  IdentityOf[o] \in unresolved' \/ Excused(o)'
    BY DEF Doubted
  <2>1. Has(g, {"indeterminate"}, o) /\ Loose(o) /\ g # h
    BY <1>2, <1>3, <1>4
  <2>3. Has(g, Brackets, o)
    BY <2>1 DEF Has, Brackets
  <2>2. IdentityOf[o] \in unresolved \/ Excused(o)
    BY <2>1 DEF ReplayInv, Doubted
  <2> QED
    BY <1>4, <2>1, <2>2, <2>3
<1>9. FoundAll'
  BY DEF FoundAll
<1>10. Guarded'
  <2> SUFFICES ASSUME Healthy, NEW o \in Operations, Loose(o)',
                      ~\E g \in Handlers : Has(g, Brackets, o)'
               PROVE  IdentityOf[o] \in unresolved' \/ Excused(o)'
    BY <1>5 DEF Guarded
  <2>1. CASE Has(h, Brackets, o)
    BY <2>1
  <2>2. CASE ~Has(h, Brackets, o)
    <3>1. ~\E g \in Handlers : Has(g, Brackets, o)
      BY <1>3, <2>2
    <3>2. IdentityOf[o] \in unresolved \/ Excused(o)
      BY <1>4, <3>1 DEF ReplayInv, Guarded
    <3> QED
      BY <1>4, <3>2
  <2> QED
    BY <2>1, <2>2
<1>11. Alone'
  BY <1>2, <1>3, <1>4, <1>5 DEF ReplayInv, Alone
<1> QED
  BY <1>6, <1>7, <1>8, <1>9, <1>10, <1>11 DEF ReplayInv

\* A resolution concedes everything loose of its identity.
LEMMA ResolvingConcedes ==
    ASSUME LedgerInv, NEW r \in Operations, NEW e \in Records, e.kind = "resolved", e.op = r,
           log' = Append(log, e), NEW o \in dispatched, IdentityOf[o] = IdentityOf[r]
    PROVE  Conceded(o)'
<1>1. /\ log \in Seq(Records) /\ acked \in Nat /\ acked <= Len(log)
      /\ StartIsIn(o, acked)
  BY DEF LedgerInv, DiskOK, StartsAreRecorded
<1>2. PICK i \in 1..acked : log[i].op = o /\ log[i].kind = "started"
  BY <1>1 DEF StartIsIn
<1>3. /\ i \in 1..Len(log') /\ log'[i] = log[i] /\ i < Len(log')
      /\ Len(log') \in 1..Len(log') /\ log'[Len(log')] = e
  BY <1>1, <1>2
<1> QED
  BY <1>2, <1>3 DEF Conceded

LEMMA DroppingKeepsReplayInv ==
    ASSUME LedgerInv, ReplayInv, Grows, overlapped' = overlapped, NEW h \in Handlers, phase # "flagging",
           UNCHANGED <<phase, quarantined>>, Gives(h), Drops(h)
    PROVE  ReplayInv'
<1>1. at \in [Handlers -> HandlerStates] /\ log \in Seq(Records)
  BY DEF LedgerInv, ActorsOK, DiskOK
<1>2. /\ Becomes(h, Idle) /\ unresolved' = unresolved /\ dispatched' = dispatched
      /\ at[h].event.kind # "settled" /\ at[h].step # "running"
  BY DEF Gives, Drops, Becomes, Middle
<1>3. ASSUME NEW o \in Operations, Has(h, Brackets, o), Loose(o)'
      PROVE  IdentityOf[o] \in unresolved' \/ Excused(o)'
  <2>1. Loose(o) /\ (Excused(o) => Excused(o)')
    BY <1>1, <1>2, <1>3, GrowingTells DEF Loose, Excused
  <2>2. CASE Has(h, {"started"}, o)
    BY <1>2, <2>1, <2>2 DEF ReplayInv, Untouched, Loose
  <2>3. CASE Has(h, {"indeterminate"}, o)
    BY <1>2, <2>1, <2>3 DEF ReplayInv, Doubted
  <2> QED
    BY <1>2, <1>3, <2>2, <2>3 DEF Has, Brackets
<1> QED
  BY <1>1, <1>2, <1>3, LayingDown

LEMMA EndingKeepsReplayInv ==
    ASSUME LedgerInv, ReplayInv, Grows, overlapped' = overlapped, NEW h \in Handlers, phase # "flagging",
           ~quarantined, phase \in {"serving", "blind"},
           UNCHANGED <<phase, quarantined>>, Ends(h)
    PROVE  ReplayInv'
<1> DEFINE e == at[h].event
<1>1. /\ at \in [Handlers -> HandlerStates] /\ log \in Seq(Records) /\ e \in Records
      /\ e.kind = "note" \/ (e.kind \in {"started", "settled", "indeterminate", "resolved"}
                             /\ e.op \in Operations)
  BY DEF LedgerInv, ActorsOK, DiskOK, HandlerStates, HandlerIsSound
<1>2. /\ Becomes(h, Idle) /\ dispatched' = dispatched /\ log' = Append(log, e)
      /\ e.kind # "started"
      /\ unresolved' = IF e.kind \in Resolving
                       THEN unresolved \ {IdentityOf[e.op]} ELSE unresolved
  BY DEF Ends, Becomes
<1> HIDE DEF e
<1>3. \A o \in Operations : Has(h, Brackets, o) => o = e.op /\ e.kind \in Brackets
  BY DEF Has, e
<1>4. ASSUME NEW o \in Operations, Loose(o)'
      PROVE  Loose(o) /\ (Excused(o) => Excused(o)')
  BY <1>1, <1>2, <1>4, GrowingTells DEF Loose, Excused
<1>5. ASSUME e.kind \in Resolving, NEW o \in Operations, o = e.op, Loose(o)' PROVE FALSE
  <2>1. \E i \in 1..Len(log') : log'[i].op = o /\ log'[i].kind \in Resolving
    <3>1. Len(log') \in 1..Len(log') /\ log'[Len(log')] = e
      BY <1>1, <1>2
    <3> QED
      BY <1>5, <3>1
  <2> QED
    BY <1>5, <2>1 DEF Loose, Told
<1>6. ASSUME NEW o \in Operations, Has(h, Brackets, o), Loose(o)'
      PROVE  IdentityOf[o] \in unresolved' \/ Excused(o)'
  <2>1. o = e.op /\ e.kind = "indeterminate"
    BY <1>2, <1>3, <1>5, <1>6 DEF Brackets, Resolving
  <2>2. Has(h, {"indeterminate"}, o)
    BY <1>6, <2>1 DEF Has, e
  <2>3. unresolved' = unresolved
    BY <1>2, <2>1 DEF Resolving
  <2> QED
    BY <1>4, <1>6, <2>2, <2>3 DEF ReplayInv, Doubted
<1>7. ASSUME NEW o \in Operations, Loose(o)', IdentityOf[o] \in unresolved \ unresolved',
             Healthy \/ \E g \in Handlers : g # h /\ Has(g, Brackets, o)
      PROVE  Excused(o)'
  <2>1. /\ e.kind \in Resolving /\ IdentityOf[o] = IdentityOf[e.op] /\ e.op \in Operations
        /\ o \in dispatched
    BY <1>1, <1>2, <1>4, <1>7 DEF Resolving, Loose
  <2>2. CASE e.kind = "resolved"
    BY <1>1, <1>2, <2>1, <2>2, ResolvingConcedes DEF Excused
  <2>3. CASE e.kind = "settled"
    <3>1. Has(h, Brackets, e.op)
      BY <2>3 DEF Has, Brackets, e
    <3>2. o # e.op /\ Loose(o)
      BY <1>4, <1>5, <1>7, <2>1
    <3>3. \A g \in Handlers : g # h /\ Has(g, Brackets, o) => o \in overlapped
      BY <2>1, <3>1 DEF ReplayInv, Apart
    <3>4. Excused(o)
      BY <1>7, <2>1, <3>1, <3>2, <3>3 DEF ReplayInv, Alone, Excused
    <3> QED
      BY <1>4, <1>7, <3>4
  <2> QED
    BY <2>1, <2>2, <2>3 DEF Resolving
<1> QED
  BY <1>1, <1>2, <1>6, <1>7, LayingDown

LEMMA RunningKeepsReplayInv ==
    ASSUME LedgerInv, ReplayInv, overlapped' = overlapped, NEW h \in Handlers, phase # "flagging",
           UNCHANGED <<phase, quarantined>>, Runs(h)
    PROVE  ReplayInv'
<1>1. PICK x \in HandlerStates : Becomes(h, x) /\ x.step = "running" /\ x.event = at[h].event
  BY DEF Runs
<1>2. PICK p \in Operations : p = at[h].event.op /\ at[h].event.kind = "started"
  BY DEF Runs, LedgerInv, ActorsOK, HandlerIsSound
<1>3. /\ dispatched' = dispatched \cup {p} /\ log' = log /\ unresolved' = unresolved
      /\ at'[h] = x /\ (\A g \in Handlers : g # h => at'[g] = at[g])
  BY <1>1, <1>2 DEF Runs, Becomes, LedgerInv, ActorsOK
<1>4. \A g \in Handlers : \A K : \A o \in Operations : Has(g, K, o)' <=> Has(g, K, o)
  BY <1>1, <1>3 DEF Has
<1>5. \A o \in Operations : (Excused(o)' <=> Excused(o)) /\ (Loose(o)' => Loose(o) \/ o = p)
  BY <1>3 DEF Excused, Conceded, Loose, Told
<1>6. Has(h, Brackets, p) /\ Healthy' = Healthy
  BY <1>2 DEF Has, Brackets, Healthy
<1>7. \A g \in Handlers : \A o \in Operations :
          g # h /\ Has(g, Brackets, o) =>
              /\ o # p
              /\ IdentityOf[o] = IdentityOf[p] => p \in overlapped
  BY <1>6 DEF ReplayInv, Apart
<1>8. Apart'
  BY <1>4 DEF ReplayInv, Apart
<1>9. Untouched'
  <2> SUFFICES ASSUME NEW g \in Handlers, NEW o \in Operations,
                      Has(g, {"started"}, o)', at'[g].step # "running"
               PROVE  o \notin dispatched'
    BY DEF Untouched
  <2>1. g # h /\ Has(g, {"started"}, o) /\ at[g].step # "running"
    BY <1>1, <1>3, <1>4
  <2>2. Has(g, Brackets, o)
    BY <2>1 DEF Has, Brackets
  <2>3. o \notin dispatched
    BY <2>1 DEF ReplayInv, Untouched
  <2>4. o # p
    BY <1>7, <2>1, <2>2
  <2> QED
    BY <1>3, <2>3, <2>4
<1>10. Doubted'
  <2> SUFFICES ASSUME NEW g \in Handlers, NEW o \in Operations,
                      Has(g, {"indeterminate"}, o)', Loose(o)'
               PROVE  IdentityOf[o] \in unresolved' \/ Excused(o)'
    BY DEF Doubted
  <2>4. Has(g, {"indeterminate"}, o)
    BY <1>4
  <2>1. g # h /\ Has(g, {"indeterminate"}, o)
    BY <1>2, <2>4 DEF Has
  <2>2. Has(g, Brackets, o)
    BY <2>1 DEF Has, Brackets
  <2>3. Loose(o)
    BY <1>5, <1>7, <2>1, <2>2
  <2> QED
    BY <1>3, <1>5, <2>1, <2>3 DEF ReplayInv, Doubted
<1>11. FoundAll'
  BY DEF FoundAll
<1>12. Guarded'
  BY <1>3, <1>4, <1>5, <1>6 DEF ReplayInv, Guarded
<1>13. Alone'
  <2> SUFFICES ASSUME Healthy, NEW g \in Handlers, NEW o \in Operations, NEW q \in Operations,
                      Has(g, Brackets, q)', o # q, IdentityOf[o] = IdentityOf[q], Loose(o)'
               PROVE  Excused(o)'
    BY <1>6 DEF Alone
  <2>1. Has(g, Brackets, q)
    BY <1>4
  <2>2. CASE Loose(o)
    BY <1>5, <2>1, <2>2 DEF ReplayInv, Alone
  <2>3. CASE o = p
    <3>1. g # h
      BY <1>2, <2>1, <2>3 DEF Has
    <3> QED
      BY <1>7, <2>1, <2>3, <3>1 DEF Excused
  <2> QED
    BY <1>5, <2>2, <2>3
<1> QED
  BY <1>8, <1>9, <1>10, <1>11, <1>12, <1>13 DEF ReplayInv

LEMMA AskingKeepsReplayInv ==
    ASSUME LedgerInv, ReplayInv, NEW h \in Handlers, phase # "flagging",
           UNCHANGED <<phase, quarantined>>, Asks(h)
    PROVE  ReplayInv'
<1>1. PICK x \in HandlerStates :
          /\ Becomes(h, x) /\ x.step = "admit"
          /\ \/ x.event.kind \notin Brackets /\ overlapped' = overlapped
             \/ /\ x.event.kind = "started" /\ x.event.op \in Operations
                /\ Fresh(x.event.op) /\ IdentityOf[x.event.op] \notin unresolved
                /\ overlapped' = OverlappedBy(x.event.op)
  BY DEF Asks, Brackets
<1>2. /\ dispatched' = dispatched /\ log' = log /\ unresolved' = unresolved
      /\ at'[h] = x /\ (\A g \in Handlers : g # h => at'[g] = at[g])
      /\ at[h].step = "idle"
  BY <1>1 DEF Asks, Becomes, LedgerInv, ActorsOK
<1>3. \A K : \A o \in Operations : ~Has(h, K, o)
  BY <1>2, IdleIsAState, JournalNames DEF Has, LedgerInv, ActorsOK, HandlerIsSound
<1>4. \A g \in Handlers : g # h => \A K : \A o \in Operations : Has(g, K, o)' <=> Has(g, K, o)
  BY <1>2 DEF Has
\* What has an effect or a handler is not fresh, so it is excused as before.
<1>5. \A o \in Operations :
          /\ Loose(o)' <=> Loose(o)
          /\ (o \in dispatched \/ \E g \in Handlers : Has(g, Brackets, o))
             /\ o \in overlapped => o \in overlapped'
          /\ Loose(o) /\ Excused(o) => Excused(o)'
  <2>1. \A o \in Operations : (Conceded(o)' <=> Conceded(o)) /\ (Loose(o)' <=> Loose(o))
    BY <1>2 DEF Conceded, Loose, Told
  <2>2. \A o \in Operations :
            (o \in dispatched \/ \E g \in Handlers : Has(g, Brackets, o))
            /\ o \in overlapped => o \in overlapped'
    BY <1>1 DEF Fresh, Has, OverlappedBy, EventOf
  <2> QED
    BY <2>1, <2>2 DEF Excused, Loose
<1>6. Healthy' = Healthy
  BY DEF Healthy
\* What h begins is new, and so is known to overlap whatever of its identity is
\* in flight.
<1>7. ASSUME NEW p \in Operations, Has(h, Brackets, p)'
      PROVE  /\ p \notin dispatched /\ IdentityOf[p] \notin unresolved
             /\ \A g \in Handlers : \A o \in Operations : Has(g, Brackets, o) =>
                   /\ o # p
                   /\ IdentityOf[o] = IdentityOf[p] => o \in overlapped' /\ p \in overlapped'
  <2>1. /\ x.event.op = p /\ x.event.kind = "started"
        /\ Fresh(p) /\ IdentityOf[p] \notin unresolved /\ overlapped' = OverlappedBy(p)
    BY <1>1, <1>2, <1>7 DEF Has, Brackets
  <2>2. ASSUME NEW g \in Handlers, NEW o \in Operations, Has(g, Brackets, o),
               IdentityOf[o] = IdentityOf[p]
        PROVE  o \in overlapped' /\ p \in overlapped'
    <3>1. o \in Beside(p)
      BY <2>2 DEF Beside, Has, Brackets, EventOf
    <3> QED
      BY <2>1, <3>1 DEF OverlappedBy
  <2> QED
    BY <2>1, <2>2 DEF Fresh, Has, EventOf
<1>8. Apart'
  <2> SUFFICES ASSUME NEW g1 \in Handlers, NEW g2 \in Handlers,
                      NEW o \in Operations, NEW p \in Operations, g1 # g2,
                      Has(g1, Brackets, o)', Has(g2, Brackets, p)'
               PROVE  /\ o # p
                      /\ IdentityOf[o] = IdentityOf[p] => o \in overlapped' /\ p \in overlapped'
    BY DEF Apart
  <2>1. CASE g1 = h
    BY <1>4, <1>7, <2>1
  <2>2. CASE g2 = h
    BY <1>4, <1>7, <2>2
  <2>3. CASE g1 # h /\ g2 # h
    <3>1. Has(g1, Brackets, o) /\ Has(g2, Brackets, p)
      BY <1>4, <2>3
    <3> QED
      BY <1>5, <3>1 DEF ReplayInv, Apart
  <2> QED
    BY <2>1, <2>2, <2>3
<1>9. Untouched'
  <2> SUFFICES ASSUME NEW g \in Handlers, NEW o \in Operations,
                      Has(g, {"started"}, o)', at'[g].step # "running"
               PROVE  o \notin dispatched
    BY <1>2 DEF Untouched
  <2>1. CASE g = h
    <3>1. Has(h, Brackets, o)'
      BY <2>1 DEF Has, Brackets
    <3> QED
      BY <1>7, <3>1
  <2>2. CASE g # h
    BY <1>2, <1>4, <2>2 DEF ReplayInv, Untouched
  <2> QED
    BY <2>1, <2>2
<1>10. Doubted'
  <2> SUFFICES ASSUME NEW g \in Handlers, NEW o \in Operations,
                      Has(g, {"indeterminate"}, o)', Loose(o)
               PROVE  IdentityOf[o] \in unresolved \/ Excused(o)'
    BY <1>2, <1>5 DEF Doubted
  <2>1. g # h
    BY <1>1, <1>2 DEF Has, Brackets
  <2> QED
    BY <1>4, <1>5, <2>1 DEF ReplayInv, Doubted
<1>11. FoundAll'
  BY DEF FoundAll
<1>12. Guarded'
  <2> SUFFICES ASSUME Healthy, NEW o \in Operations, Loose(o)
               PROVE  \/ \E g \in Handlers : Has(g, Brackets, o)'
                      \/ IdentityOf[o] \in unresolved \/ Excused(o)'
    BY <1>2, <1>5, <1>6 DEF Guarded
  <2> QED
    BY <1>3, <1>4, <1>5 DEF ReplayInv, Guarded
<1>13. Alone'
  <2> SUFFICES ASSUME Healthy, NEW g \in Handlers, NEW o \in Operations, NEW p \in Operations,
                      Has(g, Brackets, p)', o # p, IdentityOf[o] = IdentityOf[p], Loose(o)
               PROVE  Excused(o)'
    BY <1>5, <1>6 DEF Alone
  <2>1. CASE g = h
    <3>1. \/ \E k \in Handlers : Has(k, Brackets, o)
          \/ IdentityOf[o] \in unresolved \/ Excused(o)
      BY DEF ReplayInv, Guarded
    <3> QED
      BY <1>5, <1>7, <2>1, <3>1 DEF Excused
  <2>2. CASE g # h
    BY <1>4, <1>5, <2>2 DEF ReplayInv, Alone
  <2> QED
    BY <2>1, <2>2
<1> QED
  BY <1>8, <1>9, <1>10, <1>11, <1>12, <1>13 DEF ReplayInv

LEMMA HandlersKeepReplayInv ==
    ASSUME LedgerInv, ReplayInv, NEW h \in Handlers, Handle(h)
    PROVE  ReplayInv'
<1>1. /\ DiskOK' /\ Kept /\ UNCHANGED <<phase, quarantined>>
      /\ \/ GoesOn(h) \/ Gives(h) \/ Starts(h) \/ Ends(h)
         \/ Runs(h) \/ Comes(h) \/ Asks(h)
  BY HandlerSteps DEF Unmoved
<1>2. phase \in {"serving", "blind"} /\ phase # "flagging"
  BY StepsLand
<1>3. /\ Grows /\ log \in Seq(Records) /\ at \in [Handlers -> HandlerStates]
      /\ at[h].step # "idle" => overlapped' = overlapped
  BY HandlersGrow, WhoOverlaps DEF LedgerInv, ActorsOK
<1>4. CASE GoesOn(h)
  <2>1. PICK x \in HandlerStates : Becomes(h, x) /\ x.step \in Middle /\ x.event = at[h].event
    BY <1>4 DEF GoesOn
  <2>2. /\ unresolved' = unresolved /\ dispatched' = dispatched
        /\ at[h].step # "running" /\ at[h].step # "idle"
    BY <1>4 DEF GoesOn, Middle
  <2> QED
    BY <1>1, <1>2, <1>3, <2>1, <2>2, CarryingOn
<1>5. CASE Gives(h) /\ Drops(h)
  <2>1. at[h].step # "idle"
    BY <1>5 DEF Gives, Middle
  <2> QED
    BY <1>1, <1>2, <1>3, <1>5, <2>1, DroppingKeepsReplayInv
<1>6. CASE Gives(h) /\ Doubts(h)
  <2>1. PICK x \in HandlerStates :
            /\ Becomes(h, x) /\ x.step = "admit"
            /\ x.event.kind = "indeterminate" /\ x.event.op = at[h].event.op
    BY <1>6 DEF Doubts
  <2>2. /\ unresolved' = unresolved \cup {IdentityOf[at[h].event.op]}
        /\ at[h].event.kind = "settled" /\ dispatched' = dispatched /\ at[h].step # "idle"
    BY <1>6 DEF Gives, Doubts, Middle
  <2>3. x.event.kind \in Brackets /\ at[h].event.kind \in Brackets /\ x.event.kind # "started"
    BY <2>1, <2>2 DEF Brackets
  <2> QED
    BY <1>1, <1>2, <1>3, <2>1, <2>2, <2>3, CarryingOn
<1>7. CASE Starts(h)
  <2>1. PICK x \in HandlerStates : Becomes(h, x) /\ x.step = "begun" /\ x.event = at[h].event
    BY <1>7 DEF Starts
  <2>2. /\ unresolved' = unresolved /\ dispatched' = dispatched
        /\ at[h].step \notin {"running", "idle"} /\ at[h].event.kind = "started"
    BY <1>7 DEF Starts
  <2> QED
    BY <1>1, <1>2, <1>3, <2>1, <2>2, CarryingOn
<1>8. CASE Ends(h)
  <2>1. ~quarantined /\ at[h].step # "idle"
    BY <1>8 DEF Ends, LedgerInv, DoorsAreKept
  <2> QED
    BY <1>1, <1>2, <1>3, <1>8, <2>1, EndingKeepsReplayInv
<1>9. CASE Runs(h)
  <2>1. at[h].step # "idle"
    BY <1>9 DEF Runs
  <2> QED
    BY <1>1, <1>2, <1>3, <1>9, <2>1, RunningKeepsReplayInv
<1>10. CASE Comes(h)
  <2>1. PICK x \in HandlerStates :
            /\ Becomes(h, x) /\ x.step = "admit" /\ x.event.op = at[h].event.op
            /\ \/ x.event.kind = "settled" /\ unresolved' = unresolved
               \/ /\ x.event.kind = "indeterminate"
                  /\ unresolved' = unresolved \cup {IdentityOf[at[h].event.op]}
    BY <1>10 DEF Comes
  <2>2. dispatched' = dispatched /\ at[h].event.kind = "started" /\ at[h].step # "idle"
    BY <1>10 DEF Comes, LedgerInv, ActorsOK, HandlerIsSound
  <2>3. /\ x.event.kind \in Brackets /\ at[h].event.kind \in Brackets /\ x.event.kind # "started"
        /\ unresolved \subseteq unresolved'
        /\ x.event.kind = "indeterminate" => IdentityOf[at[h].event.op] \in unresolved'
    BY <2>1, <2>2 DEF Brackets
  <2> QED
    BY <1>1, <1>2, <1>3, <2>1, <2>2, <2>3, CarryingOn
<1>11. CASE Asks(h)
  BY <1>1, <1>2, <1>11, AskingKeepsReplayInv
<1> QED
  BY <1>1, <1>4, <1>5, <1>6, <1>7, <1>8, <1>9, <1>10, <1>11 DEF Gives

\* The startup pass: it takes up what the chain leaves open, or nothing can be
\* open, or the partition is refused, or it serves blind.
LEMMA RecoveryKeepsReplayInv ==
    ASSUME LedgerInv, ReplayInv, Recover
    PROVE  ReplayInv'
<1>1. /\ DiskOK /\ ActorsOK /\ log \in Seq(Records) /\ acked \in Nat /\ acked <= Len(log)
      /\ dispatched \subseteq Operations /\ \A o \in dispatched : StartIsIn(o, acked)
  BY DEF LedgerInv, DiskOK, ActorsOK, StartsAreRecorded
<1>2. PICK e \in Records : Recovers(e)
  <2>1. "orphaned" \in Kinds /\ "scanned" \in Kinds
    BY DEF Kinds, Closure, Flagging
  <2>2. CASE Scan \/ ScanFails
    BY <1>1, <2>2, ScanSteps
  <2>3. CASE \E o \in Operations : Flag(o)
    BY <1>1, <2>1, <2>3, FlagSteps, EventsAreRecords
  <2>4. CASE RecordScan
    BY <1>1, <2>1, <2>4, RecordScanSteps, EventsAreRecords
  <2> QED
    BY <2>2, <2>3, <2>4 DEF Recover
<1>3. /\ at' = at /\ dispatched' = dispatched /\ Grows
      /\ phase \in {"starting", "flagging"}
  BY <1>2 DEF Recovers, Grows
<1>4. \A h \in Handlers : at'[h] = Idle
  BY <1>3 DEF LedgerInv, DoorsAreKept
<1>5. \A h \in Handlers : \A K : \A o \in Operations : ~Has(h, K, o)'
  BY <1>4, IdleIsAState, JournalNames DEF Has
<1>6. \A o \in Operations : Loose(o)' => Loose(o)
  BY <1>1, <1>3, GrowingTells DEF Loose
<1>7. Apart' /\ Doubted' /\ Alone'
  BY <1>5 DEF Apart, Doubted, Alone
<1>8. Untouched'
  BY <1>5 DEF Untouched
<1>9. \A o \in Operations : Loose(o) => o \in OpenNow
  <2> SUFFICES ASSUME NEW o \in Operations, Loose(o) PROVE o \in OpenNow
    OBVIOUS
  <2>1. StartIsIn(o, acked) /\ ~Told(o, Resolving, Len(log))
    BY <1>1 DEF Loose
  <2>2. Told(o, {"started"}, Len(log))
    BY <1>1, <2>1 DEF StartIsIn, Told
  <2> QED
    BY <2>1, <2>2 DEF OpenNow, Open
<1>10. FoundAll' /\ Guarded'
  <2>1. CASE Scan /\ Absent
    <3>1. phase' = "serving" /\ ~head.made
      BY <2>1 DEF Scan, Serve, Absent
    <3>2. Len(log) = 0
      BY <1>1, <3>1 DEF DiskOK
    <3>3. \A o \in Operations : ~Loose(o)
      BY <1>1, <3>2 DEF Loose, StartIsIn
    <3> QED
      BY <1>6, <3>1, <3>3 DEF FoundAll, Guarded
  <2>2. CASE Scan /\ ~Absent /\ Damaged
    <3>1. phase' = "serving" /\ quarantined'
      BY <2>2 DEF Scan, Serve
    <3> QED
      BY <3>1 DEF FoundAll, Guarded, Healthy
  <2>3. CASE Scan /\ ~Absent /\ ~Damaged
    <3>1. phase' = "flagging" /\ recovery' = [found |-> Found, todo |-> Unflagged]
      BY <2>3 DEF Scan
    <3> QED
      BY <1>6, <1>9, <3>1 DEF FoundAll, Guarded, Healthy, Found
  <2>4. CASE ScanFails
    <3>1. phase' = "blind"
      BY <2>4 DEF ScanFails, Serve
    <3> QED
      BY <3>1 DEF FoundAll, Guarded, Healthy
  <2>5. ASSUME NEW o \in Operations, Flag(o) PROVE FoundAll' /\ Guarded'
    <3>1. phase = "flagging"
      BY <2>5 DEF Flag
    <3>2. CASE phase' = phase /\ recovery' = [recovery EXCEPT !.todo = recovery.todo \ {o}]
      <4>1. recovery'.found = recovery.found
        BY <1>1, <3>2 DEF ActorsOK
      <4> QED
        BY <1>6, <3>1, <3>2, <4>1 DEF FoundAll, Guarded, Healthy, ReplayInv
    <3>3. CASE Serve("serving", TRUE, {})
      <4>1. phase' = "serving" /\ quarantined'
        BY <3>3 DEF Serve
      <4> QED
        BY <4>1 DEF FoundAll, Guarded, Healthy
    <3> QED
      BY <2>5, <3>2, <3>3 DEF Flag
  <2>6. CASE RecordScan
    <3>1. phase = "flagging"
      BY <2>6 DEF RecordScan
    <3>2. CASE Serve("serving", FALSE, {IdentityOf[o] : o \in recovery.found})
      <4>1. phase' = "serving" /\ unresolved' = {IdentityOf[o] : o \in recovery.found}
        BY <3>2 DEF Serve
      <4>2. \A o \in Operations : Loose(o)' => IdentityOf[o] \in unresolved'
        BY <1>6, <3>1, <4>1 DEF FoundAll, ReplayInv
      <4> QED
        BY <4>1, <4>2 DEF FoundAll, Guarded
    <3>3. CASE Serve("serving", TRUE, {})
      <4>1. phase' = "serving" /\ quarantined'
        BY <3>3 DEF Serve
      <4> QED
        BY <4>1 DEF FoundAll, Guarded, Healthy
    <3> QED
      BY <2>6, <3>2, <3>3 DEF RecordScan
  <2> QED
    BY <2>1, <2>2, <2>3, <2>4, <2>5, <2>6 DEF Recover
<1> QED
  BY <1>7, <1>8, <1>10 DEF ReplayInv

LEMMA DeathsKeepReplayInv ==
    ASSUME LedgerInv, Crash \/ PowerLoss
    PROVE  ReplayInv'
<1>1. phase' = "starting" /\ \A h \in Handlers : at'[h] = Idle
  BY DEF Crash, PowerLoss, Die
<1>2. \A h \in Handlers : \A K : \A o \in Operations : ~Has(h, K, o)'
  BY <1>1, IdleIsAState, JournalNames DEF Has
<1> QED
  BY <1>1, <1>2 DEF ReplayInv, Apart, Untouched, Doubted, FoundAll, Guarded, Alone, Healthy

LEMMA DispatchIsNoReplay ==
    ASSUME LedgerInv, ReplayInv, Recover \/ Crash \/ PowerLoss \/ \E h \in Handlers : Handle(h),
           phase = "serving", NEW o \in Operations, NEW p \in Operations, Replays(p, o)
    PROVE  Conceded(o) \/ o \in overlapped
<1>1. p \in dispatched' /\ p \notin dispatched /\ Loose(o) /\ IdentityOf[o] = IdentityOf[p]
  BY DEF Replays, Unknown, Loose
<1>2. PICK h \in Handlers : Handle(h)
  BY <1>1, RecoveryKeepsLedgerInv, DeathsKeepLedgerInv
<1>3. Runs(h)
  BY <1>1, <1>2, HandlerSteps DEF GoesOn, Gives, Starts, Ends, Comes, Asks
<1>4. /\ at[h].step = "begun" /\ at[h].event.op = p /\ at[h].event.kind = "started"
  BY <1>1, <1>3 DEF Runs, LedgerInv, ActorsOK, HandlerIsSound
<1>5. Has(h, Brackets, p) /\ o # p
  BY <1>1, <1>4 DEF Has, Brackets, Loose
<1>6. Healthy
  BY <1>4 DEF Healthy, LedgerInv, DoorsAreKept
<1> QED
  BY <1>1, <1>5, <1>6 DEF ReplayInv, Alone, Excused

\* A daemon whose startup pass completed does not run a mutation again while the
\* outcome of an earlier run, of this life or an earlier one, is unknown and not
\* conceded, for every number of operations, identities, handlers, restarts and
\* failed writes; except where that run was itself in flight, in this life,
\* beside another request of its identity.
THEOREM RecoveredDaemonRefusesReplay == JournalSpec => RecoveredRefusesReplay
<1>1. JournalInit => ReplayInv
  <2> SUFFICES ASSUME JournalInit PROVE ReplayInv
    OBVIOUS
  <2>1. phase = "starting" /\ (\A h \in Handlers : at[h] = Idle)
    BY DEF JournalInit
  <2>2. \A h \in Handlers : \A K : \A o \in Operations : ~Has(h, K, o)
    BY <2>1, IdleIsAState, JournalNames DEF Has
  <2> QED
    BY <2>1, <2>2 DEF ReplayInv, Apart, Untouched, Doubted, FoundAll, Guarded, Alone, Healthy
<1>2. LedgerInv /\ ReplayInv /\ [JournalNext]_journalVars => ReplayInv'
  <2> SUFFICES ASSUME LedgerInv, ReplayInv, [JournalNext]_journalVars PROVE ReplayInv'
    OBVIOUS
  <2>1. CASE Recover
    BY <2>1, RecoveryKeepsReplayInv
  <2>2. CASE Crash \/ PowerLoss
    BY <2>2, DeathsKeepReplayInv
  <2>3. CASE \E h \in Handlers : Handle(h)
    BY <2>3, HandlersKeepReplayInv
  <2>4. CASE UNCHANGED journalVars
    <3>1. UNCHANGED <<log, phase, quarantined, unresolved, recovery, at, dispatched, overlapped>>
      BY <2>4 DEF journalVars, disk, memory, history
    <3> QED
      BY <3>1 DEF ReplayInv, Apart, Untouched, Doubted, FoundAll, Guarded, Alone, Healthy,
                  Has, Loose, Told, Excused, Conceded
  <2> QED
    BY <2>1, <2>2, <2>3, <2>4 DEF JournalNext
<1>3. LedgerInv /\ ReplayInv /\ [JournalNext]_journalVars =>
        [\A o, p \in Operations :
            phase = "serving" /\ Replays(p, o)
                => Conceded(o) \/ o \in overlapped]_journalVars
  BY DispatchIsNoReplay DEF JournalNext
<1> QED
  BY <1>1, <1>2, <1>3, LedgerInvHolds, PTL DEF JournalSpec, RecoveredRefusesReplay

-----------------------------------------------------------------------------
\* What one step does to the chain and its head

ChainRests == log' = log /\ head' = head /\ durable' = durable
Synced == durable' = durable \/ durable' = [head |-> head', seq |-> Len(log')]
Writes(e) ==
    /\ e \in Records /\ HasRoom(e) /\ log' = Append(log, e)
    /\ head' = [head EXCEPT !.made = TRUE, !.open = Counted(e), !.pending = Cleared(e)]
    /\ Synced
Rotates ==
    /\ head.pending = 0 /\ log' = log
    /\ head' = [head EXCEPT !.index = head.index + 1, !.first = Len(log), !.pending = head.index]
    /\ Synced
FallsBack == log' = SubSeq(log, 1, durable.seq) /\ head' = durable.head /\ durable' = durable

\* A record is written as the quota lets it in, or nothing changes.
LEMMA RecordingWrites ==
    ASSUME NEW e \in Records, Stored(e) \/ NotStored(e)
    PROVE  ChainRests \/ Writes(e)
<1>1. CASE Stored(e)
  BY <1>1 DEF Stored, Extend, Sync, Writes, Synced
<1>2. CASE UNCHANGED disk \/ UNCHANGED <<log, head, durable, stray>>
  BY <1>2 DEF disk, ChainRests
<1>3. CASE HasRoom(e) /\ Extend(e) /\ UNCHANGED durable
  BY <1>3 DEF Extend, Writes, Synced
<1> QED
  BY <1>1, <1>2, <1>3 DEF NotStored

HandlerWrites(h) ==
    \/ ChainRests
    \/ Rotates
    \/ at[h].step \in {"retain", "archive"} /\ Writes(Retention(at[h].owed))
    \/ at[h].step = "append" /\ Writes(at[h].event)

LEMMA HandlersWriteOne ==
    ASSUME LedgerInv, NEW h \in Handlers, Handle(h)
    PROVE  HandlerWrites(h)
<1>1. at[h].event \in Records /\ Retention(at[h].owed) \in Records
  <2>1. at[h] \in HandlerStates
    BY DEF LedgerInv, ActorsOK
  <2> QED
    BY <2>1, RetentionsAreRecords DEF HandlerStates
<1>2. CASE Retain(h) \/ Archive(h)
  <2>1. /\ at[h].step \in {"retain", "archive"}
        /\ Stored(Retention(at[h].owed)) \/ NotStored(Retention(at[h].owed))
    BY <1>2 DEF Retain, Archive
  <2> QED
    BY <1>1, <2>1, RecordingWrites DEF HandlerWrites
<1>3. CASE AppendEvent(h)
  <2>1. at[h].step = "append" /\ (Stored(at[h].event) \/ NotStored(at[h].event))
    BY <1>3 DEF AppendEvent, EventOf
  <2> QED
    BY <1>1, <2>1, RecordingWrites DEF HandlerWrites
<1>4. CASE Rotate(h)
  <2>1. UNCHANGED disk \/ (head.pending = 0 /\ Cut /\ (Sync \/ UNCHANGED durable))
    BY <1>4 DEF Rotate
  <2>2. ASSUME head.pending = 0, Cut, Sync \/ UNCHANGED durable PROVE Rotates
    BY <2>2 DEF Cut, Sync, Rotates, Synced
  <2> QED
    BY <2>1, <2>2 DEF HandlerWrites, ChainRests, disk
<1>5. CASE Admit(h) \/ Measure(h) \/ Dispatch(h) \/ Return(h)
  BY <1>5 DEF Admit, Measure, Dispatch, Return, disk, ChainRests, HandlerWrites
<1>6. CASE Note(h) \/ \E o \in Operations : Begin(h, o) \/ Resolve(h, o)
  BY <1>6 DEF Note, Begin, Resolve, Arrive, disk, ChainRests, HandlerWrites
<1> QED
  BY <1>2, <1>3, <1>4, <1>5, <1>6 DEF Handle

RecoveryWrites ==
    \/ ChainRests
    \/ phase = "flagging" /\ Writes(Event("scanned", None))
    \/ \E o \in recovery.todo : phase = "flagging" /\ Writes(Event("orphaned", o))

LEMMA RecoveryWritesOne ==
    ASSUME LedgerInv, Recover
    PROVE  RecoveryWrites
<1>1. CASE Scan \/ ScanFails
  BY <1>1 DEF Scan, ScanFails, disk, ChainRests, RecoveryWrites
<1>2. ASSUME NEW o \in Operations, Flag(o) PROVE RecoveryWrites
  <2>1. Event("orphaned", o) \in Records
    BY EventsAreRecords DEF Kinds, Closure, Flagging
  <2>2. /\ phase = "flagging" /\ o \in recovery.todo
        /\ Stored(Event("orphaned", o)) \/ NotStored(Event("orphaned", o))
    BY <1>2 DEF Flag
  <2> QED
    BY <2>1, <2>2, RecordingWrites DEF RecoveryWrites
<1>3. CASE RecordScan
  <2>1. Event("scanned", None) \in Records
    BY EventsAreRecords DEF Kinds, Closure
  <2>2. /\ phase = "flagging"
        /\ Stored(Event("scanned", None)) \/ NotStored(Event("scanned", None))
    BY <1>3 DEF RecordScan
  <2> QED
    BY <2>1, <2>2, RecordingWrites DEF RecoveryWrites
<1> QED
  BY <1>1, <1>2, <1>3 DEF Recover

LEMMA DeathsWriteNothing ==
    ASSUME Crash \/ PowerLoss
    PROVE  (ChainRests \/ FallsBack) /\ at' = [h \in Handlers |-> Idle]
           /\ phase' = "starting" /\ recovery' = [found |-> {}, todo |-> {}]
  BY DEF Crash, PowerLoss, Die, disk, ChainRests, FallsBack

-----------------------------------------------------------------------------
\* Closed segments have their retention records

RecordedIn(l, n, k) == {i \in 1..k : l[i].kind = "retention" /\ l[i].cut = n}
TwiceIn(l, m, k) == \E i, j \in RecordedIn(l, m, k) : i # j

\* The marker is about the last segment that was closed, and every closed segment
\* has its record, or the marker, or lost it to a record that was written twice.
SegmentsKept(l, k, H) ==
    /\ H.pending = 0 \/ H.pending = H.index - 1
    /\ \A n \in 1..(H.index - 1) :
          \/ H.pending = n \/ RecordedIn(l, n, k) # {}
          \/ \E m \in 1..(n - 1) : TwiceIn(l, m, k)

\* What a handler owes is about a closed segment.
OwesRightly(h) ==
    /\ at[h].owed \in 0..(head.index - 1)
    /\ at[h].step \in {"retain", "archive"} => at[h].owed # 0

SegmentInv ==
    /\ SegmentsKept(log, Len(log), head)
    /\ SegmentsKept(log, durable.seq, durable.head)
    /\ \A h \in Handlers : OwesRightly(h)

LEMMA PrefixKeepsSegments ==
    ASSUME NEW l, NEW m, NEW k \in Nat, NEW H, SegmentsKept(l, k, H),
           \A i \in 1..k : m[i] = l[i]
    PROVE  SegmentsKept(m, k, H)
<1>1. \A n : RecordedIn(m, n, k) = RecordedIn(l, n, k)
  BY DEF RecordedIn
<1> QED
  BY <1>1 DEF SegmentsKept, TwiceIn

LEMMA MoreRecordsKeepSegments ==
    ASSUME NEW l, NEW k \in Nat, NEW H, SegmentsKept(l, k, H), NEW G,
           G.index = H.index, G.pending = H.pending
    PROVE  SegmentsKept(l, k + 1, G)
<1>1. \A n : RecordedIn(l, n, k) \subseteq RecordedIn(l, n, k + 1)
  BY DEF RecordedIn
<1>2. \A m : TwiceIn(l, m, k) => TwiceIn(l, m, k + 1)
  BY <1>1 DEF TwiceIn
<1> QED
  BY <1>1, <1>2 DEF SegmentsKept

\* A retention record of a segment that is not the pending one was written
\* before, or an earlier segment has two already.
LEMMA RetentionKeepsSegments ==
    ASSUME NEW l, NEW k \in Nat, NEW H, H.index \in Nat, SegmentsKept(l, k, H),
           NEW G, G.index = H.index, G.pending = 0,
           NEW c \in 1..(H.index - 1), l[k + 1] = Retention(c)
    PROVE  SegmentsKept(l, k + 1, G)
<1>1. \A n : RecordedIn(l, n, k) \subseteq RecordedIn(l, n, k + 1)
  BY DEF RecordedIn
<1>2. \A m : TwiceIn(l, m, k) => TwiceIn(l, m, k + 1)
  BY <1>1 DEF TwiceIn
<1>3. k + 1 \in RecordedIn(l, c, k + 1) /\ k + 1 \notin RecordedIn(l, c, k)
  BY DEF RecordedIn, Retention
<1> SUFFICES ASSUME NEW n \in 1..(H.index - 1), RecordedIn(l, n, k + 1) = {}
             PROVE  \E m \in 1..(n - 1) : TwiceIn(l, m, k + 1)
  BY DEF SegmentsKept
<1>4. n # c /\ RecordedIn(l, n, k) = {}
  BY <1>1, <1>3
<1>5. CASE \E m \in 1..(n - 1) : TwiceIn(l, m, k)
  BY <1>2, <1>5
<1>6. CASE H.pending = n
  <2>1. n = H.index - 1 /\ c \in 1..(n - 1)
    BY <1>4, <1>6 DEF SegmentsKept
  <2>2. \/ RecordedIn(l, c, k) # {}
        \/ \E m \in 1..(c - 1) : TwiceIn(l, m, k)
    BY <1>4, <1>6 DEF SegmentsKept
  <2>3. CASE RecordedIn(l, c, k) # {}
    BY <1>1, <1>3, <2>1, <2>3 DEF TwiceIn
  <2>4. CASE \E m \in 1..(c - 1) : TwiceIn(l, m, k)
    BY <1>2, <2>1, <2>4
  <2> QED
    BY <2>2, <2>3, <2>4
<1> QED
  BY <1>4, <1>5, <1>6 DEF SegmentsKept

\* What has to be shown of a step: the chain's part.
LEMMA ChainKeepsSegments ==
    ASSUME DiskOK, DiskOK', SegmentsKept(log, Len(log), head),
           SegmentsKept(log, durable.seq, durable.head),
           \/ ChainRests \/ Rotates
           \/ \E e \in Records :
                 Writes(e) /\ (e.kind = "retention" =>
                                  \E c \in 1..(head.index - 1) : e = Retention(c))
    PROVE  /\ SegmentsKept(log, Len(log), head)'
           /\ SegmentsKept(log, durable.seq, durable.head)'
           /\ head'.index \in {head.index, head.index + 1}
<1>1. /\ Len(log) \in Nat /\ durable.seq \in Nat /\ durable.seq <= Len(log)
      /\ head \in Heads /\ head.index \in Nat \ {0} /\ head.pending \in Nat
      /\ log \in Seq(Records)
  BY DEF DiskOK, Heads
<1>2. CASE ChainRests
  BY <1>2 DEF ChainRests
<1>3. ASSUME \A i \in 1..Len(log) : log'[i] = log[i], Synced,
             SegmentsKept(log, Len(log), head)'
      PROVE  SegmentsKept(log, durable.seq, durable.head)'
  <2>1. SegmentsKept(log', durable.seq, durable.head)
    BY <1>1, <1>3, PrefixKeepsSegments
  <2>2. CASE durable' = durable
    BY <2>1, <2>2
  <2>3. CASE durable' = [head |-> head', seq |-> Len(log')]
    <3>1. durable'.seq = Len(log') /\ durable'.head = head'
      BY <2>3
    <3> QED
      BY <1>3, <3>1
  <2> QED
    BY <1>3, <2>2, <2>3 DEF Synced
<1>4. CASE Rotates
  <2>1. /\ head'.index = head.index + 1 /\ head'.pending = head.index /\ head.pending = 0
        /\ log' = log /\ Synced
    BY <1>1, <1>4 DEF Rotates, Heads
  <2>2. SegmentsKept(log, Len(log), head')
    BY <1>1, <2>1 DEF SegmentsKept
  <2> QED
    BY <1>3, <2>1, <2>2
<1>5. ASSUME NEW e \in Records, Writes(e),
             e.kind = "retention" => \E c \in 1..(head.index - 1) : e = Retention(c)
      PROVE  /\ SegmentsKept(log, Len(log), head)' /\ head'.index = head.index
             /\ SegmentsKept(log, durable.seq, durable.head)'
  <2>1. /\ log' = Append(log, e) /\ Synced
        /\ head'.index = head.index /\ head'.pending = Cleared(e)
    BY <1>1, <1>5 DEF Writes, Heads
  <2>2. /\ Len(log') = Len(log) + 1 /\ log'[Len(log) + 1] = e
        /\ \A i \in 1..Len(log) : log'[i] = log[i]
    BY <1>1, <2>1
  <2>3. SegmentsKept(log', Len(log), head)
    BY <1>1, <2>2, PrefixKeepsSegments
  <2>4. CASE e.kind = "retention"
    <3>1. PICK c \in 1..(head.index - 1) : e = Retention(c)
      BY <1>5, <2>4
    <3>2. SegmentsKept(log', Len(log) + 1, head')
      BY <1>1, <2>1, <2>2, <2>3, <2>4, <3>1, RetentionKeepsSegments DEF Cleared
    <3> QED
      BY <1>3, <2>1, <2>2, <3>2
  <2>5. CASE e.kind # "retention"
    <3>1. SegmentsKept(log', Len(log) + 1, head')
      BY <1>1, <2>1, <2>3, <2>5, MoreRecordsKeepSegments DEF Cleared
    <3> QED
      BY <1>3, <2>1, <2>2, <3>1
  <2> QED
    BY <2>1, <2>4, <2>5
<1> QED
  BY <1>2, <1>4, <1>5

\* A handler owes nothing, what it owed, or what the head has pending.
OwesNext(h) ==
    \E x \in HandlerStates :
        /\ at' = [at EXCEPT ![h] = x]
        /\ \/ x.owed = 0 /\ x.step \notin {"retain", "archive"}
           \/ x.owed = head'.pending /\ head'.pending # 0

LEMMA HandlersOweRightly ==
    ASSUME LedgerInv, NEW h \in Handlers, Handle(h)
    PROVE  OwesNext(h)
<1>0. /\ at \in [Handlers -> HandlerStates] /\ at[h] \in HandlerStates /\ at[h].event \in Records
      /\ head.pending \in Nat /\ head.index \in Nat \ {0} /\ head \in Heads
      /\ Len(log) \in Nat
  BY DEF LedgerInv, ActorsOK, DiskOK, Heads, HandlerStates
<1> DEFINE Frees == \E x \in HandlerStates :
               at' = [at EXCEPT ![h] = x] /\ x.owed = 0 /\ x.step \notin {"retain", "archive"}
<1>1. ASSUME NEW s \in Steps \ {"retain", "archive"}, NEW e \in Records, Turn(h, s, e)
      PROVE  Frees
  <2>1. [step |-> s, event |-> e, owed |-> 0] \in HandlerStates
    BY <1>1 DEF HandlerStates
  <2> QED
    BY <1>1, <2>1 DEF Turn, Become
<1>2. ASSUME NEW s \in Steps \ {"retain", "archive"}, Enter(h, s) PROVE Frees
  BY <1>0, <1>1, <1>2 DEF Enter, Owe, Turn, EventOf
<1>3. Leave(h) => Frees
  BY IdleIsAState DEF Leave, Idle
<1>4. GiveUp(h) => Frees
  <2>1. ASSUME at[h].event.kind = "settled"
        PROVE  Event("indeterminate", at[h].event.op) \in Records
    BY <1>0, EventsAreRecords DEF Records, Kinds, Closure, Flagging
  <2>2. "admit" \in Steps \ {"retain", "archive"}
    BY DEF Steps
  <2> QED
    BY <1>1, <1>3, <2>1, <2>2 DEF GiveUp, EventOf
<1>5. SkipMaintenance(h) => Frees
  BY <1>2, <1>4 DEF SkipMaintenance, Steps, Middle
<1>6. Frees => OwesNext(h)
  BY DEF OwesNext
<1>7. ASSUME NEW s \in Steps, Owe(h, s, head'.pending), head'.pending # 0, head'.pending \in Nat
      PROVE  OwesNext(h)
  <2>1. [step |-> s, event |-> at[h].event, owed |-> head'.pending] \in HandlerStates
    BY <1>0, <1>7 DEF HandlerStates
  <2> QED
    BY <1>7, <2>1 DEF Owe, Become, EventOf, OwesNext
<1>8. {"retain", "archive"} \subseteq Steps
  BY DEF Steps, Middle
<1>9. {"measure", "rotate", "append", "begun", "running", "admit"}
          \subseteq Steps \ {"retain", "archive"}
  BY DEF Steps, Middle
<1> HIDE DEF Frees
<1>10. CASE Admit(h)
  <2>1. head' = head
    BY <1>10 DEF Admit, disk
  <2> QED
    BY <1>0, <1>2, <1>4, <1>5, <1>6, <1>7, <1>8, <1>9, <1>10, <2>1 DEF Admit
<1>11. CASE Retain(h) \/ Archive(h)
  BY <1>2, <1>5, <1>6, <1>9, <1>11 DEF Retain, Archive
<1>12. CASE Measure(h)
  BY <1>2, <1>6, <1>9, <1>12 DEF Measure
<1>13. CASE Rotate(h)
  <2>1. CASE head.pending # 0 /\ Owe(h, "archive", head.pending) /\ UNCHANGED disk
    BY <1>0, <1>7, <1>8, <2>1 DEF disk
  <2>2. CASE Enter(h, "append") \/ SkipMaintenance(h)
    BY <1>2, <1>5, <1>6, <1>9, <2>2
  <2>3. CASE Cut /\ Owe(h, "archive", head.index)
    <3>1. head'.pending = head.index
      BY <1>0, <2>3 DEF Cut, Heads
    <3> QED
      BY <1>0, <1>7, <1>8, <2>3, <3>1
  <2> QED
    BY <1>13, <2>1, <2>2, <2>3 DEF Rotate
<1>14. CASE AppendEvent(h)
  BY <1>2, <1>3, <1>4, <1>6, <1>9, <1>14 DEF AppendEvent
<1>15. CASE Dispatch(h)
  BY <1>2, <1>6, <1>9, <1>15 DEF Dispatch
<1>16. CASE Return(h)
  <2>1. PICK k \in {"settled", "indeterminate"} : Turn(h, "admit", Event(k, at[h].event.op))
    BY <1>16 DEF Return, EventOf
  <2>2. Event(k, at[h].event.op) \in Records
    BY <1>0, EventsAreRecords DEF Records, Kinds, Closure, Flagging, Resolving
  <2> QED
    BY <1>1, <1>6, <1>9, <2>1, <2>2
<1>17. CASE Note(h) \/ \E o \in Operations : Begin(h, o) \/ Resolve(h, o)
  <2>1. \E e \in Records : Turn(h, "admit", e)
    <3>1. CASE Note(h)
      BY <3>1, EventsAreRecords DEF Note, Arrive, Kinds
    <3>2. ASSUME NEW o \in Operations, Begin(h, o) \/ Resolve(h, o)
          PROVE  \E e \in Records : Turn(h, "admit", e)
      BY <3>2, EventsAreRecords DEF Begin, Resolve, Arrive, Kinds, Closure, Resolving
    <3> QED
      BY <1>17, <3>1, <3>2
  <2> QED
    BY <1>1, <1>6, <1>9, <2>1
<1> QED
  BY <1>10, <1>11, <1>12, <1>13, <1>14, <1>15, <1>16, <1>17 DEF Handle

\* Every step keeps the records of the closed segments.
LEMMA StepKeepsSegments ==
    ASSUME LedgerInv, LedgerInv', SegmentInv, [JournalNext]_journalVars
    PROVE  SegmentInv'
<1>1. DiskOK /\ DiskOK' /\ head.index \in Nat \ {0} /\ head'.index \in Nat \ {0}
  BY DEF LedgerInv, DiskOK, Heads
<1>2. SegmentsKept(log, Len(log), head) /\ SegmentsKept(log, durable.seq, durable.head)
  BY DEF SegmentInv
<1>3. ASSUME NEW h \in Handlers, Handle(h) PROVE SegmentInv'
  <2>1. \/ ChainRests \/ Rotates
        \/ \E e \in Records :
              Writes(e) /\ (e.kind = "retention" =>
                               \E c \in 1..(head.index - 1) : e = Retention(c))
    <3>1. at[h].event.kind # "retention"
      BY DEF LedgerInv, ActorsOK, HandlerIsSound
    <3>2. at[h].step \in {"retain", "archive"} => at[h].owed \in 1..(head.index - 1)
      BY <1>1 DEF SegmentInv, OwesRightly
    <3> QED
      BY <1>3, <3>1, <3>2, HandlersWriteOne DEF HandlerWrites, Writes
  <2>2. /\ SegmentsKept(log, Len(log), head)'
        /\ SegmentsKept(log, durable.seq, durable.head)'
        /\ head'.index \in {head.index, head.index + 1}
    BY <1>1, <1>2, <2>1, ChainKeepsSegments
  <2>3. PICK x \in HandlerStates :
            /\ at' = [at EXCEPT ![h] = x]
            /\ \/ x.owed = 0 /\ x.step \notin {"retain", "archive"}
               \/ x.owed = head'.pending /\ head'.pending # 0
    BY <1>3, HandlersOweRightly DEF OwesNext
  <2>4. at'[h] = x /\ \A g \in Handlers : g # h => at'[g] = at[g]
    BY <2>3 DEF LedgerInv, ActorsOK
  <2>5. OwesRightly(h)'
    BY <1>1, <2>2, <2>3, <2>4 DEF OwesRightly, SegmentsKept
  <2>6. ASSUME NEW g \in Handlers, g # h PROVE OwesRightly(g)'
    <3>1. /\ at[g].owed \in 0..(head.index - 1)
          /\ at[g].step \in {"retain", "archive"} => at[g].owed # 0
      BY DEF SegmentInv, OwesRightly
    <3>2. at'[g] = at[g]
      BY <2>4, <2>6
    <3>3. at[g].owed \in 0..(head'.index - 1)
      BY <1>1, <2>2, <3>1
    <3> QED
      BY <3>1, <3>2, <3>3 DEF OwesRightly
  <2> QED
    BY <2>2, <2>5, <2>6 DEF SegmentInv
<1>4. CASE Recover
  <2>1. \/ ChainRests
        \/ \E e \in Records : Writes(e) /\ e.kind # "retention"
    BY <1>4, RecoveryWritesOne DEF RecoveryWrites, Writes, Event
  <2>2. /\ SegmentsKept(log, Len(log), head)'
        /\ SegmentsKept(log, durable.seq, durable.head)'
        /\ head'.index \in {head.index, head.index + 1}
    BY <1>1, <1>2, <2>1, ChainKeepsSegments
  <2>3. at' = at
    BY <1>4, RecoveryKeepsLedgerInv
  <2> QED
    BY <1>1, <2>2, <2>3 DEF SegmentInv, OwesRightly
<1>5. CASE Crash \/ PowerLoss
  <2>1. \A h \in Handlers : at'[h] = Idle
    BY <1>5, DeathsWriteNothing
  <2>2. \A h \in Handlers : OwesRightly(h)'
    BY <1>1, <2>1 DEF OwesRightly, Idle
  <2>3. CASE ChainRests
    BY <2>2, <2>3, <1>2 DEF SegmentInv, ChainRests
  <2>4. CASE FallsBack
    <3>1. /\ durable.seq \in Nat /\ durable.seq <= Len(log) /\ log \in Seq(Records)
          /\ log' = SubSeq(log, 1, durable.seq) /\ head' = durable.head /\ durable' = durable
      BY <1>1, <2>4 DEF DiskOK, FallsBack
    <3>2. Len(log') = durable.seq /\ \A i \in 1..durable.seq : log'[i] = log[i]
      BY <3>1
    <3>3. SegmentsKept(log', durable.seq, durable.head)
      BY <1>2, <3>1, <3>2, PrefixKeepsSegments
    <3> QED
      BY <2>2, <3>1, <3>2, <3>3 DEF SegmentInv
  <2> QED
    BY <1>5, <2>3, <2>4, DeathsWriteNothing
<1>6. CASE UNCHANGED journalVars
  BY <1>6 DEF journalVars, disk, SegmentInv, OwesRightly
<1> QED
  BY <1>3, <1>4, <1>5, <1>6 DEF JournalNext

\* A segment that rotation closed has its retention record in the chain, or the
\* head still asks for it, or a retention record was written twice before: through
\* deaths, power losses and failed writes (rotate, archive_pending, append).
THEOREM ClosedSegmentsStayRecorded == JournalSpec => []ClosedSegmentsAreRecorded
<1>1. JournalInit => SegmentInv
  BY IdleIsAState DEF JournalInit, EmptyHead, SegmentInv, SegmentsKept, OwesRightly, Idle
<1>2. LedgerInv /\ LedgerInv' /\ SegmentInv /\ [JournalNext]_journalVars => SegmentInv'
  BY StepKeepsSegments
<1>3. LedgerInv /\ SegmentInv => ClosedSegmentsAreRecorded
  <2> SUFFICES ASSUME LedgerInv, SegmentInv, NEW n \in 1..(head.index - 1),
                      head.pending # n, Recorded(n) = {}
               PROVE  \E m \in 1..(n - 1) : Cardinality(Recorded(m)) > 1
    BY DEF ClosedSegmentsAreRecorded
  <2>1. \A m : RecordedIn(log, m, Len(log)) = Recorded(m)
    BY DEF RecordedIn, Recorded
  <2>2. PICK m \in 1..(n - 1) : TwiceIn(log, m, Len(log))
    BY <2>1 DEF SegmentInv, SegmentsKept
  <2>3. PICK i, j \in Recorded(m) : i # j
    BY <2>1, <2>2 DEF TwiceIn
  <2>4. Len(log) \in Nat /\ Recorded(m) \subseteq 1..Len(log)
    BY DEF LedgerInv, DiskOK, Recorded
  <2>5. IsFiniteSet(Recorded(m))
    <3>1. IsFiniteSet(1..Len(log))
      BY <2>4, FS_Interval
    <3> QED
      BY <2>4, <3>1, FS_Subset
  <2>6. {i, j} \subseteq Recorded(m) /\ Cardinality({i, j}) = 2
    <3>1. IsFiniteSet({i}) /\ Cardinality({i}) = 1
      BY FS_Singleton
    <3>2. j \notin {i} /\ {i, j} = {i} \cup {j}
      BY <2>3
    <3>3. Cardinality({i} \cup {j}) = Cardinality({i}) + 1
      BY <3>1, <3>2, FS_AddElement
    <3> QED
      BY <2>3, <3>1, <3>2, <3>3
  <2>7. Cardinality({i, j}) <= Cardinality(Recorded(m)) /\ Cardinality(Recorded(m)) \in Nat
    BY <2>5, <2>6, FS_Subset, FS_CardinalityType
  <2> QED
    BY <2>6, <2>7
<1> QED
  BY <1>1, <1>2, <1>3, LedgerInvHolds, PTL DEF JournalSpec

-----------------------------------------------------------------------------
\* Open brackets keep room for their ends

\* What the first k records of a chain tell: the open brackets, those that carry a
\* flag, the records paid from the headroom, and the records about a bracket that
\* was resolved already.
Says(l, o, K, k) == \E i \in 1..k : l[i].op = o /\ l[i].kind \in K
OpenIn(l, k) == {o \in Operations : Says(l, o, {"started"}, k) /\ ~Says(l, o, Resolving, k)}
FlaggedIn(l, k) == {o \in OpenIn(l, k) : Says(l, o, Flagging, k)}
SpareIn(l, k) == {i \in 1..k : l[i].kind \in {"scanned", "retention"}}
LateIn(l, k) == {i \in 1..k : l[i].op # None /\ Says(l, l[i].op, Resolving, i - 1)}

Opens(l, k) == Cardinality(OpenIn(l, k))
Flags(l, k) == Cardinality(FlaggedIn(l, k))
Spares(l, k) == Cardinality(SpareIn(l, k))
Lates(l, k) == Cardinality(LateIn(l, k))

\* The head counts every open bracket that no late record hides from it, and the
\* chain has the reserve of every open bracket left, less the flag some have spent
\* and what was paid from the headroom.
RoomIn(l, k, H) ==
    /\ IsFiniteSet(OpenIn(l, k))
    /\ Opens(l, k) <= H.open + Lates(l, k)
    /\ k + ClosureRecords * Opens(l, k) + Headroom
       <= MaxEvents + Flags(l, k) + Spares(l, k) + (ClosureRecords + 1) * Lates(l, k)

LEMMA PrefixKeepsRoom ==
    ASSUME NEW l, NEW m, NEW k \in Nat, NEW H, RoomIn(l, k, H),
           \A i \in 1..k : m[i] = l[i]
    PROVE  RoomIn(m, k, H)
<1>1. \A o, K : \A n \in 0..k : Says(m, o, K, n) <=> Says(l, o, K, n)
  BY DEF Says
<1>2. \A o, K : Says(m, o, K, k) <=> Says(l, o, K, k)
  BY <1>1
<1>3. OpenIn(m, k) = OpenIn(l, k)
  BY <1>2 DEF OpenIn
<1>4. FlaggedIn(m, k) = FlaggedIn(l, k)
  BY <1>2, <1>3 DEF FlaggedIn
<1>5. SpareIn(m, k) = SpareIn(l, k)
  BY DEF SpareIn
<1>6. LateIn(m, k) = LateIn(l, k)
  <2>1. \A i \in 1..k : i - 1 \in 0..k
    OBVIOUS
  <2> QED
    BY <1>1, <2>1 DEF LateIn
<1> QED
  BY <1>3, <1>4, <1>5, <1>6 DEF RoomIn, Opens, Flags, Spares, Lates

\* The sets are finite, so the counts are numbers.
LEMMA CountsAreNatural ==
    ASSUME NEW l, NEW k \in Nat, IsFiniteSet(OpenIn(l, k))
    PROVE  /\ Opens(l, k) \in Nat /\ Flags(l, k) \in Nat /\ Flags(l, k) <= Opens(l, k)
           /\ Spares(l, k) \in Nat /\ Lates(l, k) \in Nat
           /\ IsFiniteSet(FlaggedIn(l, k)) /\ IsFiniteSet(SpareIn(l, k))
           /\ IsFiniteSet(LateIn(l, k))
<1>1. IsFiniteSet(1..k)
  BY FS_Interval
<1>2. IsFiniteSet(SpareIn(l, k))
  <2>1. SpareIn(l, k) \subseteq 1..k
    BY DEF SpareIn
  <2> QED
    BY <1>1, <2>1, FS_Subset
<1>3. IsFiniteSet(LateIn(l, k))
  <2>1. LateIn(l, k) \subseteq 1..k
    BY DEF LateIn
  <2> QED
    BY <1>1, <2>1, FS_Subset
<1>4. IsFiniteSet(FlaggedIn(l, k)) /\ Flags(l, k) <= Opens(l, k)
  <2>1. FlaggedIn(l, k) \subseteq OpenIn(l, k)
    BY DEF FlaggedIn
  <2> QED
    BY <2>1, FS_Subset DEF Flags, Opens
<1> QED
  BY <1>2, <1>3, <1>4, FS_CardinalityType DEF Opens, Flags, Spares, Lates

\* What one more record tells.
LEMMA OneMoreSays ==
    ASSUME NEW l, NEW k \in Nat, NEW o, NEW K
    PROVE  Says(l, o, K, k + 1) <=> Says(l, o, K, k) \/ (l[k + 1].op = o /\ l[k + 1].kind \in K)
  BY DEF Says

LEMMA OneMoreSpare ==
    ASSUME NEW l, NEW k \in Nat
    PROVE  Spares(l, k + 1) = IF l[k + 1].kind \in {"scanned", "retention"}
                              THEN Spares(l, k) + 1 ELSE Spares(l, k)
<1>1. IsFiniteSet(SpareIn(l, k)) /\ k + 1 \notin SpareIn(l, k)
  <2>1. IsFiniteSet(1..k) /\ SpareIn(l, k) \subseteq 1..k
    BY FS_Interval DEF SpareIn
  <2> QED
    BY <2>1, FS_Subset
<1>2. CASE l[k + 1].kind \in {"scanned", "retention"}
  <2>1. SpareIn(l, k + 1) = SpareIn(l, k) \cup {k + 1}
    BY <1>2 DEF SpareIn
  <2> QED
    BY <1>1, <1>2, <2>1, FS_AddElement DEF Spares
<1>3. CASE l[k + 1].kind \notin {"scanned", "retention"}
  <2>1. SpareIn(l, k + 1) = SpareIn(l, k)
    BY <1>3 DEF SpareIn
  <2> QED
    BY <1>3, <2>1 DEF Spares
<1> QED
  BY <1>2, <1>3

LEMMA OneMoreLate ==
    ASSUME NEW l, NEW k \in Nat
    PROVE  Lates(l, k + 1) = IF l[k + 1].op # None /\ Says(l, l[k + 1].op, Resolving, k)
                             THEN Lates(l, k) + 1 ELSE Lates(l, k)
<1> DEFINE late == l[k + 1].op # None /\ Says(l, l[k + 1].op, Resolving, k)
<1>1. IsFiniteSet(LateIn(l, k)) /\ k + 1 \notin LateIn(l, k)
  <2>1. IsFiniteSet(1..k) /\ LateIn(l, k) \subseteq 1..k
    BY FS_Interval DEF LateIn
  <2> QED
    BY <2>1, FS_Subset
<1>2. \A i \in 1..k + 1 : i \in 1..k \/ (i = k + 1 /\ i - 1 = k)
  OBVIOUS
<1>3. CASE late
  <2>1. LateIn(l, k + 1) = LateIn(l, k) \cup {k + 1}
    BY <1>2, <1>3 DEF LateIn
  <2> QED
    BY <1>1, <1>3, <2>1, FS_AddElement DEF Lates
<1>4. CASE ~late
  <2>1. LateIn(l, k + 1) = LateIn(l, k)
    BY <1>2, <1>4 DEF LateIn
  <2> QED
    BY <1>4, <2>1 DEF Lates
<1> QED
  BY <1>3, <1>4

\* A record that is written starts a new bracket, ends or flags one that was
\* started, or is about none.
FitsIn(l, k, e) ==
    \/ e.kind = "started" /\ e.op \in Operations /\ ~Says(l, e.op, Kinds, k)
    \/ e.kind \in Resolving /\ e.op \in Operations /\ Says(l, e.op, {"started"}, k)
    \/ /\ e.kind \in Flagging /\ e.op \in Operations
       /\ Says(l, e.op, {"started"}, k) /\ ~Says(l, e.op, Flagging, k)
    \/ e.kind \in {"scanned", "retention", "note"} /\ e.op = None

\* What a start, an end and a flag change in the counts.
LEMMA StartCounts ==
    ASSUME NEW l, NEW k \in Nat, IsFiniteSet(OpenIn(l, k)), l[k + 1].kind = "started",
           l[k + 1].op \in Operations, ~Says(l, l[k + 1].op, Kinds, k)
    PROVE  /\ IsFiniteSet(OpenIn(l, k + 1)) /\ Opens(l, k + 1) = Opens(l, k) + 1
           /\ Flags(l, k + 1) = Flags(l, k)
           /\ Spares(l, k + 1) = Spares(l, k) /\ Lates(l, k + 1) = Lates(l, k)
<1> DEFINE o == l[k + 1].op
<1>1. /\ ~Says(l, o, {"started"}, k) /\ ~Says(l, o, Resolving, k) /\ ~Says(l, o, Flagging, k)
  BY DEF Says, Kinds, Closure, Resolving, Flagging
<1>2. \A p, K : Says(l, p, K, k + 1) <=> Says(l, p, K, k) \/ (o = p /\ "started" \in K)
  BY OneMoreSays
<1>3. OpenIn(l, k + 1) = OpenIn(l, k) \cup {o} /\ o \notin OpenIn(l, k)
  <2>1. \A p : Says(l, p, Resolving, k + 1) <=> Says(l, p, Resolving, k)
    BY <1>2 DEF Resolving
  <2>2. \A p : Says(l, p, {"started"}, k + 1) <=> Says(l, p, {"started"}, k) \/ p = o
    BY <1>2
  <2> QED
    BY <1>1, <2>1, <2>2 DEF OpenIn
<1>4. FlaggedIn(l, k + 1) = FlaggedIn(l, k)
  BY <1>1, <1>2, <1>3 DEF FlaggedIn, Flagging
<1> HIDE DEF o
<1>5. IsFiniteSet(OpenIn(l, k + 1)) /\ Opens(l, k + 1) = Opens(l, k) + 1
  BY <1>3, FS_AddElement DEF Opens
<1> QED
  BY <1>1, <1>4, <1>5, OneMoreSpare, OneMoreLate DEF Flags, o

LEMMA EndCounts ==
    ASSUME NEW l, NEW k \in Nat, IsFiniteSet(OpenIn(l, k)), l[k + 1].kind \in Resolving,
           l[k + 1].op \in OpenIn(l, k)
    PROVE  /\ IsFiniteSet(OpenIn(l, k + 1)) /\ Opens(l, k + 1) = Opens(l, k) - 1
           /\ Flags(l, k) <= Flags(l, k + 1) + 1
           /\ Spares(l, k + 1) = Spares(l, k) /\ Lates(l, k + 1) = Lates(l, k)
<1> DEFINE o == l[k + 1].op
<1>1. \A p, K : Says(l, p, K, k + 1) <=> Says(l, p, K, k) \/ (o = p /\ l[k + 1].kind \in K)
  BY OneMoreSays
<1>2. ~Says(l, o, Resolving, k)
  BY DEF OpenIn
<1>3. OpenIn(l, k + 1) = OpenIn(l, k) \ {o}
  BY <1>1 DEF OpenIn, Resolving
<1>4. FlaggedIn(l, k + 1) = FlaggedIn(l, k) \ {o}
  BY <1>1, <1>3 DEF FlaggedIn, Resolving, Flagging
<1>5. IsFiniteSet(OpenIn(l, k + 1)) /\ Opens(l, k + 1) = Opens(l, k) - 1
  BY <1>3, FS_RemoveElement DEF Opens
<1>6. IsFiniteSet(FlaggedIn(l, k)) /\ Flags(l, k) \in Nat
  BY CountsAreNatural
<1>7. Flags(l, k) <= Flags(l, k + 1) + 1
  <2> DEFINE F == FlaggedIn(l, k)
  <2>1. Cardinality(F \ {o}) = IF o \in F THEN Cardinality(F) - 1 ELSE Cardinality(F)
    BY <1>6, FS_RemoveElement
  <2> QED
    BY <1>4, <1>6, <2>1 DEF Flags
<1> QED
  BY <1>2, <1>5, <1>7, OneMoreSpare, OneMoreLate DEF Resolving

LEMMA FlagCounts ==
    ASSUME NEW l, NEW k \in Nat, IsFiniteSet(OpenIn(l, k)), l[k + 1].kind \in Flagging,
           l[k + 1].op \in OpenIn(l, k), ~Says(l, l[k + 1].op, Flagging, k)
    PROVE  /\ IsFiniteSet(OpenIn(l, k + 1)) /\ Opens(l, k + 1) = Opens(l, k)
           /\ Flags(l, k + 1) = Flags(l, k) + 1
           /\ Spares(l, k + 1) = Spares(l, k) /\ Lates(l, k + 1) = Lates(l, k)
<1> DEFINE o == l[k + 1].op
<1>1. \A p, K : Says(l, p, K, k + 1) <=> Says(l, p, K, k) \/ (o = p /\ l[k + 1].kind \in K)
  BY OneMoreSays
<1>2. ~Says(l, o, Resolving, k)
  BY DEF OpenIn
<1>3. OpenIn(l, k + 1) = OpenIn(l, k)
  BY <1>1 DEF OpenIn, Resolving, Flagging
<1>4. FlaggedIn(l, k + 1) = FlaggedIn(l, k) \cup {o} /\ o \notin FlaggedIn(l, k)
  BY <1>1, <1>3 DEF FlaggedIn
<1>5. IsFiniteSet(FlaggedIn(l, k))
  BY CountsAreNatural
<1> HIDE DEF o
<1>6. Flags(l, k + 1) = Flags(l, k) + 1
  BY <1>4, <1>5, FS_AddElement DEF Flags
<1> QED
  BY <1>2, <1>3, <1>6, OneMoreSpare, OneMoreLate DEF Flagging, Opens, o

\* A record about an operation that was resolved already, and one about none.
LEMMA OtherCounts ==
    ASSUME NEW l, NEW k \in Nat, IsFiniteSet(OpenIn(l, k)),
           \/ l[k + 1].op = None
           \/ Says(l, l[k + 1].op, Resolving, k)
    PROVE  /\ IsFiniteSet(OpenIn(l, k + 1)) /\ Opens(l, k + 1) = Opens(l, k)
           /\ Flags(l, k + 1) = Flags(l, k)
<1> DEFINE o == l[k + 1].op
<1>1. \A p, K : Says(l, p, K, k + 1) <=> Says(l, p, K, k) \/ (o = p /\ l[k + 1].kind \in K)
  BY OneMoreSays
<1>2. \A p \in Operations : p = o => Says(l, p, Resolving, k)
  BY JournalNames
<1>3. OpenIn(l, k + 1) = OpenIn(l, k)
  BY <1>1, <1>2 DEF OpenIn
<1>4. FlaggedIn(l, k + 1) = FlaggedIn(l, k)
  <2>1. \A p \in OpenIn(l, k) : p # o
    BY <1>2 DEF OpenIn
  <2> QED
    BY <1>1, <1>3, <2>1 DEF FlaggedIn
<1> QED
  BY <1>3, <1>4 DEF Opens, Flags

LEMMA Reserves ==
    /\ ClosureRecords \in Nat /\ ClosureRecords >= 2
    /\ MaxEvents \in Nat /\ Headroom \in Nat /\ Headroom <= MaxEvents
  BY JournalLimits, JournalReserve

\* The arithmetic of the reserve.
LEMMA ProductsGrow ==
    ASSUME NEW a \in Nat, NEW b \in Nat, NEW c \in Nat
    PROVE  /\ c * a \in Nat /\ c * (a + 1) = c * a + c /\ (c + 1) * (a + 1) = (c + 1) * a + c + 1
           /\ (c + 1) * a = c * a + a
           /\ c * (a + b) = c * a + c * b
           /\ a <= b => c * a <= c * b
  OBVIOUS

\* An ordinary record leaves the reserve of all that are open, itself included.
LEMMA OrdinaryKeepsRoom ==
    ASSUME NEW k \in Nat, NEW n \in Nat, NEW open \in Nat,
           NEW t \in Nat, NEW f \in Nat, NEW s \in Nat,
           n <= open + t, k + 1 + (open * ClosureRecords + Headroom) <= MaxEvents
    PROVE  k + 1 + ClosureRecords * n + Headroom <= MaxEvents + f + s + (ClosureRecords + 1) * t
<1>1. /\ ClosureRecords \in Nat /\ MaxEvents \in Nat /\ Headroom \in Nat
  BY Reserves
<1>2. ClosureRecords * n <= ClosureRecords * (open + t)
  BY <1>1, ProductsGrow
<1>3. ClosureRecords * (open + t) = ClosureRecords * open + ClosureRecords * t
  BY <1>1, ProductsGrow
<1>4. (ClosureRecords + 1) * t = ClosureRecords * t + t
  BY <1>1, ProductsGrow
<1>5. open * ClosureRecords = ClosureRecords * open
  BY <1>1
<1>6. ClosureRecords * n \in Nat /\ ClosureRecords * open \in Nat /\ ClosureRecords * t \in Nat
  BY <1>1, ProductsGrow
<1> DEFINE a == ClosureRecords * n
           b == ClosureRecords * open
           c == ClosureRecords * t
           d == (ClosureRecords + 1) * t
<1>7. a <= b + c /\ d = c + t /\ k + 1 + (b + Headroom) <= MaxEvents
      /\ a \in Nat /\ b \in Nat /\ c \in Nat
  BY <1>2, <1>3, <1>4, <1>5, <1>6
<1> HIDE DEF a, b, c, d
<1>8. k + 1 + a + Headroom <= MaxEvents + f + s + d
  BY <1>1, <1>7
<1> QED
  BY <1>8 DEF a, d

\* The counts are numbers.
Counts(l, k) ==
    Opens(l, k) \in Nat /\ Flags(l, k) \in Nat /\ Spares(l, k) \in Nat /\ Lates(l, k) \in Nat

\* The record after the k-th ends a bracket, flags one, is paid from the headroom,
\* or is about a bracket that was resolved already.
Spends(l, k) ==
    \/ /\ Opens(l, k) = Opens(l, k + 1) + 1 /\ Flags(l, k) <= Flags(l, k + 1) + 1
       /\ Spares(l, k + 1) = Spares(l, k) /\ Lates(l, k + 1) = Lates(l, k)
    \/ /\ Opens(l, k + 1) = Opens(l, k) /\ Flags(l, k + 1) = Flags(l, k) + 1
       /\ Spares(l, k + 1) = Spares(l, k) /\ Lates(l, k + 1) = Lates(l, k)
    \/ /\ Opens(l, k + 1) = Opens(l, k) /\ Flags(l, k + 1) = Flags(l, k)
       /\ Spares(l, k + 1) = Spares(l, k) + 1 /\ Lates(l, k + 1) = Lates(l, k)
    \/ /\ Opens(l, k + 1) = Opens(l, k) /\ Flags(l, k + 1) = Flags(l, k)
       /\ Spares(l, k + 1) = Spares(l, k) /\ Lates(l, k + 1) = Lates(l, k) + 1

\* A record from the reserve.
LEMMA ClosureKeepsRoom ==
    ASSUME NEW k \in Nat, NEW l, Counts(l, k), Counts(l, k + 1),
           k + ClosureRecords * Opens(l, k) + Headroom
           <= MaxEvents + Flags(l, k) + Spares(l, k) + (ClosureRecords + 1) * Lates(l, k),
           Spends(l, k)
    PROVE  k + 1 + ClosureRecords * Opens(l, k + 1) + Headroom
           <= MaxEvents + Flags(l, k + 1) + Spares(l, k + 1)
              + (ClosureRecords + 1) * Lates(l, k + 1)
<1> DEFINE n == Opens(l, k)
           n2 == Opens(l, k + 1)
           f == Flags(l, k)
           f2 == Flags(l, k + 1)
           s == Spares(l, k)
           s2 == Spares(l, k + 1)
           t == Lates(l, k)
           t2 == Lates(l, k + 1)
           a == ClosureRecords * n
           a2 == ClosureRecords * n2
           d == (ClosureRecords + 1) * t
           d2 == (ClosureRecords + 1) * t2
<1>1. /\ ClosureRecords \in Nat /\ ClosureRecords >= 2 /\ MaxEvents \in Nat /\ Headroom \in Nat
  BY Reserves
<1>2. /\ n \in Nat /\ f \in Nat /\ s \in Nat /\ t \in Nat
      /\ n2 \in Nat /\ f2 \in Nat /\ s2 \in Nat /\ t2 \in Nat
  BY DEF Counts
<1>3. \/ n = n2 + 1 /\ f <= f2 + 1 /\ s2 = s /\ t2 = t
      \/ n2 = n /\ f2 = f + 1 /\ s2 = s /\ t2 = t
      \/ n2 = n /\ f2 = f /\ s2 = s + 1 /\ t2 = t
      \/ n2 = n /\ f2 = f /\ s2 = s /\ t2 = t + 1
  BY DEF Spends
<1>4. k + a + Headroom <= MaxEvents + f + s + d
  OBVIOUS
<1> HIDE DEF n, n2, f, f2, s, s2, t, t2
<1>5. a \in Nat /\ a2 \in Nat /\ d \in Nat /\ d2 \in Nat
  BY <1>1, <1>2, ProductsGrow
<1>6. n = n2 + 1 => a = a2 + ClosureRecords
  BY <1>1, <1>2, ProductsGrow
<1>7. t2 = t + 1 => d2 = d + ClosureRecords + 1
  BY <1>1, <1>2, ProductsGrow
<1>8. (n2 = n => a2 = a) /\ (t2 = t => d2 = d)
  OBVIOUS
<1> HIDE DEF a, a2, d, d2
<1>9. k + 1 + a2 + Headroom <= MaxEvents + f2 + s2 + d2
  BY <1>1, <1>2, <1>3, <1>4, <1>5, <1>6, <1>7, <1>8
<1> QED
  BY <1>9 DEF a2, d2, n2, f2, s2, t2

\* What the quota lets in keeps the room of all brackets.
LEMMA WritingKeepsRoom ==
    ASSUME DiskOK, RoomIn(log, Len(log), head), NEW e, Writes(e), FitsIn(log, Len(log), e)
    PROVE  RoomIn(log', Len(log'), head')
<1> DEFINE k == Len(log)
           l == log'
<1>1. /\ log \in Seq(Records) /\ k \in Nat /\ head \in Heads /\ head.open \in Nat
      /\ e \in Records /\ log' = Append(log, e)
  BY DEF DiskOK, Heads, Writes
<1>2. Len(l) = k + 1 /\ l[k + 1] = e /\ \A i \in 1..k : l[i] = log[i]
  BY <1>1
<1>3. RoomIn(l, k, head)
  BY <1>1, <1>2, PrefixKeepsRoom
<1>4. FitsIn(l, k, e)
  <2>1. \A o, K : Says(l, o, K, k) <=> Says(log, o, K, k)
    BY <1>2 DEF Says
  <2> QED
    BY <2>1 DEF FitsIn
<1>5. head'.open = Counted(e) /\ HasRoom(e)
  BY <1>1 DEF Writes, Heads
<1>6. /\ IsFiniteSet(OpenIn(l, k)) /\ Opens(l, k) \in Nat /\ Flags(l, k) \in Nat
      /\ Spares(l, k) \in Nat /\ Lates(l, k) \in Nat
      /\ Opens(l, k) <= head.open + Lates(l, k)
      /\ k + ClosureRecords * Opens(l, k) + Headroom
         <= MaxEvents + Flags(l, k) + Spares(l, k) + (ClosureRecords + 1) * Lates(l, k)
  BY <1>1, <1>3, CountsAreNatural DEF RoomIn
<1>7. /\ ClosureRecords \in Nat /\ MaxEvents \in Nat /\ Headroom \in Nat
  BY Reserves
<1> HIDE DEF l, k
<1>8. ASSUME IsFiniteSet(OpenIn(l, k + 1)),
             Opens(l, k + 1) <= head'.open + Lates(l, k + 1),
             k + 1 + ClosureRecords * Opens(l, k + 1) + Headroom
             <= MaxEvents + Flags(l, k + 1) + Spares(l, k + 1)
                + (ClosureRecords + 1) * Lates(l, k + 1)
      PROVE  RoomIn(log', Len(log'), head')
  BY <1>2, <1>8 DEF RoomIn, l
<1>9. ASSUME IsFiniteSet(OpenIn(l, k + 1))
      PROVE  /\ Opens(l, k + 1) \in Nat /\ Flags(l, k + 1) \in Nat
             /\ Spares(l, k + 1) \in Nat /\ Lates(l, k + 1) \in Nat
  BY <1>1, <1>9, CountsAreNatural
<1>10. CASE e.kind = "started" /\ e.op \in Operations /\ ~Says(l, e.op, Kinds, k)
  <2>1. /\ IsFiniteSet(OpenIn(l, k + 1)) /\ Opens(l, k + 1) = Opens(l, k) + 1
        /\ Flags(l, k + 1) = Flags(l, k)
        /\ Spares(l, k + 1) = Spares(l, k) /\ Lates(l, k + 1) = Lates(l, k)
    BY <1>1, <1>2, <1>6, <1>10, StartCounts
  <2>2. head'.open = head.open + 1
    BY <1>5, <1>10 DEF Counted, Resolving
  <2>3. k + 1 + ((head.open + 1) * ClosureRecords + Headroom) <= MaxEvents
    BY <1>5, <1>10 DEF HasRoom, Closure, Resolving, Flagging, Reserve, k
  <2>4. k + 1 + ClosureRecords * (Opens(l, k) + 1) + Headroom
        <= MaxEvents + Flags(l, k) + Spares(l, k) + (ClosureRecords + 1) * Lates(l, k)
    <3> DEFINE n == Opens(l, k) + 1
               o == head.open + 1
    <3>1. n \in Nat /\ o \in Nat /\ n <= o + Lates(l, k)
      <4>1. head.open \in Nat
        BY <1>1 DEF Heads
      <4> QED
        BY <1>6, <4>1
    <3>2. k + 1 + (o * ClosureRecords + Headroom) <= MaxEvents
      BY <2>3
    <3> HIDE DEF n, o
    <3>3. k + 1 + ClosureRecords * n + Headroom
          <= MaxEvents + Flags(l, k) + Spares(l, k) + (ClosureRecords + 1) * Lates(l, k)
      BY <1>1, <1>6, <3>1, <3>2, OrdinaryKeepsRoom
    <3> QED
      BY <3>3 DEF n
  <2> QED
    BY <1>1, <1>6, <1>8, <2>1, <2>2, <2>4
<1>11. CASE e.kind = "note" /\ e.op = None
  <2>1. /\ IsFiniteSet(OpenIn(l, k + 1)) /\ Opens(l, k + 1) = Opens(l, k)
        /\ Flags(l, k + 1) = Flags(l, k)
    BY <1>1, <1>2, <1>6, <1>11, OtherCounts
  <2>2. Spares(l, k + 1) = Spares(l, k) /\ Lates(l, k + 1) = Lates(l, k)
    <3>1. l[k + 1].kind \notin {"scanned", "retention"} /\ l[k + 1].op = None
      BY <1>2, <1>11
    <3> QED
      BY <1>1, <3>1, OneMoreSpare, OneMoreLate
  <2>3. head'.open = head.open
    BY <1>5, <1>11 DEF Counted, Resolving
  <2>4. k + 1 + (head.open * ClosureRecords + Headroom) <= MaxEvents
    BY <1>1, <1>5, <1>11 DEF HasRoom, Closure, Resolving, Flagging, Reserve, k
  <2>5. k + 1 + ClosureRecords * Opens(l, k) + Headroom
        <= MaxEvents + Flags(l, k) + Spares(l, k) + (ClosureRecords + 1) * Lates(l, k)
    BY <1>1, <1>6, <2>4, OrdinaryKeepsRoom
  <2> QED
    BY <1>6, <1>8, <2>1, <2>2, <2>3, <2>5
<1>12. ASSUME IsFiniteSet(OpenIn(l, k + 1)), Opens(l, k + 1) <= head'.open + Lates(l, k + 1),
              Spends(l, k)
       PROVE  RoomIn(log', Len(log'), head')
  <2>1. Counts(l, k) /\ Counts(l, k + 1)
    BY <1>6, <1>9, <1>12 DEF Counts
  <2>2. k + 1 + ClosureRecords * Opens(l, k + 1) + Headroom
        <= MaxEvents + Flags(l, k + 1) + Spares(l, k + 1)
           + (ClosureRecords + 1) * Lates(l, k + 1)
    BY <1>1, <1>6, <1>12, <2>1, ClosureKeepsRoom
  <2> QED
    BY <1>8, <1>12, <2>2
<1>13. CASE e.kind \in {"scanned", "retention"} /\ e.op = None
  <2>1. /\ IsFiniteSet(OpenIn(l, k + 1)) /\ Opens(l, k + 1) = Opens(l, k)
        /\ Flags(l, k + 1) = Flags(l, k)
    BY <1>1, <1>2, <1>6, <1>13, OtherCounts
  <2>2. Spares(l, k + 1) = Spares(l, k) + 1 /\ Lates(l, k + 1) = Lates(l, k)
    <3>1. l[k + 1].kind \in {"scanned", "retention"} /\ l[k + 1].op = None
      BY <1>2, <1>13
    <3> QED
      BY <1>1, <3>1, OneMoreSpare, OneMoreLate
  <2>3. head'.open = head.open
    BY <1>5, <1>13 DEF Counted, Resolving
  <2> QED
    BY <1>6, <1>12, <2>1, <2>2, <2>3 DEF Spends
<1>14. CASE /\ e.kind \in Resolving \cup Flagging /\ e.op \in Operations
            /\ Says(l, e.op, Resolving, k)
  <2>1. /\ IsFiniteSet(OpenIn(l, k + 1)) /\ Opens(l, k + 1) = Opens(l, k)
        /\ Flags(l, k + 1) = Flags(l, k)
    BY <1>1, <1>2, <1>6, <1>14, OtherCounts
  <2>2. Spares(l, k + 1) = Spares(l, k) /\ Lates(l, k + 1) = Lates(l, k) + 1
    <3>1. e.op # None /\ e.kind \notin {"scanned", "retention"}
      BY <1>14, JournalNames DEF Resolving, Flagging
    <3> QED
      BY <1>1, <1>2, <1>14, <3>1, OneMoreSpare, OneMoreLate
  <2>3. head'.open \in Nat /\ head.open <= head'.open + 1
    BY <1>1, <1>5, <1>14 DEF Counted, Resolving, Flagging
  <2>4. Opens(l, k + 1) <= head'.open + Lates(l, k + 1)
    BY <1>1, <1>6, <2>1, <2>2, <2>3
  <2> QED
    BY <1>12, <2>1, <2>2, <2>4 DEF Spends
<1>15. CASE /\ e.kind \in Resolving /\ e.op \in Operations
            /\ Says(l, e.op, {"started"}, k) /\ ~Says(l, e.op, Resolving, k)
  <2>1. e.op \in OpenIn(l, k)
    BY <1>15 DEF OpenIn
  <2>2. /\ IsFiniteSet(OpenIn(l, k + 1)) /\ Opens(l, k + 1) = Opens(l, k) - 1
        /\ Flags(l, k) <= Flags(l, k + 1) + 1
        /\ Spares(l, k + 1) = Spares(l, k) /\ Lates(l, k + 1) = Lates(l, k)
    BY <1>1, <1>2, <1>6, <1>15, <2>1, EndCounts
  <2>3. head'.open = IF head.open > 0 THEN head.open - 1 ELSE head.open
    BY <1>1, <1>5, <1>15 DEF Counted, Resolving
  <2>4. Opens(l, k) = Opens(l, k + 1) + 1 /\ Opens(l, k + 1) <= head'.open + Lates(l, k + 1)
    <3>1. head.open \in Nat
      BY <1>1 DEF Heads
    <3>2. Opens(l, k) \in Nat /\ Lates(l, k) \in Nat /\ Opens(l, k) <= head.open + Lates(l, k)
      BY <1>6
    <3>3. Opens(l, k + 1) \in Nat
      BY <1>9, <2>2
    <3> QED
      BY <2>2, <2>3, <3>1, <3>2, <3>3
  <2> QED
    BY <1>12, <2>2, <2>4 DEF Spends
<1>16. CASE /\ e.kind \in Flagging /\ e.op \in Operations
            /\ Says(l, e.op, {"started"}, k) /\ ~Says(l, e.op, Resolving, k)
            /\ ~Says(l, e.op, Flagging, k)
  <2>1. e.op \in OpenIn(l, k)
    BY <1>16 DEF OpenIn
  <2>2. /\ IsFiniteSet(OpenIn(l, k + 1)) /\ Opens(l, k + 1) = Opens(l, k)
        /\ Flags(l, k + 1) = Flags(l, k) + 1
        /\ Spares(l, k + 1) = Spares(l, k) /\ Lates(l, k + 1) = Lates(l, k)
    BY <1>1, <1>2, <1>6, <1>16, <2>1, FlagCounts
  <2>3. head'.open = head.open
    BY <1>5, <1>16 DEF Counted, Resolving, Flagging
  <2> QED
    BY <1>6, <1>12, <2>2, <2>3 DEF Spends
<1> QED
  BY <1>4, <1>10, <1>11, <1>13, <1>14, <1>15, <1>16 DEF FitsIn

\* A handler whose start record is not written yet is alone with a fresh
\* operation; at any later stage the operation was started.  The handlers of a
\* bracket are its only ones, and nobody flagged it.
Ready(h) == at[h].event.kind = "started" /\ at[h].step \notin {"begun", "running"}
BracketIsSound(h) ==
    LET o == at[h].event.op IN
    o # None =>
    /\ Ready(h) => /\ ~Told(o, Kinds, Len(log))
                   /\ \A g \in Handlers : g # h => at[g].event.op # o
    /\ ~Ready(h) => Told(o, {"started"}, Len(log))
    /\ at[h].event.kind \in Brackets =>
          /\ ~Told(o, Flagging, Len(log))
          /\ \A g \in Handlers : g # h /\ at[g].event.kind \in Brackets => at[g].event.op # o

\* What the startup pass has still to flag is open and not flagged.
TodoIsSound ==
    phase = "flagging" => \A o \in recovery.todo :
        /\ Told(o, {"started"}, Len(log))
        /\ ~Told(o, Resolving, Len(log)) /\ ~Told(o, Flagging, Len(log))

\* The invariant of the room.
RoomInv ==
    /\ RoomIn(log, Len(log), head) /\ RoomIn(log, durable.seq, durable.head)
    /\ \A h \in Handlers : BracketIsSound(h)
    /\ TodoIsSound

\* The chain's part of a step.
LEMMA ChainKeepsRoom ==
    ASSUME DiskOK, DiskOK', RoomIn(log, Len(log), head), RoomIn(log, durable.seq, durable.head),
           \/ ChainRests \/ Rotates \/ FallsBack
           \/ \E e : Writes(e) /\ FitsIn(log, Len(log), e)
    PROVE  RoomIn(log, Len(log), head)' /\ RoomIn(log, durable.seq, durable.head)'
<1>1. /\ Len(log) \in Nat /\ durable.seq \in Nat /\ durable.seq <= Len(log)
      /\ head \in Heads /\ log \in Seq(Records)
  BY DEF DiskOK
<1>2. CASE ChainRests
  BY <1>2 DEF ChainRests
<1>3. ASSUME \A i \in 1..Len(log) : log'[i] = log[i], Synced,
             RoomIn(log', Len(log'), head')
      PROVE  RoomIn(log, Len(log), head)' /\ RoomIn(log, durable.seq, durable.head)'
  <2>1. RoomIn(log', durable.seq, durable.head)
    BY <1>1, <1>3, PrefixKeepsRoom
  <2>2. CASE durable' = durable
    BY <1>3, <2>1, <2>2
  <2>3. CASE durable' = [head |-> head', seq |-> Len(log')]
    <3>1. durable'.seq = Len(log') /\ durable'.head = head'
      BY <2>3
    <3> QED
      BY <1>3, <3>1
  <2> QED
    BY <1>3, <2>2, <2>3 DEF Synced
<1>4. CASE Rotates
  <2>1. head'.open = head.open /\ log' = log /\ Synced
    BY <1>1, <1>4 DEF Rotates, Heads
  <2>2. RoomIn(log, Len(log), head')
    BY <2>1 DEF RoomIn
  <2> QED
    BY <1>3, <2>1, <2>2
<1>5. ASSUME NEW e, Writes(e), FitsIn(log, Len(log), e)
      PROVE  RoomIn(log, Len(log), head)' /\ RoomIn(log, durable.seq, durable.head)'
  <2>1. log' = Append(log, e) /\ Synced /\ e \in Records
    BY <1>5 DEF Writes
  <2>2. \A i \in 1..Len(log) : log'[i] = log[i]
    BY <1>1, <2>1
  <2>3. RoomIn(log', Len(log'), head')
    BY <1>5, WritingKeepsRoom
  <2> QED
    BY <1>3, <2>1, <2>2, <2>3
<1>6. CASE FallsBack
  <2>1. log' = SubSeq(log, 1, durable.seq) /\ head' = durable.head /\ durable' = durable
    BY <1>6 DEF FallsBack
  <2>2. Len(log') = durable.seq /\ \A i \in 1..durable.seq : log'[i] = log[i]
    BY <1>1, <2>1
  <2>3. RoomIn(log', durable.seq, durable.head)
    BY <1>1, <2>2, PrefixKeepsRoom
  <2> QED
    BY <2>1, <2>2, <2>3
<1> QED
  BY <1>2, <1>4, <1>5, <1>6

\* What one more record tells, and what it does not.
LEMMA AppendingTells ==
    ASSUME log \in Seq(Records), NEW e \in Records, log' = Append(log, e), NEW o, NEW K
    PROVE  Told(o, K, Len(log))' <=> Told(o, K, Len(log)) \/ (e.op = o /\ e.kind \in K)
<1>1. /\ Len(log) \in Nat /\ Len(log') = Len(log) + 1 /\ log'[Len(log) + 1] = e
      /\ \A i \in 1..Len(log) : log'[i] = log[i]
  OBVIOUS
<1> QED
  BY <1>1 DEF Told

\* A record of a handler fits.
LEMMA HandlersFit ==
    ASSUME LedgerInv, NEW h \in Handlers, BracketIsSound(h), at[h].step = "append"
    PROVE  FitsIn(log, Len(log), at[h].event)
<1> DEFINE e == at[h].event
<1>1. \A o, K : Says(log, o, K, Len(log)) <=> Told(o, K, Len(log))
  BY DEF Says, Told
<1>2. \/ e.kind = "note" /\ e.op = None
      \/ e.kind \in {"started", "settled", "indeterminate", "resolved"} /\ e.op \in Operations
  BY DEF LedgerInv, ActorsOK, HandlerIsSound
<1>3. ASSUME e.op \in Operations
      PROVE  /\ e.kind = "started" => ~Told(e.op, Kinds, Len(log))
             /\ e.kind # "started" => Told(e.op, {"started"}, Len(log))
             /\ e.kind = "indeterminate" => ~Told(e.op, Flagging, Len(log))
  BY <1>3, JournalNames DEF BracketIsSound, Ready, Brackets
<1> QED
  BY <1>1, <1>2, <1>3 DEF FitsIn, Resolving, Flagging

\* The operation and kind of record a handler holds next.
HoldsNext(h, x) ==
    /\ Becomes(h, x)
    /\ \/ x.event.op = None
       \/ /\ x.event.op = at[h].event.op /\ x.event = at[h].event
          /\ x.step \in {"begun", "running"} =>
                 at[h].step = "begun" \/ log' = Append(log, at[h].event)
          /\ x.step \notin {"begun", "running"} => at[h].step \notin {"begun", "running"}
          /\ x.step \notin {"begun", "running"} => Quietly
       \/ /\ x.event.op = at[h].event.op /\ x.event.kind \in {"settled", "indeterminate"}
          /\ at[h].event.kind \in Brackets /\ ~Ready(h)
          /\ Quietly \/ (log' = Append(log, at[h].event) /\ at[h].event.kind = "settled")
       \/ /\ log' = log /\ x.event.op \in Operations
          /\ \/ x.event.kind = "resolved" /\ x.event.op \in OpenNow
             \/ x.event.kind = "started" /\ Fresh(x.event.op) /\ x.step = "admit"

LEMMA HandlersHold ==
    ASSUME LedgerInv, NEW h \in Handlers, Handle(h)
    PROVE  \E x \in HandlerStates : HoldsNext(h, x)
<1>1. GoesOn(h) \/ Gives(h) \/ Starts(h) \/ Ends(h) \/ Runs(h) \/ Comes(h) \/ Asks(h)
  BY HandlerSteps
<1>2. CASE GoesOn(h)
  <2>1. PICK x \in HandlerStates : Becomes(h, x) /\ x.step \in Middle /\ x.event = at[h].event
    BY <1>2 DEF GoesOn
  <2> QED
    BY <1>2, <2>1 DEF GoesOn, HoldsNext, Middle
<1>3. CASE (Gives(h) /\ Drops(h)) \/ Ends(h)
  BY <1>3, IdleIsAState DEF Drops, Ends, HoldsNext, Becomes
<1>4. CASE Gives(h) /\ Doubts(h)
  <2>1. PICK x \in HandlerStates :
            /\ Becomes(h, x) /\ x.step = "admit"
            /\ x.event.kind = "indeterminate" /\ x.event.op = at[h].event.op
    BY <1>4 DEF Doubts
  <2>2. at[h].event.kind = "settled" /\ at[h].event.kind \in Brackets /\ ~Ready(h)
    BY <1>4 DEF Doubts, Brackets, Ready
  <2> QED
    BY <1>4, <2>1, <2>2 DEF Gives, HoldsNext
<1>5. CASE Starts(h)
  <2>1. PICK x \in HandlerStates : Becomes(h, x) /\ x.step = "begun" /\ x.event = at[h].event
    BY <1>5 DEF Starts
  <2> QED
    BY <1>5, <2>1 DEF Starts, HoldsNext
<1>6. CASE Runs(h)
  <2>1. PICK x \in HandlerStates : Becomes(h, x) /\ x.step = "running" /\ x.event = at[h].event
    BY <1>6 DEF Runs
  <2> QED
    BY <1>6, <2>1 DEF Runs, HoldsNext
<1>7. CASE Comes(h)
  <2>1. PICK x \in HandlerStates :
            /\ Becomes(h, x) /\ x.step = "admit" /\ x.event.op = at[h].event.op
            /\ x.event.kind \in {"settled", "indeterminate"}
    BY <1>7 DEF Comes
  <2>2. at[h].event.kind \in Brackets /\ ~Ready(h) /\ log' = log
    BY <1>7 DEF Comes, Brackets, Ready, LedgerInv, ActorsOK, HandlerIsSound
  <2> QED
    BY <2>1, <2>2 DEF HoldsNext, Quietly
<1>8. CASE Asks(h)
  <2>1. PICK x \in HandlerStates :
          /\ Becomes(h, x) /\ x.step = "admit"
          /\ \/ x.event.kind = "note" /\ x.event.op = None
             \/ /\ x.event.kind = "resolved" /\ x.event.op \in Operations
                /\ x.event.op \in OpenNow
             \/ /\ x.event.kind = "started" /\ x.event.op \in Operations
                /\ Fresh(x.event.op)
    BY <1>8 DEF Asks
  <2> QED
    BY <1>8, <2>1 DEF Asks, HoldsNext
<1> QED
  BY <1>1, <1>2, <1>3, <1>4, <1>5, <1>6, <1>7, <1>8 DEF Gives

\* What the chain tells after a step of h.
LEMMA HandlersTell ==
    ASSUME LedgerInv, NEW h \in Handlers, Handle(h), NEW o, o # None, NEW K
    PROVE  /\ Told(o, K, Len(log)) => Told(o, K, Len(log))'
           /\ Told(o, K, Len(log))' =>
                 \/ Told(o, K, Len(log))
                 \/ /\ log' = Append(log, at[h].event)
                    /\ at[h].event.op = o /\ at[h].event.kind \in K
           /\ Quietly => (Told(o, K, Len(log))' <=> Told(o, K, Len(log)))
<1>1. log \in Seq(Records)
  BY DEF LedgerInv, DiskOK
<1>2. ASSUME log' = log PROVE Told(o, K, Len(log))' <=> Told(o, K, Len(log))
  BY <1>2 DEF Told
<1>3. ASSUME NEW n \in Nat, log' = Append(log, Retention(n))
      PROVE  Told(o, K, Len(log))' <=> Told(o, K, Len(log))
  BY <1>1, <1>3, RetentionsAreRecords, AppendingTells
<1>4. CASE log' = Append(log, at[h].event) /\ at[h].event \in Records
  <2>1. Told(o, K, Len(log))' <=>
            Told(o, K, Len(log)) \/ (at[h].event.op = o /\ at[h].event.kind \in K)
    BY <1>1, <1>4, AppendingTells
  <2> QED
    BY <1>2, <1>3, <1>4, <2>1 DEF Quietly
<1> QED
  BY <1>2, <1>3, <1>4, HandlersWrite DEF Quietly

\* Handlers, recovery and deaths keep the room.
LEMMA HandlersKeepRoom ==
    ASSUME LedgerInv, LedgerInv', RoomInv, NEW h \in Handlers, Handle(h)
    PROVE  RoomInv'
<1>1. DiskOK /\ DiskOK' /\ log \in Seq(Records)
  BY DEF LedgerInv, DiskOK
<1>2. RoomIn(log, Len(log), head)' /\ RoomIn(log, durable.seq, durable.head)'
  <2>1. \A n : FitsIn(log, Len(log), Retention(n))
    BY DEF FitsIn, Retention
  <2>2. at[h].step = "append" => FitsIn(log, Len(log), at[h].event)
    BY HandlersFit DEF RoomInv
  <2>3. \/ ChainRests \/ Rotates
        \/ \E e : Writes(e) /\ FitsIn(log, Len(log), e)
    BY <2>1, <2>2, HandlersWriteOne DEF HandlerWrites
  <2> QED
    BY <1>1, <2>3, ChainKeepsRoom DEF RoomInv
<1>3. PICK x \in HandlerStates : HoldsNext(h, x)
  BY HandlersHold
<1>4. at'[h] = x /\ \A g \in Handlers : g # h => at'[g] = at[g]
  BY <1>3 DEF HoldsNext, Becomes, LedgerInv, ActorsOK
<1>5. \A g \in Handlers : BracketIsSound(g)
  BY DEF RoomInv
<1> DEFINE Tells(o, K) == Told(o, K, Len(log))
           TellsNext(o, K) == \E i \in 1..Len(log') : log'[i].op = o /\ log'[i].kind \in K
<1>6. \A o, K : o # None =>
          /\ Tells(o, K) => TellsNext(o, K)
          /\ TellsNext(o, K) => \/ Tells(o, K)
                                \/ /\ log' = Append(log, at[h].event)
                                   /\ at[h].event.op = o /\ at[h].event.kind \in K
          /\ Quietly => (TellsNext(o, K) <=> Tells(o, K))
  BY HandlersTell DEF Told
<1>7. BracketIsSound(h)'
  <2> SUFFICES ASSUME x.event.op # None
               PROVE  LET o == x.event.op IN
                      /\ Ready(h)' => /\ ~TellsNext(o, Kinds)
                                      /\ \A g \in Handlers : g # h => at[g].event.op # o
                      /\ ~Ready(h)' => TellsNext(o, {"started"})
                      /\ x.event.kind \in Brackets =>
                            /\ ~TellsNext(o, Flagging)
                            /\ \A g \in Handlers :
                                  g # h /\ at[g].event.kind \in Brackets => at[g].event.op # o
    BY <1>4 DEF BracketIsSound, Told
  <2> DEFINE o == x.event.op
  <2>0. Ready(h)' <=> x.event.kind = "started" /\ x.step \notin {"begun", "running"}
    BY <1>4 DEF Ready
  <2>1. CASE /\ o = at[h].event.op /\ x.event = at[h].event
             /\ x.step \notin {"begun", "running"} /\ at[h].step \notin {"begun", "running"}
             /\ Quietly
    <3>1. Ready(h)' <=> Ready(h)
      BY <2>0, <2>1 DEF Ready
    <3> QED
      BY <1>5, <1>6, <2>1, <3>1 DEF BracketIsSound
  <2>2. CASE /\ o = at[h].event.op /\ x.event = at[h].event
             /\ x.step \in {"begun", "running"}
             /\ at[h].step = "begun" \/ log' = Append(log, at[h].event)
    <3>1. at'[h].step \in {"begun", "running"} => at'[h].event.kind = "started"
      BY DEF LedgerInv, ActorsOK, HandlerIsSound
    <3>2. ~Ready(h)' /\ x.event.kind = "started" /\ x.event.kind \in Brackets
      BY <1>4, <2>0, <2>2, <3>1 DEF Brackets
    <3>3. ~Tells(o, Flagging)
      BY <1>5, <2>2, <3>2 DEF BracketIsSound
    <3>4. ~TellsNext(o, Flagging)
      BY <1>6, <2>2, <3>2, <3>3 DEF Flagging
    <3>5. TellsNext(o, {"started"})
      <4>1. CASE at[h].step = "begun"
        <5>1. Tells(o, {"started"})
          BY <1>5, <2>2, <4>1 DEF BracketIsSound, Ready
        <5> QED
          BY <1>6, <5>1
      <4>2. CASE log' = Append(log, at[h].event)
        <5>1. at[h].event \in Records
          BY DEF LedgerInv, ActorsOK, HandlerStates
        <5> QED
          BY <1>1, <2>2, <3>2, <4>2, <5>1, AppendingTells DEF Told
      <4> QED
        BY <2>2, <4>1, <4>2
    <3>6. \A g \in Handlers : g # h /\ at[g].event.kind \in Brackets => at[g].event.op # o
      BY <1>5, <2>2, <3>2 DEF BracketIsSound
    <3> QED
      BY <3>2, <3>4, <3>5, <3>6
  <2>3. CASE /\ o = at[h].event.op /\ x.event.kind \in {"settled", "indeterminate"}
             /\ at[h].event.kind \in Brackets /\ ~Ready(h)
             /\ Quietly \/ (log' = Append(log, at[h].event) /\ at[h].event.kind = "settled")
    <3>1. ~Ready(h)'
      BY <2>0, <2>3
    <3>2. /\ Tells(o, {"started"}) /\ ~Tells(o, Flagging)
          /\ \A g \in Handlers : g # h /\ at[g].event.kind \in Brackets => at[g].event.op # o
      BY <1>5, <2>3 DEF BracketIsSound
    <3>3. TellsNext(o, {"started"}) /\ ~TellsNext(o, Flagging)
      BY <1>6, <2>3, <3>2 DEF Flagging
    <3> QED
      BY <3>1, <3>2, <3>3
  <2>4. CASE /\ log' = log /\ o \in Operations /\ x.event.kind = "resolved" /\ o \in OpenNow
    <3>1. Tells(o, {"started"}) /\ ~Ready(h)' /\ x.event.kind \notin Brackets
      BY <2>0, <2>4 DEF OpenNow, Open, Brackets
    <3> QED
      BY <1>6, <3>1
  <2>5. CASE /\ log' = log /\ x.event.kind = "started" /\ Fresh(o) /\ x.step = "admit"
    <3>1. /\ Ready(h)' /\ ~Tells(o, Kinds) /\ \A g \in Handlers : at[g].event.op # o
      BY <2>0, <2>5 DEF Fresh, EventOf
    <3>2. ~TellsNext(o, Kinds)
      BY <2>5, <3>1 DEF Told
    <3>3. ~TellsNext(o, Flagging)
      BY <3>2 DEF Kinds, Closure
    <3> QED
      BY <3>1, <3>2, <3>3
  <2> QED
    BY <1>3, <2>1, <2>2, <2>3, <2>4, <2>5 DEF HoldsNext
<1>8. ASSUME NEW g \in Handlers, g # h PROVE BracketIsSound(g)'
  <2> DEFINE o == at[g].event.op
  <2> SUFFICES ASSUME o # None
               PROVE  /\ Ready(g) => /\ ~TellsNext(o, Kinds)
                                     /\ \A i \in Handlers : i # g => at'[i].event.op # o
                      /\ ~Ready(g) => TellsNext(o, {"started"})
                      /\ at[g].event.kind \in Brackets =>
                            /\ ~TellsNext(o, Flagging)
                            /\ \A i \in Handlers :
                                  i # g /\ at'[i].event.kind \in Brackets => at'[i].event.op # o
    BY <1>4, <1>8 DEF BracketIsSound, Told, Ready
  <2>1. BracketIsSound(g)
    BY <1>5
  <2>2. ASSUME x.event.op = o
        PROVE  at[h].event.op = o \/ (o \in OpenNow /\ x.event.kind = "resolved")
    BY <1>3, <1>8, <2>2 DEF HoldsNext, Fresh, EventOf
  <2>3. ASSUME Ready(g)
        PROVE  ~TellsNext(o, Kinds) /\ \A i \in Handlers : i # g => at'[i].event.op # o
    <3>1. ~Tells(o, Kinds) /\ \A i \in Handlers : i # g => at[i].event.op # o
      BY <2>1, <2>3 DEF BracketIsSound
    <3>2. o \notin OpenNow
      BY <3>1 DEF OpenNow, Open, Told, Kinds
    <3> QED
      BY <1>4, <1>6, <1>8, <2>2, <3>1, <3>2
  <2>4. ASSUME ~Ready(g) PROVE TellsNext(o, {"started"})
    BY <1>6, <2>1, <2>4 DEF BracketIsSound
  <2>5. ASSUME at[g].event.kind \in Brackets
        PROVE  /\ ~TellsNext(o, Flagging)
               /\ \A i \in Handlers :
                     i # g /\ at'[i].event.kind \in Brackets => at'[i].event.op # o
    <3>1. /\ ~Tells(o, Flagging)
          /\ \A i \in Handlers : i # g /\ at[i].event.kind \in Brackets => at[i].event.op # o
      BY <2>1, <2>5 DEF BracketIsSound
    <3>2. at[h].event.kind \in Flagging => at[h].event.kind \in Brackets
      BY DEF LedgerInv, ActorsOK, HandlerIsSound, Flagging, Brackets
    <3>3. ~TellsNext(o, Flagging)
      BY <1>6, <1>8, <3>1, <3>2
    <3>4. ASSUME x.event.op = o, x.event.kind \in Brackets PROVE FALSE
      <4>1. at[h].event.op = o /\ at[h].event.kind \notin Brackets
        BY <1>8, <2>2, <3>1, <3>4 DEF Brackets
      <4>2. x.event = at[h].event \/ (log' = log /\ (o \in OpenNow \/ Fresh(o)))
        BY <1>3, <3>4, <4>1 DEF HoldsNext
      <4>3. x.event # at[h].event
        BY <3>4, <4>1
      <4>4. ~Fresh(o)
        BY DEF Fresh, EventOf
      <4> QED
        BY <1>3, <3>4, <4>1, <4>3, <4>4 DEF HoldsNext, Brackets
    <3> QED
      BY <1>4, <1>8, <3>1, <3>3, <3>4
  <2> QED
    BY <2>3, <2>4, <2>5
<1>9. TodoIsSound'
  BY HandlerSteps, StepsLand DEF TodoIsSound, Unmoved
<1> QED
  BY <1>2, <1>7, <1>8, <1>9 DEF RoomInv

LEMMA RecoveryKeepsRoom ==
    ASSUME LedgerInv, LedgerInv', RoomInv, Recover
    PROVE  RoomInv'
<1>1. /\ DiskOK /\ DiskOK' /\ log \in Seq(Records) /\ at' = at
      /\ recovery \in [found : SUBSET Operations, todo : SUBSET Operations]
  BY RecoveryKeepsLedgerInv DEF LedgerInv, DiskOK, ActorsOK
<1>2. \A h \in Handlers : at'[h].event.op = None
  <2>1. phase \in {"starting", "flagging"}
    BY DEF Recover, Scan, ScanFails, Flag, RecordScan
  <2> QED
    BY <1>1, <2>1, IdleIsAState DEF LedgerInv, DoorsAreKept
<1>3. \A h \in Handlers : BracketIsSound(h)'
  BY <1>2 DEF BracketIsSound
<1>4. RoomIn(log, Len(log), head)' /\ RoomIn(log, durable.seq, durable.head)'
  <2>1. FitsIn(log, Len(log), Event("scanned", None))
    BY DEF FitsIn, Event
  <2>2. ASSUME phase = "flagging", NEW o \in recovery.todo
        PROVE  FitsIn(log, Len(log), Event("orphaned", o))
    <3>1. o \in Operations /\ Told(o, {"started"}, Len(log)) /\ ~Told(o, Flagging, Len(log))
      BY <1>1, <2>2 DEF RoomInv, TodoIsSound
    <3> QED
      BY <3>1 DEF FitsIn, Event, Flagging, Says, Told
  <2>3. ChainRests \/ \E e : Writes(e) /\ FitsIn(log, Len(log), e)
    BY <2>1, <2>2, RecoveryWritesOne DEF RecoveryWrites
  <2> QED
    BY <1>1, <2>3, ChainKeepsRoom DEF RoomInv
<1>5. TodoIsSound'
  <2> SUFFICES ASSUME phase' = "flagging", NEW p \in recovery'.todo
               PROVE  /\ Told(p, {"started"}, Len(log))'
                      /\ ~Told(p, Resolving, Len(log))' /\ ~Told(p, Flagging, Len(log))'
    BY DEF TodoIsSound
  <2>1. CASE Scan \/ ScanFails
    <3>1. recovery' = [found |-> Found, todo |-> Unflagged] /\ log' = log
      BY <2>1 DEF Scan, ScanFails, Serve, disk
    <3>2. p \in Unflagged
      BY <3>1
    <3> QED
      BY <3>1, <3>2 DEF Unflagged, OpenNow, Open, Told
  <2>2. ASSUME NEW o \in Operations, Flag(o)
        PROVE  /\ Told(p, {"started"}, Len(log))'
               /\ ~Told(p, Resolving, Len(log))' /\ ~Told(p, Flagging, Len(log))'
    <3>1. /\ Stored(Event("orphaned", o)) /\ phase = "flagging"
          /\ recovery' = [recovery EXCEPT !.todo = @ \ {o}]
      BY <2>2 DEF Flag, Serve
    <3>2. /\ Event("orphaned", o) \in Records /\ Event("orphaned", o).op = o
      BY EventsAreRecords DEF Kinds, Closure, Flagging
    <3>3. log' = Append(log, Event("orphaned", o))
      BY <3>1 DEF Stored, Extend
    <3>4. p \in recovery.todo /\ p # o
      BY <1>1, <3>1
    <3>5. /\ Told(p, {"started"}, Len(log))
          /\ ~Told(p, Resolving, Len(log)) /\ ~Told(p, Flagging, Len(log))
      BY <3>1, <3>4 DEF RoomInv, TodoIsSound
    <3> QED
      BY <1>1, <3>2, <3>3, <3>4, <3>5, AppendingTells
  <2>3. CASE RecordScan
    BY <2>3 DEF RecordScan, Serve
  <2> QED
    BY <2>1, <2>2, <2>3 DEF Recover
<1> QED
  BY <1>3, <1>4, <1>5 DEF RoomInv

LEMMA DeathsKeepRoom ==
    ASSUME LedgerInv, LedgerInv', RoomInv, Crash \/ PowerLoss
    PROVE  RoomInv'
<1>1. /\ ChainRests \/ FallsBack
      /\ \A h \in Handlers : at'[h] = Idle
      /\ phase' = "starting"
  BY DeathsWriteNothing
<1>2. RoomIn(log, Len(log), head)' /\ RoomIn(log, durable.seq, durable.head)'
  BY <1>1, ChainKeepsRoom DEF RoomInv, LedgerInv
<1>3. \A h \in Handlers : BracketIsSound(h)'
  BY <1>1, IdleIsAState DEF BracketIsSound
<1> QED
  BY <1>1, <1>2, <1>3 DEF RoomInv, TodoIsSound

\* Whoever else writes, dies or fails, every open bracket finds room for the record
\* that closes it, as long as the recovery headroom is not overspent, for every
\* quota that reserves two records or more for a bracket (reserve, admit).
THEOREM BracketsKeepRoom == JournalSpec => []BracketsStayClosable
<1>1. JournalInit => RoomInv
  <2> SUFFICES ASSUME JournalInit PROVE RoomInv
    OBVIOUS
  <2>1. /\ log = <<>> /\ Len(log) = 0 /\ durable.seq = 0 /\ head = EmptyHead
        /\ durable.head = EmptyHead /\ phase = "starting"
        /\ \A h \in Handlers : at[h] = Idle
    BY DEF JournalInit
  <2>2. /\ OpenIn(log, 0) = {} /\ FlaggedIn(log, 0) = {} /\ SpareIn(log, 0) = {}
        /\ LateIn(log, 0) = {}
    BY DEF OpenIn, FlaggedIn, SpareIn, LateIn, Says
  <2>3. /\ Opens(log, 0) = 0 /\ Flags(log, 0) = 0 /\ Spares(log, 0) = 0 /\ Lates(log, 0) = 0
        /\ IsFiniteSet(OpenIn(log, 0))
    BY <2>2, FS_EmptySet DEF Opens, Flags, Spares, Lates
  <2>4. RoomIn(log, 0, EmptyHead)
    BY <2>3, Reserves DEF RoomIn, EmptyHead
  <2>5. \A h \in Handlers : BracketIsSound(h)
    BY <2>1, IdleIsAState DEF BracketIsSound
  <2> QED
    BY <2>1, <2>4, <2>5 DEF RoomInv, TodoIsSound
<1>2. LedgerInv /\ LedgerInv' /\ RoomInv /\ [JournalNext]_journalVars => RoomInv'
  <2> SUFFICES ASSUME LedgerInv, LedgerInv', RoomInv, [JournalNext]_journalVars PROVE RoomInv'
    OBVIOUS
  <2>1. CASE Recover
    BY <2>1, RecoveryKeepsRoom
  <2>2. CASE Crash \/ PowerLoss
    BY <2>2, DeathsKeepRoom
  <2>3. CASE \E h \in Handlers : Handle(h)
    BY <2>3, HandlersKeepRoom
  <2>4. CASE UNCHANGED journalVars
    <3>1. UNCHANGED <<log, head, durable, phase, recovery, at>>
      BY <2>4 DEF journalVars, disk, memory
    <3> QED
      BY <3>1 DEF RoomInv, BracketIsSound, Ready, TodoIsSound, Told
  <2> QED
    BY <2>1, <2>2, <2>3, <2>4 DEF JournalNext
<1>3. LedgerInv /\ RoomInv => BracketsStayClosable
  <2> SUFFICES ASSUME LedgerInv, RoomInv, HeadroomSpent <= Headroom
               PROVE  Len(log) + Cardinality(OpenNow) <= MaxEvents
    BY DEF BracketsStayClosable
  <2> DEFINE k == Len(log)
             n == Opens(log, k)
             spent == Spares(log, k) + (ClosureRecords + 1) * Lates(log, k)
  <2>1. Cardinality(OpenNow) = n
    BY DEF OpenNow, Open, OpenIn, Says, Told, Opens
  <2>2. HeadroomSpent = spent
    BY DEF HeadroomSpent, SpareIn, LateIn, Says, Told, Spares, Lates
  <2>3. k \in Nat /\ RoomIn(log, k, head)
    BY DEF LedgerInv, DiskOK, RoomInv
  <2>4. /\ n \in Nat /\ Flags(log, k) \in Nat /\ Flags(log, k) <= n
        /\ Spares(log, k) \in Nat /\ Lates(log, k) \in Nat
    BY <2>3, CountsAreNatural DEF RoomIn
  <2>5. /\ ClosureRecords \in Nat /\ ClosureRecords >= 2 /\ MaxEvents \in Nat /\ Headroom \in Nat
    BY Reserves
  <2>6. k + ClosureRecords * n + Headroom <= MaxEvents + Flags(log, k) + spent
    <3> DEFINE p == (ClosureRecords + 1) * Lates(log, k)
    <3>1. p \in Nat
      BY <2>4, <2>5, ProductsGrow
    <3>2. k + ClosureRecords * n + Headroom <= MaxEvents + Flags(log, k) + Spares(log, k) + p
      BY <2>3 DEF RoomIn
    <3>3. ClosureRecords * n \in Nat
      BY <2>4, <2>5
    <3> DEFINE q == ClosureRecords * n
    <3> HIDE DEF n, p, q
    <3>4. k + q + Headroom <= MaxEvents + Flags(log, k) + (Spares(log, k) + p)
      BY <2>3, <2>4, <2>5, <3>1, <3>2, <3>3 DEF q
    <3> QED
      BY <3>4 DEF p, q, n
  <2>7. 2 * n <= ClosureRecords * n /\ ClosureRecords * n \in Nat
    BY <2>4, <2>5
  <2>8. spent \in Nat
    BY <2>4, <2>5
  <2> DEFINE q == ClosureRecords * n
  <2> HIDE DEF n, spent, q, k
  <2>9. k + q + Headroom <= MaxEvents + Flags(log, k) + spent /\ 2 * n <= q /\ q \in Nat
    BY <2>6, <2>7 DEF q
  <2>10. k + n <= MaxEvents
    BY <2>2, <2>3, <2>4, <2>5, <2>8, <2>9
  <2> QED
    BY <2>1, <2>10 DEF k
<1> QED
  BY <1>1, <1>2, <1>3, LedgerInvHolds, PTL DEF JournalSpec
=============================================================================
