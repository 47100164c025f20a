-------------------------- MODULE QueueOrderProofs --------------------------
(***************************************************************************)
(* Theorems about QueueOrder.tla, for any set of jobs and any bounds:      *)
(* nothing overtakes the line it comes after, two live tasks never follow  *)
(* the same one, a refusal is justified, and the streams of the jobs come  *)
(* and go with their records.                                              *)
(*                                                                         *)
(* All rest on the same records, hence on one invariant, Inv.  Its parts   *)
(* say what the holder of a job's lock relies on between two of its steps, *)
(* while other jobs move.  There is one lemma per action; in each, the     *)
(* steps <1>T to <1>K are the eight parts of Inv.                          *)
(***************************************************************************)
EXTENDS QueueOrder, FiniteSetTheorems, TLAPS

\* What may be passed: jobs that ended, or had ended before they were requeued.
Behind(k) == status[k] = "ended" \/ k \in reopened
Started(S) == S \cap {"running", "waiting"} # {}
Moving(j) == op[j].step \in {"rename", "sync"}

\* What a lock holder or a submission remembers, by kind.
Walks == [step : {"walk"}, next : Jobs, at : 1..4, slid : BOOLEAN]
Moves == [step : {"rename", "sync"}, from : Live, to : Buckets]
Lists == [step : {"list"}, next : Jobs, at : 1..4,
          heard : SUBSET (Jobs \X (1..3)), slid : BOOLEAN]
Steps == {"free", "staged", "unlinked", "clear", "walk", "rename", "sync"}
OpHasType(j) ==
    \/ op[j] \in {Free, [step |-> "staged"], [step |-> "unlinked"], [step |-> "clear"]}
    \/ op[j] \in Walks
    \/ op[j] \in Moves
\* The same, as the steps of the proofs use it: by the name of the step.
OpIsTyped(j) ==
    /\ op[j].step \in Steps /\ (op[j].step = "free" <=> op[j] = Free)
    /\ op[j].step = "walk" => op[j] \in Walks
    /\ Moving(j) => op[j] \in Moves

\* Jobs are submitted in the order of their numbers, after jobs that exist; of a
\* job that does not, there is nothing.
NumbersAreSound ==
    /\ op = [j \in Jobs |-> op[j]]
    /\ \A j, k \in Jobs : j < k /\ k \in Known => j \in Known
    /\ \A j \in Jobs : after[j] \in Known \cup {NoJob}
    /\ \A j \in Jobs \ Known : files[j] = {} /\ op[j] = Free /\ after[j] = NoJob
    /\ post # NoPost => post.next \in Known

\* Where the record of a job is at each step of its lock holder, and that a record
\* on its way says already what it will say there.
RecordIsSound(j) ==
    /\ status[j] = "active" => files[j] # {} /\ "done" \notin files[j]
    /\ op[j].step = "walk" =>
          files[j] = {"pending"} /\ status[j] = "active" /\ op[j].next \in Known
    /\ op[j].step = "rename" => files[j] = {op[j].from}
    /\ op[j].step = "sync" => files[j] = {op[j].to}
    /\ Moving(j) => status[j] = IF op[j].to = "done" THEN "ended" ELSE "active"
    /\ op[j].step = "staged" => files[j] = {"done"}
    /\ op[j].step \in {"unlinked", "clear"} => files[j] = {}
    /\ j \in loose => files[j] = {} /\ op[j].step \in {"free", "unlinked"}
RecordsAreSound == \A j \in Jobs : RecordIsSound(j)

\* A job that has started, or is in the middle of a move that starts it, has its
\* line behind it; one that is still searched for has all behind it but the job
\* that the walk looks for and what is ahead of that one.
LineIsBehind(j) ==
    /\ Started(files[j]) => \A k \in Line(j) : Behind(k)
    /\ Moving(j) /\ Started({op[j].from, op[j].to}) => \A k \in Line(j) : Behind(k)
    /\ op[j].step = "walk" =>
          \A k \in Line(j) : Behind(k) \/ k = op[j].next \/ k \in Line(op[j].next)
LinesAreBehind == \A j \in Jobs : LineIsBehind(j)

\* A walk that no record slipped behind has the one it looks for in a bucket it
\* has still to read, unless there is none.
Ahead(j, n) == \E b \in files[j] : Rank[b] >= n
WalkSlipsNone(j) ==
    op[j].step = "walk" /\ ~op[j].slid => files[op[j].next] = {} \/ Ahead(op[j].next, op[j].at)
WalksSlipNone == \A j \in Jobs : WalkSlipsNone(j)

\* A listing that no record slipped behind has heard of every live job, or has
\* its bucket still to read.
Heard(k) == \E i \in 1..3 : <<k, i>> \in post.heard
ListSlipsNone ==
    post # NoPost /\ ~post.slid =>
        \A k \in Jobs : status[k] = "active" /\ k \notin reopened => Ahead(k, post.at) \/ Heard(k)

\* Where the stream is at each step of a prune; only a record whose unlinking is
\* under way or was cut off can come back.
StreamIsKept(j) ==
    /\ op[j].step \in {"staged", "unlinked", "clear"} => "stream" \notin names[j]
    /\ j \in loose \ torn => op[j].step = "unlinked"
    /\ j \in streamed \ torn /\ op[j].step \in {"staged", "unlinked"} => names[j] # {}
    /\ j \in streamed \ torn /\ op[j].step = "sync" => "stream" \in names[j]
    /\ j \in streamed \ torn /\ files[j] # {} =>
          names[j] # {} /\ (ActiveJobExists(j) => "stream" \in names[j])
    /\ j \in Known /\ files[j] = {} => "stream" \notin names[j]
StreamsAreKept == \A j \in Jobs : StreamIsKept(j)

Inv ==
    /\ OrderTypeOK /\ NumbersAreSound /\ RecordsAreSound /\ LinesAreBehind
    /\ WalksSlipNone /\ ListSlipsNone /\ QueuesInLine /\ StreamsAreKept

-----------------------------------------------------------------------------
\* Buckets and lines.

LEMMA RankOf ==
    ASSUME NEW b \in Buckets
    PROVE  Rank[b] \in 1..4 /\ Order[Rank[b]] = b
<1>1. \E i \in 1..4 : Order[i] = b
  BY DEF Order, Buckets
<1>2. Rank[b] = CHOOSE i \in 1..4 : Order[i] = b
  BY DEF Rank
<1> QED
  BY <1>1, <1>2

LEMMA Ranks ==
    /\ Rank["pending"] = 1 /\ Rank["running"] = 2 /\ Rank["waiting"] = 3 /\ Rank["done"] = 4
    /\ Order[1] = "pending" /\ Order[2] = "running" /\ Order[3] = "waiting" /\ Order[4] = "done"
<1>1. Order[1] = "pending" /\ Order[2] = "running" /\ Order[3] = "waiting" /\ Order[4] = "done"
  BY DEF Order
<1> QED
  BY <1>1, RankOf DEF Buckets

\* What the duplicate scan keeps.
LEMMA LastCopy ==
    ASSUME NEW S \in SUBSET Buckets, S # {}
    PROVE  LET b == CHOOSE b \in S : \A c \in S : Rank[c] <= Rank[b]
           IN  b \in S /\ \A c \in S : Rank[c] <= Rank[b]
<1>1. \E b \in S : \A c \in S : Rank[c] <= Rank[b]
  <2>1. CASE "done" \in S
    BY <2>1, Ranks DEF Buckets
  <2>2. CASE "done" \notin S /\ "waiting" \in S
    BY <2>2, Ranks DEF Buckets
  <2>3. CASE "done" \notin S /\ "waiting" \notin S /\ "running" \in S
    BY <2>3, Ranks DEF Buckets
  <2>4. CASE S = {"pending"}
    BY <2>4, Ranks
  <2> QED
    BY <2>1, <2>2, <2>3, <2>4 DEF Buckets
<1> QED
  BY <1>1

\* Lines depend on the predecessor links only.
LEMMA LineStays ==
    ASSUME UNCHANGED after
    PROVE  \A k : Line(k)' = Line(k)
  BY DEF Line, Closed, Predecessors

\* The line of a job is its predecessor and the line of that one.
LEMMA LineStep ==
    ASSUME NEW j \in Jobs, \A i \in Jobs : after[i] \in Jobs \cup {NoJob}
    PROVE  /\ after[j] = NoJob => Line(j) = {}
           /\ after[j] # NoJob => \A k \in Line(j) : k = after[j] \/ k \in Line(after[j])
<1>1. ASSUME after[j] = NoJob PROVE Line(j) = {}
  <2>1. Predecessors[j] = {}
    BY <1>1 DEF Predecessors
  <2>2. Closed({})
    BY DEF Closed
  <2> QED
    BY <2>1, <2>2 DEF Line
<1>2. ASSUME after[j] # NoJob, NEW k \in Line(j) PROVE k = after[j] \/ k \in Line(after[j])
  <2> DEFINE p == after[j]
             T == {p} \cup Line(p)
  <2>1. p \in Jobs /\ Predecessors[j] = {p}
    BY <1>2 DEF Predecessors
  <2>2. T \in SUBSET Jobs
    BY <2>1 DEF Line
  <2>3. Predecessors[p] \subseteq T
    BY <2>1 DEF Line, Predecessors
  <2>4. ASSUME NEW q \in Line(p) PROVE Predecessors[q] \subseteq Line(p)
    <3>1. q \in Jobs
      BY DEF Line
    <3>2. Predecessors[q] \subseteq Jobs
      BY <3>1 DEF Predecessors
    <3>3. ASSUME NEW S \in SUBSET Jobs, Predecessors[p] \subseteq S, Closed(S)
          PROVE  Predecessors[q] \subseteq S
      BY <3>3, <2>4 DEF Line, Closed
    <3> QED
      BY <3>2, <3>3 DEF Line
  <2>5. Closed(T)
    BY <2>3, <2>4 DEF Closed
  <2>6. Predecessors[j] \subseteq T
    BY <2>1
  <2> QED
    BY <2>2, <2>5, <2>6 DEF Line
<1> QED
  BY <1>1, <1>2

\* The submission of a job changes the line of no other.
LEMMA LineOfKnownStays ==
    ASSUME NumbersAreSound, NEW j \in Jobs \ Known, \A i \in Jobs \ {j} : after'[i] = after[i],
           NEW k \in Known, NEW l \in Line(k)'
    PROVE  l \in Line(k)
<1> SUFFICES ASSUME NEW S \in SUBSET Jobs, Predecessors[k] \subseteq S, Closed(S)
             PROVE  l \in S
  BY DEF Line
<1>1. Known \subseteq Jobs /\ j \notin Known
  BY DEF Known
<1>2. \A i \in Known : Predecessors'[i] = Predecessors[i] /\ Predecessors[i] \subseteq Known
  BY <1>1 DEF Predecessors, NumbersAreSound
<1>3. \A p \in S \cap Known : Predecessors'[p] \subseteq S \cap Known
  BY <1>2
<1>4. Predecessors'[k] \subseteq S \cap Known
  BY <1>2
<1> QED
  BY <1>3, <1>4 DEF Line, Closed

LEMMA LineOfKnownGrows ==
    ASSUME NumbersAreSound, NEW j \in Jobs \ Known, \A i \in Jobs \ {j} : after'[i] = after[i],
           NEW k \in Known, NEW l \in Line(k)
    PROVE  l \in Line(k)'
<1>1. Known \subseteq Jobs /\ j \notin Known
  BY DEF Known
<1>2. \A i \in Known : Predecessors'[i] = Predecessors[i] /\ Predecessors[i] \subseteq Known
  BY <1>1 DEF Predecessors, NumbersAreSound
<1>3. ASSUME NEW S \in SUBSET Jobs, Predecessors'[k] \subseteq S,
             \A p \in S : Predecessors'[p] \subseteq S
      PROVE  l \in S
  <2>1. \A p \in S \cap Known : Predecessors[p] \subseteq S \cap Known
    BY <1>2, <1>3
  <2>2. Predecessors[k] \subseteq S \cap Known
    BY <1>2, <1>3
  <2> QED
    BY <2>1, <2>2 DEF Line, Closed
<1> QED
  BY <1>3 DEF Line, Closed

LEMMA LineIsKnown ==
    ASSUME NumbersAreSound, NEW k \in Known, NEW l \in Line(k)
    PROVE  l \in Known
<1>1. Known \in SUBSET Jobs
  BY DEF Known
<1>2. \A i \in Known : Predecessors[i] \subseteq Known
  BY <1>1 DEF Predecessors, NumbersAreSound
<1> QED
  BY <1>1, <1>2 DEF Line, Closed

-----------------------------------------------------------------------------
\* Lock holders.

LEMMA OpKinds ==
    ASSUME OrderTypeOK, NEW j \in Jobs
    PROVE  OpIsTyped(j)
<1>1. CASE op[j] \in {Free, [step |-> "staged"], [step |-> "unlinked"], [step |-> "clear"]}
  BY <1>1 DEF Free, Moving, OpIsTyped, Steps
<1>2. CASE op[j] \in Walks
  BY <1>2 DEF Free, Moving, OpIsTyped, Walks, Steps
<1>3. CASE op[j] \in Moves
  BY <1>3 DEF Free, OpIsTyped, Moves, Steps
<1> QED
  BY <1>1, <1>2, <1>3 DEF OrderTypeOK, Walks, Moves

LEMMA Holding ==
    ASSUME NumbersAreSound, NEW j \in Jobs, NEW o, Hold(j, o)
    PROVE  /\ op'[j] = o /\ \A i \in Jobs \ {j} : op'[i] = op[i]
           /\ op' = [i \in Jobs |-> op'[i]]
  BY DEF Hold, NumbersAreSound
-----------------------------------------------------------------------------
\* Every action keeps Inv.

LEMMA FollowKeeps ==
    ASSUME Inv, NEW j \in Jobs, Follow(j)
    PROVE  Inv'
<1>0. /\ OrderTypeOK /\ NumbersAreSound /\ ListSlipsNone /\ QueuesInLine
      /\ \A i \in Jobs : /\ RecordIsSound(i) /\ LineIsBehind(i)
                       /\ StreamIsKept(i) /\ WalkSlipsNone(i)
  BY DEF Inv, RecordsAreSound, LinesAreBehind, WalksSlipNone, StreamsAreKept
<1>t. \A i \in Jobs : status[i] \in {"none", "active", "ended"} /\ files[i] \subseteq Buckets
  BY <1>0 DEF OrderTypeOK
<1>T. OrderTypeOK'
  BY <1>0 DEF Follow, records, payload, past, Known, OrderTypeOK
<1>N. NumbersAreSound'
  BY <1>0 DEF Follow, records, Known, NumbersAreSound
<1>R. ASSUME NEW i \in Jobs PROVE RecordIsSound(i)'
  BY <1>0, <1>R DEF Follow, records, payload, Known, Moving, RecordIsSound
<1>l. \A k : Line(k)' = Line(k)
  BY LineStays DEF Follow, records
<1>L. ASSUME NEW i \in Jobs PROVE LineIsBehind(i)'
  BY <1>0, <1>l, <1>L DEF Follow, records, past, LineIsBehind, Behind, Started
<1>W. ASSUME NEW i \in Jobs PROVE WalkSlipsNone(i)'
  BY <1>0, <1>W DEF Follow, records, WalkSlipsNone, Ahead
<1>S. ListSlipsNone'
  BY <1>0, <1>t, Ranks DEF Follow, records, Buckets, ListSlipsNone, RecordIsSound, Ahead
<1>Q. QueuesInLine'
  BY <1>0 DEF Follow, records, past, QueuesInLine
<1>K. ASSUME NEW i \in Jobs PROVE StreamIsKept(i)'
  BY <1>0, <1>K DEF Follow, records, payload, past, Known, StreamIsKept, ActiveJobExists
<1> QED
  BY <1>T, <1>N, <1>R, <1>L, <1>W, <1>S, <1>Q, <1>K
     DEF Inv, RecordsAreSound, LinesAreBehind, WalksSlipNone, StreamsAreKept

LEMMA ClaimKeeps ==
    ASSUME Inv, NEW j \in Jobs, Claim(j)
    PROVE  Inv'
<1>0. /\ OrderTypeOK /\ NumbersAreSound /\ ListSlipsNone /\ QueuesInLine
      /\ \A i \in Jobs : /\ RecordIsSound(i) /\ LineIsBehind(i)
                       /\ StreamIsKept(i) /\ WalkSlipsNone(i)
  BY DEF Inv, RecordsAreSound, LinesAreBehind, WalksSlipNone, StreamsAreKept
<1>t. \A i \in Jobs : status[i] \in {"none", "active", "ended"} /\ files[i] \subseteq Buckets
  BY <1>0 DEF OrderTypeOK
<1>k. \A i \in Jobs : OpIsTyped(i)
  BY <1>0, OpKinds
<1>1. /\ op[j] = Free /\ files[j] = {"pending"}
      /\ \A i \in Jobs \ {j} : op'[i] = op[i]
      /\ op'[j] = IF status[j] = "active" THEN Onward(j) ELSE Move("pending", "done")
      /\ op' = [i \in Jobs |-> op'[i]]
      /\ UNCHANGED <<files, status, replayable, after, post, names, loose,
                      backs, deaths, streamed, strayed, reopened, torn>>
  BY <1>0, Holding DEF Claim, records, payload, past
<1> DEFINE Settles == /\ op'[j] = [step |-> "rename", from |-> "pending", to |-> "done"]
                      /\ status[j] = "ended"
           Starts == /\ op'[j] = [step |-> "rename", from |-> "pending", to |-> "running"]
                     /\ status[j] = "active" /\ after[j] = NoJob
           Searches == /\ op'[j] = [step |-> "walk", next |-> after[j], at |-> 1, slid |-> FALSE]
                       /\ status[j] = "active" /\ after[j] \in Known /\ after[j] # NoJob
                       /\ after[j] \in Jobs
<1>2. Settles \/ Starts \/ Searches
  BY <1>0, <1>t, <1>1 DEF Onward, Move, Walk, NumbersAreSound, Known
<1>n. Known' = Known
  BY <1>1 DEF Known
<1>a. files' \in [Jobs -> SUBSET Buckets] /\ status' \in [Jobs -> {"none", "active", "ended"}]
  BY <1>0, <1>1 DEF OrderTypeOK
<1>b. /\ replayable' \subseteq Known /\ loose' \subseteq Known
      /\ streamed' \cup strayed' \cup reopened' \cup torn' \subseteq Known
  BY <1>0, <1>1 DEF OrderTypeOK
<1>d. \A i \in Jobs : OpHasType(i)'
  <2>1. \A i \in Jobs \ {j} : OpHasType(i)'
    BY <1>0, <1>k, <1>1 DEF OrderTypeOK, OpIsTyped, Moves, OpHasType
  <2>2. OpHasType(j)'
    <3>1. CASE Settles
      BY <3>1 DEF Live, Buckets, OpHasType, Moves
    <3>2. CASE Starts
      BY <3>2 DEF Live, Buckets, OpHasType, Moves
    <3>3. CASE Searches
      BY <3>3 DEF OpHasType, Walks
    <3> QED
      BY <1>2, <3>1, <3>2, <3>3
  <2> QED
    BY <2>1, <2>2
<1>e. post' = NoPost \/ post' \in Lists
  BY <1>0, <1>1 DEF OrderTypeOK, Lists
<1>f. /\ names' \in [Jobs -> SUBSET {"stream", "tombstone"}]
      /\ backs' \in 0..MaxBacks /\ deaths' \in 0..MaxDeaths
  BY <1>0, <1>1 DEF OrderTypeOK
<1>T. OrderTypeOK'
  BY <1>0, <1>1, <1>n, <1>a, <1>b, <1>d, <1>e, <1>f DEF OrderTypeOK, Walks, Moves, OpHasType
<1>N. NumbersAreSound'
  BY <1>0, <1>1, <1>n DEF NumbersAreSound
<1>R. ASSUME NEW i \in Jobs PROVE RecordIsSound(i)'
  <2>1. CASE i = j
    BY <1>0, <1>1, <1>2, <1>n, <2>1 DEF Moving, RecordIsSound, Moves
  <2>2. CASE i # j
    BY <1>0, <1>1, <1>n, <2>2 DEF Moving, RecordIsSound
  <2> QED
    BY <2>1, <2>2
<1>l. \A k : Line(k)' = Line(k)
  BY <1>1, LineStays
<1>B. \A k : Behind(k) /\ k \in Jobs => Behind(k)'
  BY <1>1 DEF Behind
<1>s. \A i \in Jobs : Line(i) \subseteq Jobs
  BY DEF Line
<1>L. ASSUME NEW i \in Jobs PROVE LineIsBehind(i)'
  BY <1>0, <1>1, <1>2, <1>l, <1>B, <1>s, <1>L, LineStep DEF LineIsBehind, Started, OrderTypeOK
<1>W. ASSUME NEW i \in Jobs PROVE WalkSlipsNone(i)'
  BY <1>0, <1>t, <1>1, <1>2, <1>W, RankOf DEF Free, WalkSlipsNone, Ahead
<1>S. ListSlipsNone'
  BY <1>0, <1>1 DEF ListSlipsNone, Ahead, Heard
<1>Q. QueuesInLine'
  BY <1>0, <1>1 DEF QueuesInLine
<1>K. ASSUME NEW i \in Jobs PROVE StreamIsKept(i)'
  BY <1>0, <1>1, <1>2, <1>n, <1>K DEF Free, StreamIsKept, ActiveJobExists
<1> QED
  BY <1>T, <1>N, <1>R, <1>L, <1>W, <1>S, <1>Q, <1>K
     DEF Inv, RecordsAreSound, LinesAreBehind, WalksSlipNone, StreamsAreKept

LEMMA LookKeeps ==
    ASSUME Inv, NEW j \in Jobs, Look(j)
    PROVE  Inv'
<1>0. /\ OrderTypeOK /\ NumbersAreSound /\ ListSlipsNone /\ QueuesInLine
      /\ \A i \in Jobs : /\ RecordIsSound(i) /\ LineIsBehind(i)
                       /\ StreamIsKept(i) /\ WalkSlipsNone(i)
  BY DEF Inv, RecordsAreSound, LinesAreBehind, WalksSlipNone, StreamsAreKept
<1>k. \A i \in Jobs : OpIsTyped(i)
  BY <1>0, OpKinds
<1>1. /\ op[j].step = "walk"
      /\ \A i \in Jobs \ {j} : op'[i] = op[i] /\ status'[i] = status[i]
      /\ op' = [i \in Jobs |-> op'[i]]
      /\ status' \in [Jobs -> {"none", "active", "ended"}]
      /\ \/ op'[j] = Free /\ status'[j] = status[j]
         \/ op'[j] = Onward(op[j].next) /\ status'[j] = status[j] /\ status[op[j].next] = "ended"
         \/ /\ op'[j] = [op[j] EXCEPT !.at = @ + 1] /\ status'[j] = status[j]
            /\ op[j].at < 4 /\ Order[op[j].at] \notin files[op[j].next]
         \/ op'[j] = Move("pending", "done") /\ status'[j] = "ended"
      /\ UNCHANGED <<files, replayable, after, post, names, loose, backs,
                      deaths, streamed, strayed, reopened, torn>>
  <2> DEFINE Found == Order[op[j].at] \in files[op[j].next]
  <2>1. /\ op[j].step = "walk"
        /\ UNCHANGED <<files, replayable, after, post, payload, backs, deaths, past>>
    BY DEF Look
  <2>2. \/ status[op[j].next] = "active" /\ Hold(j, Free) /\ UNCHANGED status
        \/ status[op[j].next] = "ended" /\ Hold(j, Onward(op[j].next)) /\ UNCHANGED status
        \/ ~Found /\ op[j].at < 4 /\ Hold(j, [op[j] EXCEPT !.at = @ + 1]) /\ UNCHANGED status
        \/ status' = [status EXCEPT ![j] = "ended"] /\ Hold(j, Move("pending", "done"))
    BY DEF Look, LastBucket
  <2>3. /\ \A i \in Jobs \ {j} : op'[i] = op[i]
        /\ op' = [i \in Jobs |-> op'[i]]
    BY <1>0, <2>2, Holding
  <2>4. /\ status' \in [Jobs -> {"none", "active", "ended"}]
        /\ \A i \in Jobs \ {j} : status'[i] = status[i]
    BY <1>0, <2>2 DEF OrderTypeOK
  <2>5. \/ op'[j] = Free /\ status'[j] = status[j]
        \/ op'[j] = Onward(op[j].next) /\ status'[j] = status[j] /\ status[op[j].next] = "ended"
        \/ /\ op'[j] = [op[j] EXCEPT !.at = @ + 1] /\ status'[j] = status[j]
           /\ op[j].at < 4 /\ ~Found
        \/ op'[j] = Move("pending", "done") /\ status'[j] = "ended"
    <3>1. CASE Hold(j, Free) /\ UNCHANGED status
      BY <3>1, <1>0, Holding
    <3>2. CASE status[op[j].next] = "ended" /\ Hold(j, Onward(op[j].next)) /\ UNCHANGED status
      BY <3>2, <1>0, Holding
    <3>3. CASE ~Found /\ op[j].at < 4 /\ Hold(j, [op[j] EXCEPT !.at = @ + 1]) /\ UNCHANGED status
      BY <3>3, <1>0, Holding
    <3>4. CASE status' = [status EXCEPT ![j] = "ended"] /\ Hold(j, Move("pending", "done"))
      <4>1. status'[j] = "ended"
        BY <3>4, <1>0 DEF OrderTypeOK
      <4> QED
        BY <3>4, <4>1, <1>0, Holding
    <3> QED
      BY <2>2, <3>1, <3>2, <3>3, <3>4
  <2> QED
    BY <2>1, <2>3, <2>4, <2>5 DEF payload, past
<1>j. j \in Known
  BY <1>0, <1>1 DEF NumbersAreSound, RecordIsSound
<1>w. op[j] \in Walks
  BY <1>0, OpKinds DEF Look, OpIsTyped
<1> DEFINE p == op[j].next
           Waits == op'[j] = [step |-> "free"] /\ status'[j] = status[j]
           Starts == /\ op'[j] = [step |-> "rename", from |-> "pending", to |-> "running"]
                     /\ status'[j] = status[j] /\ status[p] = "ended" /\ after[p] = NoJob
           Climbs == /\ op'[j] = [step |-> "walk", next |-> after[p], at |-> 1, slid |-> FALSE]
                     /\ status'[j] = status[j] /\ status[p] = "ended"
                     /\ after[p] \in Jobs /\ after[p] \in Known /\ after[p] # NoJob
           Passes == /\ op'[j] = [step |-> "walk", next |-> p, at |-> op[j].at + 1,
                                  slid |-> op[j].slid]
                     /\ status'[j] = status[j] /\ op[j].at \in 1..3
                     /\ Order[op[j].at] \notin files[p]
           Gives == /\ op'[j] = [step |-> "rename", from |-> "pending", to |-> "done"]
                    /\ status'[j] = "ended"
<1>2. Waits \/ Starts \/ Climbs \/ Passes \/ Gives
  BY <1>0, <1>1 DEF Onward, Move, Walk, Free, OrderTypeOK, NumbersAreSound
<1>n. Known' = Known
  BY <1>1, <1>j DEF Known
<1>a. files' \in [Jobs -> SUBSET Buckets] /\ status' \in [Jobs -> {"none", "active", "ended"}]
  BY <1>0, <1>1 DEF OrderTypeOK
<1>b. /\ replayable' \subseteq Known /\ loose' \subseteq Known
      /\ streamed' \cup strayed' \cup reopened' \cup torn' \subseteq Known
  BY <1>0, <1>1 DEF OrderTypeOK
<1>d. \A i \in Jobs : OpHasType(i)'
  <2>1. \A i \in Jobs \ {j} : OpHasType(i)'
    BY <1>0, <1>k, <1>1 DEF OrderTypeOK, OpIsTyped, Moves, OpHasType
  <2>2. OpHasType(j)'
    <3>1. CASE Waits
      BY <3>1 DEF Free, OpHasType
    <3>2. CASE Starts
      BY <3>2 DEF Live, Buckets, Moves, OpHasType
    <3>3. CASE Climbs
      BY <3>3 DEF Walks, OpHasType
    <3>4. CASE Passes
      BY <1>w, <3>4 DEF Walks, OpHasType
    <3>5. CASE Gives
      BY <3>5 DEF Live, Buckets, Moves, OpHasType
    <3> QED
      BY <1>2, <3>1, <3>2, <3>3, <3>4, <3>5
  <2> QED
    BY <2>1, <2>2
<1>e. post' = NoPost \/ post' \in Lists
  BY <1>0, <1>1 DEF OrderTypeOK, Lists
<1>f. /\ names' \in [Jobs -> SUBSET {"stream", "tombstone"}]
      /\ backs' \in 0..MaxBacks /\ deaths' \in 0..MaxDeaths
  BY <1>0, <1>1 DEF OrderTypeOK
<1>T. OrderTypeOK'
  BY <1>0, <1>1, <1>n, <1>a, <1>b, <1>d, <1>e, <1>f DEF OrderTypeOK, Walks, Moves, OpHasType
<1>N. NumbersAreSound'
  BY <1>0, <1>1, <1>j, <1>n DEF NumbersAreSound
<1>R. ASSUME NEW i \in Jobs PROVE RecordIsSound(i)'
  BY <1>0, <1>1, <1>2, <1>n, <1>R DEF Moving, RecordIsSound
<1>l. \A k : Line(k)' = Line(k)
  BY <1>1, LineStays
<1>s. \A i \in Jobs : Line(i) \subseteq Jobs
  BY DEF Line
<1>L. ASSUME NEW i \in Jobs PROVE LineIsBehind(i)'
  BY <1>0, <1>1, <1>2, <1>l, <1>s, <1>L, LineStep
     DEF Free, LineIsBehind, Started, OrderTypeOK, Behind
<1>W. ASSUME NEW i \in Jobs PROVE WalkSlipsNone(i)'
  BY <1>0, <1>1, <1>2, <1>W, RankOf DEF Free, OrderTypeOK, WalkSlipsNone, Ahead
<1>S. ListSlipsNone'
  BY <1>0, <1>1 DEF ListSlipsNone, Ahead, Heard
<1>Q. QueuesInLine'
  BY <1>0, <1>1 DEF QueuesInLine
<1>K. ASSUME NEW i \in Jobs PROVE StreamIsKept(i)'
  BY <1>0, <1>1, <1>2, <1>n, <1>K DEF StreamIsKept, ActiveJobExists
<1> QED
  BY <1>T, <1>N, <1>R, <1>L, <1>W, <1>S, <1>Q, <1>K
     DEF Inv, RecordsAreSound, LinesAreBehind, WalksSlipNone, StreamsAreKept

LEMMA RenameKeeps ==
    ASSUME Inv, NEW j \in Jobs, Rename(j)
    PROVE  Inv'
<1>0. /\ OrderTypeOK /\ NumbersAreSound /\ ListSlipsNone /\ QueuesInLine
      /\ \A i \in Jobs : /\ RecordIsSound(i) /\ LineIsBehind(i)
                       /\ StreamIsKept(i) /\ WalkSlipsNone(i)
  BY DEF Inv, RecordsAreSound, LinesAreBehind, WalksSlipNone, StreamsAreKept
<1>k. \A i \in Jobs : OpIsTyped(i)
  BY <1>0, OpKinds
<1>1. /\ op[j].step = "rename"
      /\ files'[j] = {op[j].to} /\ \A i \in Jobs \ {j} : files'[i] = files[i]
      /\ files' \in [Jobs -> SUBSET Buckets]
      /\ op'[j] = [op[j] EXCEPT !.step = "sync"]
      /\ \A i \in Jobs \ {j} :
            \/ op'[i] = op[i]
            \/ op[i].step = "walk" /\ op[i].next = j /\ op'[i] = [op[i] EXCEPT !.slid = TRUE]
      /\ \A i \in Jobs \ {j} :
            op[i].step = "walk" /\ op[i].next = j /\ Rank[op[j].to] < Rank[op[j].from]
               => op'[i].slid
      /\ post' = post \/ (post # NoPost /\ post' = [post EXCEPT !.slid = TRUE])
      /\ post # NoPost /\ Rank[op[j].to] < Rank[op[j].from] => post'.slid
      /\ op' = [i \in Jobs |-> op'[i]]
      /\ UNCHANGED <<status, replayable, after, names, loose, backs,
                      deaths, streamed, strayed, reopened, torn>>
  <2>1. op[j] \in Moves
    BY <1>0, OpKinds DEF Rename, Moving, OpIsTyped
  <2>2. op[j].step = "rename" /\ files[j] = {op[j].from}
    BY <1>0 DEF Rename, RecordIsSound
  <2>3. /\ files'[j] = {op[j].to} /\ \A i \in Jobs \ {j} : files'[i] = files[i]
        /\ files' \in [Jobs -> SUBSET Buckets]
    BY <1>0, <2>1, <2>2 DEF Rename, OrderTypeOK, Moves
  <2>4. /\ op'[j] = [op[j] EXCEPT !.step = "sync"]
        /\ op' = [i \in Jobs |-> op'[i]]
        /\ \A i \in Jobs \ {j} :
              /\ \/ op'[i] = op[i]
                 \/ op[i].step = "walk" /\ op[i].next = j /\ op'[i] = [op[i] EXCEPT !.slid = TRUE]
              /\ op[i].step = "walk" /\ op[i].next = j /\ Rank[op[j].to] < Rank[op[j].from]
                    => op'[i] = [op[i] EXCEPT !.slid = TRUE]
    <3>1. CASE Rank[op[j].to] < Rank[op[j].from]
      BY <3>1, <2>2 DEF Rename, Slide
    <3>2. CASE ~(Rank[op[j].to] < Rank[op[j].from])
      <4>1. Hold(j, [op[j] EXCEPT !.step = "sync"])
        BY <3>2 DEF Rename
      <4> QED
        BY <1>0, <3>2, <4>1, Holding
    <3> QED
      BY <3>1, <3>2
  <2>5. \A i \in Jobs \ {j} :
           op[i].step = "walk" /\ op[i].next = j /\ Rank[op[j].to] < Rank[op[j].from]
              => op'[i].slid
    <3>1. \A i \in Jobs : op[i].step = "walk" => op[i] \in Walks
      BY <1>0, OpKinds DEF OpIsTyped
    <3> QED
      BY <2>4, <3>1 DEF Walks
  <2>6. /\ post' = post \/ (post # NoPost /\ post' = [post EXCEPT !.slid = TRUE])
        /\ post # NoPost /\ Rank[op[j].to] < Rank[op[j].from] =>
              post' = [post EXCEPT !.slid = TRUE]
    BY DEF Rename, Slide
  <2>7. post # NoPost => [post EXCEPT !.slid = TRUE].slid = TRUE
    BY DEF OrderTypeOK
  <2>8. UNCHANGED <<status, replayable, after, payload, backs, deaths, past>>
    BY DEF Rename
  <2> QED
    BY <2>2, <2>3, <2>4, <2>5, <2>6, <2>7, <2>8 DEF payload, past
<1>2. /\ op'[j] \in [step : {"sync"}, from : Live, to : Buckets]
      /\ op'[j].step = "sync" /\ op'[j].from = op[j].from /\ op'[j].to = op[j].to
      /\ \A i \in Jobs \ {j} :
            /\ op'[i].step = op[i].step
            /\ op[i].step # "walk" => op'[i] = op[i]
            /\ op[i].step = "walk" =>
                  /\ op'[i] \in Walks
                  /\ op'[i].next = op[i].next /\ op'[i].at = op[i].at
                  /\ (op[i].slid => op'[i].slid)
      /\ op[j].from \in Buckets /\ op[j].to \in Buckets
  <2>1. op[j] \in Moves
    BY <1>0, OpKinds DEF Rename, Moving, OpIsTyped
  <2>2. op'[j] = [op[j] EXCEPT !.step = "sync"]
    BY <1>1
  <2>3. /\ op'[j] \in [step : {"sync"}, from : Live, to : Buckets]
        /\ op'[j].step = "sync" /\ op'[j].from = op[j].from /\ op'[j].to = op[j].to
        /\ op[j].from \in Buckets /\ op[j].to \in Buckets
    BY <2>1, <2>2 DEF Live, Moves
  <2>4. ASSUME NEW i \in Jobs \ {j}
        PROVE  /\ op'[i].step = op[i].step
               /\ op[i].step # "walk" => op'[i] = op[i]
               /\ op[i].step = "walk" =>
                     /\ op'[i] \in Walks
                     /\ op'[i].next = op[i].next /\ op'[i].at = op[i].at
                     /\ (op[i].slid => op'[i].slid)
    <3>1. \/ op'[i] = op[i]
          \/ op[i].step = "walk" /\ op[i].next = j /\ op'[i] = [op[i] EXCEPT !.slid = TRUE]
      BY <1>1
    <3>2. op[i].step = "walk" => op[i] \in Walks
      BY <1>0, OpKinds DEF OpIsTyped
    <3> QED
      BY <3>1, <3>2 DEF Walks
  <2> QED
    BY <2>3, <2>4
<1>p. \/ UNCHANGED post
      \/ /\ post \in Lists
         /\ post' \in Lists
         /\ post'.next = post.next /\ post'.at = post.at /\ post'.heard = post.heard
         /\ post'.slid
  <2>1. post = NoPost \/ post \in Lists
    BY <1>0 DEF OrderTypeOK, Lists
  <2>2. post' = post \/ (post # NoPost /\ post' = [post EXCEPT !.slid = TRUE])
    BY <1>1
  <2> QED
    BY <2>1, <2>2 DEF Lists
<1>n. Known' = Known
  BY <1>1 DEF Known
<1>T. OrderTypeOK'
  BY <1>0, <1>1, <1>p, <1>2, <1>n DEF OrderTypeOK, Free, Walks, Lists
<1>N. NumbersAreSound'
  BY <1>0, <1>1, <1>p, <1>n DEF NumbersAreSound, RecordIsSound
<1>R. ASSUME NEW i \in Jobs PROVE RecordIsSound(i)'
  <2>1. CASE i = j
    BY <1>0, <1>1, <1>2, <1>n, <2>1 DEF Moving, RecordIsSound, Live
  <2>2. CASE i # j
    BY <1>0, <1>1, <1>2, <1>n, <2>2 DEF Moving, RecordIsSound
  <2> QED
    BY <2>1, <2>2
<1>l. \A k : Line(k)' = Line(k)
  BY <1>1, LineStays
<1>B. \A k : Behind(k) /\ k \in Jobs => Behind(k)'
  BY <1>1 DEF Behind
<1>s. \A i \in Jobs : Line(i) \subseteq Jobs
  BY DEF Line
<1>L. ASSUME NEW i \in Jobs PROVE LineIsBehind(i)'
  <2>1. CASE i = j
    <3>1. op'[j].step = "sync" /\ op'[j].from = op[j].from /\ op'[j].to = op[j].to
      BY <1>2
    <3>2. files'[j] = {op[j].to} /\ op[j].step = "rename"
      BY <1>1
    <3>3. Started({op[j].from, op[j].to}) => \A k \in Line(j)' : Behind(k)'
      BY <1>0, <1>l, <1>B, <1>s, <3>2 DEF LineIsBehind, Moving
    <3> QED
      BY <2>1, <3>1, <3>2, <3>3 DEF LineIsBehind, Started
  <2>2. CASE i # j
    <3>1. /\ op'[i].step = op[i].step /\ files'[i] = files[i]
          /\ Moving(i) => op'[i] = op[i]
          /\ op[i].step = "walk" => op'[i].next = op[i].next
      BY <1>1, <1>2, <2>2 DEF Moving
    <3>2. /\ Started(files[i]) => \A k \in Line(i)' : Behind(k)'
          /\ Moving(i) /\ Started({op[i].from, op[i].to}) => \A k \in Line(i)' : Behind(k)'
      BY <1>0, <1>l, <1>B, <1>s DEF LineIsBehind
    <3>3. op[i].step = "walk" =>
             \A k \in Line(i) : Behind(k)' \/ k = op[i].next \/ k \in Line(op[i].next)
      <4> SUFFICES ASSUME op[i].step = "walk", NEW k \in Line(i)
                   PROVE  Behind(k)' \/ k = op[i].next \/ k \in Line(op[i].next)
        OBVIOUS
      <4>1. Behind(k) \/ k = op[i].next \/ k \in Line(op[i].next)
        BY <1>0 DEF LineIsBehind
      <4> QED
        BY <4>1, <1>B, <1>s
    <3> QED
      BY <1>l, <3>1, <3>2, <3>3 DEF LineIsBehind, Moving
  <2> QED
    BY <2>1, <2>2
<1>W. ASSUME NEW i \in Jobs PROVE WalkSlipsNone(i)'
  BY <1>0, <1>1, <1>W, RankOf, Ranks
     DEF Free, NoPost, Moving, Live, OrderTypeOK, WalkSlipsNone, RecordIsSound, Ahead
<1>S. ListSlipsNone'
  BY <1>0, <1>k, <1>1, Ranks, RankOf
     DEF Free, OrderTypeOK, ListSlipsNone, RecordIsSound, Ahead, Heard, Walks
<1>Q. QueuesInLine'
  BY <1>0, <1>1 DEF QueuesInLine
<1>K. ASSUME NEW i \in Jobs PROVE StreamIsKept(i)'
  <2>1. CASE i = j
    BY <1>0, <1>1, <1>2, <2>1 DEF StreamIsKept, RecordIsSound, ActiveJobExists
  <2>2. CASE i # j
    BY <1>0, <1>1, <1>2, <1>n, <2>2 DEF StreamIsKept, ActiveJobExists
  <2> QED
    BY <2>1, <2>2
<1> QED
  BY <1>T, <1>N, <1>R, <1>L, <1>W, <1>S, <1>Q, <1>K
     DEF Inv, RecordsAreSound, LinesAreBehind, WalksSlipNone, StreamsAreKept

LEMMA SyncKeeps ==
    ASSUME Inv, NEW j \in Jobs, Sync(j)
    PROVE  Inv'
<1>0. /\ OrderTypeOK /\ NumbersAreSound /\ ListSlipsNone /\ QueuesInLine
      /\ \A i \in Jobs : /\ RecordIsSound(i) /\ LineIsBehind(i)
                       /\ StreamIsKept(i) /\ WalkSlipsNone(i)
  BY DEF Inv, RecordsAreSound, LinesAreBehind, WalksSlipNone, StreamsAreKept
<1>1. /\ op'[j] = Free
      /\ \A i \in Jobs \ {j} : op'[i] = op[i]
      /\ op' = [i \in Jobs |-> op'[i]]
  BY <1>0 DEF Sync, Hold, NumbersAreSound
<1>T. OrderTypeOK'
  BY <1>0, <1>1 DEF Sync, Known, Free, OrderTypeOK, NumbersAreSound, Walks
<1>N. NumbersAreSound'
  BY <1>0, <1>1 DEF Sync, Known, NumbersAreSound
<1>R. ASSUME NEW i \in Jobs PROVE RecordIsSound(i)'
  BY <1>0, <1>1, <1>R DEF Sync, Known, Free, Moving, RecordIsSound
<1>l. \A k : Line(k)' = Line(k)
  BY LineStays DEF Sync
<1>L. ASSUME NEW i \in Jobs PROVE LineIsBehind(i)'
  BY <1>0, <1>1, <1>l, <1>L DEF Sync, Free, LineIsBehind, Behind, Started
<1>W. ASSUME NEW i \in Jobs PROVE WalkSlipsNone(i)'
  BY <1>0, <1>1, <1>W DEF Sync, Free, WalkSlipsNone, Ahead
<1>S. ListSlipsNone'
  BY <1>0 DEF Sync, ListSlipsNone, Ahead, Heard
<1>Q. QueuesInLine'
  BY <1>0 DEF Sync, QueuesInLine
<1>K. ASSUME NEW i \in Jobs PROVE StreamIsKept(i)'
  <2>1. /\ op[j].step = "sync" /\ op'[j].step = "free" /\ files[j] # {}
        /\ UNCHANGED <<files, status, torn>> /\ loose' \subseteq loose
    BY <1>0, <1>1 DEF Sync, Free, RecordIsSound
  <2>2. CASE i # j
    <3>1. names'[i] = names[i] /\ (i \in streamed' => i \in streamed)
      BY <1>0, <2>2 DEF Sync, OrderTypeOK
    <3> QED
      BY <1>0, <1>1, <2>1, <2>2, <3>1 DEF StreamIsKept, ActiveJobExists, Known
  <2>3. CASE i = j /\ op[j].to = "running"
    <3>1. names'[j] = {"stream"}
      BY <1>0, <2>3 DEF Sync, OrderTypeOK
    <3> QED
      BY <1>0, <2>1, <2>3, <3>1 DEF StreamIsKept
  <2>4. CASE i = j /\ op[j].to # "running"
    <3>1. names' = names /\ streamed' = streamed
      BY <2>4 DEF Sync
    <3> QED
      BY <1>0, <2>1, <2>4, <3>1 DEF StreamIsKept, ActiveJobExists
  <2> QED
    BY <2>2, <2>3, <2>4
<1> QED
  BY <1>T, <1>N, <1>R, <1>L, <1>W, <1>S, <1>Q, <1>K
     DEF Inv, RecordsAreSound, LinesAreBehind, WalksSlipNone, StreamsAreKept

LEMMA MoveFailsKeeps ==
    ASSUME Inv, NEW j \in Jobs, MoveFails(j)
    PROVE  Inv'
<1>0. /\ OrderTypeOK /\ NumbersAreSound /\ ListSlipsNone /\ QueuesInLine
      /\ \A i \in Jobs : /\ RecordIsSound(i) /\ LineIsBehind(i)
                       /\ StreamIsKept(i) /\ WalkSlipsNone(i)
  BY DEF Inv, RecordsAreSound, LinesAreBehind, WalksSlipNone, StreamsAreKept
<1>1. /\ op[j].step \in {"rename", "sync"}
      /\ op'[j] = Free /\ \A i \in Jobs \ {j} : op'[i] = op[i]
      /\ op' = [i \in Jobs |-> op'[i]]
      /\ deaths < MaxDeaths /\ deaths' = deaths + 1
      /\ UNCHANGED <<files, status, replayable, after, post, names, loose,
                      backs, streamed, strayed, reopened, torn>>
  BY <1>0, Holding DEF MoveFails, records, payload, past
<1>n. Known' = Known
  BY <1>1 DEF Known
<1>T. OrderTypeOK'
  BY <1>0, <1>1, <1>n, OrderNumbers DEF OrderTypeOK
<1>N. NumbersAreSound'
  BY <1>0, <1>1, <1>n DEF NumbersAreSound
<1>R. ASSUME NEW i \in Jobs PROVE RecordIsSound(i)'
  BY <1>0, <1>1, <1>n, <1>R DEF Free, Moving, RecordIsSound
<1>l. \A k : Line(k)' = Line(k)
  BY <1>1, LineStays
<1>B. \A k : Behind(k) /\ k \in Jobs => Behind(k)'
  BY <1>1 DEF Behind
<1>s. \A i \in Jobs : Line(i) \subseteq Jobs
  BY DEF Line
<1>L. ASSUME NEW i \in Jobs PROVE LineIsBehind(i)'
  BY <1>0, <1>1, <1>l, <1>B, <1>s, <1>L DEF Free, LineIsBehind, Started
<1>W. ASSUME NEW i \in Jobs PROVE WalkSlipsNone(i)'
  BY <1>0, <1>1, <1>W DEF Free, WalkSlipsNone, Ahead
<1>S. ListSlipsNone'
  BY <1>0, <1>1 DEF ListSlipsNone, Ahead, Heard
<1>Q. QueuesInLine'
  BY <1>0, <1>1 DEF QueuesInLine
<1>K. ASSUME NEW i \in Jobs PROVE StreamIsKept(i)'
  BY <1>0, <1>1, <1>n, <1>K DEF Free, StreamIsKept, ActiveJobExists
<1> QED
  BY <1>T, <1>N, <1>R, <1>L, <1>W, <1>S, <1>Q, <1>K
     DEF Inv, RecordsAreSound, LinesAreBehind, WalksSlipNone, StreamsAreKept

LEMMA CommitKeeps ==
    ASSUME Inv, NEW j \in Jobs, Commit(j)
    PROVE  Inv'
<1>0. /\ OrderTypeOK /\ NumbersAreSound /\ ListSlipsNone /\ QueuesInLine
      /\ \A i \in Jobs : /\ RecordIsSound(i) /\ LineIsBehind(i)
                       /\ StreamIsKept(i) /\ WalkSlipsNone(i)
  BY DEF Inv, RecordsAreSound, LinesAreBehind, WalksSlipNone, StreamsAreKept
<1>T. OrderTypeOK'
  BY <1>0 DEF Commit, payload, past, Known, OrderTypeOK
<1>N. NumbersAreSound'
  BY <1>0 DEF Commit, Known, NumbersAreSound
<1>R. ASSUME NEW i \in Jobs PROVE RecordIsSound(i)'
  BY <1>0, <1>R DEF Commit, payload, Known, Moving, RecordIsSound
<1>l. \A k : Line(k)' = Line(k)
  BY LineStays DEF Commit
<1>L. ASSUME NEW i \in Jobs PROVE LineIsBehind(i)'
  BY <1>0, <1>l, <1>L DEF Commit, past, LineIsBehind, Behind, Started
<1>W. ASSUME NEW i \in Jobs PROVE WalkSlipsNone(i)'
  BY <1>0, <1>W DEF Commit, WalkSlipsNone, Ahead
<1>S. ListSlipsNone'
  BY <1>0 DEF Commit, past, ListSlipsNone, Ahead, Heard
<1>Q. QueuesInLine'
  BY <1>0 DEF Commit, past, QueuesInLine
<1>K. ASSUME NEW i \in Jobs PROVE StreamIsKept(i)'
  BY <1>0, <1>K DEF Commit, payload, past, Known, StreamIsKept, ActiveJobExists
<1> QED
  BY <1>T, <1>N, <1>R, <1>L, <1>W, <1>S, <1>Q, <1>K
     DEF Inv, RecordsAreSound, LinesAreBehind, WalksSlipNone, StreamsAreKept

LEMMA SuspendKeeps ==
    ASSUME Inv, NEW j \in Jobs, Suspend(j)
    PROVE  Inv'
<1>0. /\ OrderTypeOK /\ NumbersAreSound /\ ListSlipsNone /\ QueuesInLine
      /\ \A i \in Jobs : /\ RecordIsSound(i) /\ LineIsBehind(i)
                       /\ StreamIsKept(i) /\ WalkSlipsNone(i)
  BY DEF Inv, RecordsAreSound, LinesAreBehind, WalksSlipNone, StreamsAreKept
<1>1. /\ op'[j] = Move("running", "waiting")
      /\ \A i \in Jobs \ {j} : op'[i] = op[i]
      /\ op' = [i \in Jobs |-> op'[i]]
  BY <1>0 DEF Suspend, Hold, NumbersAreSound
<1>T. OrderTypeOK'
  BY <1>0, <1>1 DEF Suspend, records, payload, past, Known, Move, Live, Buckets, OrderTypeOK
<1>N. NumbersAreSound'
  BY <1>0, <1>1 DEF Suspend, records, Known, NumbersAreSound
<1>R. ASSUME NEW i \in Jobs PROVE RecordIsSound(i)'
  BY <1>0, <1>1, <1>R DEF Suspend, records, payload, Known, Moving, Move, RecordIsSound
<1>l. \A k : Line(k)' = Line(k)
  BY LineStays DEF Suspend, records
<1>L. ASSUME NEW i \in Jobs PROVE LineIsBehind(i)'
  BY <1>0, <1>1, <1>l, <1>L DEF Suspend, records, past, LineIsBehind, Behind, Started
<1>W. ASSUME NEW i \in Jobs PROVE WalkSlipsNone(i)'
  BY <1>0, <1>1, <1>W DEF Suspend, records, Move, WalkSlipsNone, Ahead
<1>S. ListSlipsNone'
  BY <1>0 DEF Suspend, records, past, ListSlipsNone, Ahead, Heard
<1>Q. QueuesInLine'
  BY <1>0 DEF Suspend, records, past, QueuesInLine
<1>K. ASSUME NEW i \in Jobs PROVE StreamIsKept(i)'
  BY <1>0, <1>1, <1>K
     DEF Suspend, records, payload, past, Known, Move, StreamIsKept, RecordIsSound,
         ActiveJobExists
<1> QED
  BY <1>T, <1>N, <1>R, <1>L, <1>W, <1>S, <1>Q, <1>K
     DEF Inv, RecordsAreSound, LinesAreBehind, WalksSlipNone, StreamsAreKept

LEMMA ResumeKeeps ==
    ASSUME Inv, NEW j \in Jobs, Resume(j)
    PROVE  Inv'
<1>0. /\ OrderTypeOK /\ NumbersAreSound /\ ListSlipsNone /\ QueuesInLine
      /\ \A i \in Jobs : /\ RecordIsSound(i) /\ LineIsBehind(i)
                       /\ StreamIsKept(i) /\ WalkSlipsNone(i)
  BY DEF Inv, RecordsAreSound, LinesAreBehind, WalksSlipNone, StreamsAreKept
<1>1. /\ op[j] = Free /\ files[j] = {"waiting"} /\ status[j] = "active" /\ backs < MaxBacks
      /\ op'[j] = Move("waiting", "pending") /\ \A i \in Jobs \ {j} : op'[i] = op[i]
      /\ op' = [i \in Jobs |-> op'[i]]
      /\ backs' = backs + 1
      /\ status' = status
      /\ replayable' = replayable \cup {j}
      /\ UNCHANGED <<files, after, post, names, loose, deaths, streamed, strayed, reopened, torn>>
  BY <1>0, Holding DEF Resume, BackToPending, OrderTypeOK, payload
<1>j. j \in Known
  BY <1>0, <1>1 DEF NumbersAreSound
<1>n. Known' = Known
  BY <1>1 DEF Known
<1>T. OrderTypeOK'
  BY <1>0, <1>1, <1>j, <1>n, OrderNumbers DEF OrderTypeOK, Move, Live, Buckets
<1>N. NumbersAreSound'
  BY <1>0, <1>1, <1>n DEF NumbersAreSound
<1>R. ASSUME NEW i \in Jobs PROVE RecordIsSound(i)'
  BY <1>0, <1>1, <1>n, <1>R DEF Moving, Move, RecordIsSound
<1>l. \A k : Line(k)' = Line(k)
  BY <1>1, LineStays
<1>B. \A k : Behind(k) /\ k \in Jobs => Behind(k)'
  BY <1>1 DEF Behind
<1>s. \A i \in Jobs : Line(i) \subseteq Jobs
  BY DEF Line
<1>L. ASSUME NEW i \in Jobs PROVE LineIsBehind(i)'
  BY <1>0, <1>1, <1>l, <1>B, <1>s, <1>L DEF LineIsBehind, Started
<1>W. ASSUME NEW i \in Jobs PROVE WalkSlipsNone(i)'
  BY <1>0, <1>1, <1>W DEF Move, WalkSlipsNone, Ahead
<1>S. ListSlipsNone'
  BY <1>0, <1>1 DEF ListSlipsNone, Ahead, Heard
<1>Q. QueuesInLine'
  BY <1>0, <1>1 DEF QueuesInLine
<1>K. ASSUME NEW i \in Jobs PROVE StreamIsKept(i)'
  BY <1>0, <1>1, <1>n, <1>K DEF Move, StreamIsKept, RecordIsSound, ActiveJobExists
<1> QED
  BY <1>T, <1>N, <1>R, <1>L, <1>W, <1>S, <1>Q, <1>K
     DEF Inv, RecordsAreSound, LinesAreBehind, WalksSlipNone, StreamsAreKept

LEMMA RequeueKeeps ==
    ASSUME Inv, NEW j \in Jobs, Requeue(j)
    PROVE  Inv'
<1>0. /\ OrderTypeOK /\ NumbersAreSound /\ ListSlipsNone /\ QueuesInLine
      /\ \A i \in Jobs : /\ RecordIsSound(i) /\ LineIsBehind(i)
                       /\ StreamIsKept(i) /\ WalkSlipsNone(i)
  BY DEF Inv, RecordsAreSound, LinesAreBehind, WalksSlipNone, StreamsAreKept
<1>t. \A i \in Jobs : status[i] \in {"none", "active", "ended"} /\ files[i] \subseteq Buckets
  BY <1>0 DEF OrderTypeOK
<1>1. /\ op[j] = Free /\ files[j] = {"running"} /\ backs < MaxBacks
      /\ op'[j] = Move("running", "pending") /\ \A i \in Jobs \ {j} : op'[i] = op[i]
      /\ op' = [i \in Jobs |-> op'[i]]
      /\ backs' = backs + 1
      /\ status'[j] = "active" /\ \A i \in Jobs \ {j} : status'[i] = status[i]
      /\ status' \in [Jobs -> {"none", "active", "ended"}]
      /\ replayable' = replayable \cup {j}
      /\ reopened' = IF status[j] = "ended" THEN reopened \cup {j} ELSE reopened
      /\ UNCHANGED <<files, after, post, names, loose, deaths, streamed, strayed, torn>>
  BY <1>0, Holding DEF Requeue, BackToPending, OrderTypeOK, payload
<1>j. j \in Known
  BY <1>0, <1>1 DEF NumbersAreSound
<1>2. (status[j] = "active" \/ j \in reopened') /\ reopened \subseteq reopened'
  BY <1>1, <1>t, <1>j DEF Known
<1>n. Known' = Known
  BY <1>1, <1>j DEF Known
<1>T. OrderTypeOK'
  BY <1>0, <1>1, <1>j, <1>n, OrderNumbers DEF OrderTypeOK, Move, Live, Buckets, Moves
<1>N. NumbersAreSound'
  BY <1>0, <1>1, <1>n DEF NumbersAreSound
<1>R. ASSUME NEW i \in Jobs PROVE RecordIsSound(i)'
  <2>1. CASE i = j
    BY <1>0, <1>1, <1>2, <1>n, <2>1 DEF Move, Moving, RecordIsSound
  <2>2. CASE i # j
    BY <1>0, <1>1, <1>2, <1>n, <2>2 DEF Moving, RecordIsSound
  <2> QED
    BY <2>1, <2>2
<1>l. \A k : Line(k)' = Line(k)
  BY <1>1, LineStays
<1>B. \A k : Behind(k) /\ k \in Jobs => Behind(k)'
  BY <1>1 DEF Behind
<1>s. \A i \in Jobs : Line(i) \subseteq Jobs
  BY DEF Line
<1>L. ASSUME NEW i \in Jobs PROVE LineIsBehind(i)'
  BY <1>0, <1>1, <1>l, <1>B, <1>s, <1>L DEF Move, LineIsBehind, Started
<1>W. ASSUME NEW i \in Jobs PROVE WalkSlipsNone(i)'
  BY <1>0, <1>1, <1>W DEF Move, OrderTypeOK, WalkSlipsNone, RecordIsSound, Ahead
<1>S. ListSlipsNone'
  BY <1>0, <1>1, <1>2 DEF ListSlipsNone, Ahead, Heard
<1>Q. QueuesInLine'
  BY <1>0, <1>1, <1>2 DEF QueuesInLine
<1>K. ASSUME NEW i \in Jobs PROVE StreamIsKept(i)'
  BY <1>0, <1>1, <1>n, <1>K DEF Free, Move, StreamIsKept, ActiveJobExists
<1> QED
  BY <1>T, <1>N, <1>R, <1>L, <1>W, <1>S, <1>Q, <1>K
     DEF Inv, RecordsAreSound, LinesAreBehind, WalksSlipNone, StreamsAreKept

LEMMA DeduplicateKeeps ==
    ASSUME Inv, NEW j \in Jobs, Deduplicate(j)
    PROVE  Inv'
<1>0. /\ OrderTypeOK /\ NumbersAreSound /\ ListSlipsNone /\ QueuesInLine
      /\ \A i \in Jobs : /\ RecordIsSound(i) /\ LineIsBehind(i)
                       /\ StreamIsKept(i) /\ WalkSlipsNone(i)
  BY DEF Inv, RecordsAreSound, LinesAreBehind, WalksSlipNone, StreamsAreKept
<1>k. \A i \in Jobs : OpIsTyped(i)
  BY <1>0, OpKinds
<1>1. /\ op[j] = Free /\ files[j] # {}
      /\ \/ files'[j] = {"done"} /\ status'[j] = "ended"
         \/ /\ status'[j] = status[j] /\ status[j] # "ended"
            /\ \E b \in files[j] : files'[j] = {b} /\ \A c \in files[j] : Rank[c] <= Rank[b]
      /\ \A i \in Jobs \ {j} : files'[i] = files[i] /\ status'[i] = status[i]
      /\ files' \in [Jobs -> SUBSET Buckets]
      /\ status' \in [Jobs -> {"none", "active", "ended"}]
      /\ op' = op
      /\ UNCHANGED <<replayable, after, post, names, loose, backs,
                      deaths, streamed, strayed, reopened, torn>>
  <2> DEFINE last == CHOOSE b \in files[j] : \A c \in files[j] : Rank[c] <= Rank[b]
             keep == IF status[j] = "ended" \/ j \notin replayable THEN "done" ELSE last
  <2>1. /\ files' = [files EXCEPT ![j] = {keep}]
        /\ status' = IF keep = "done" THEN [status EXCEPT ![j] = "ended"] ELSE status
        /\ op[j] = Free /\ Cardinality(files[j]) > 1
        /\ UNCHANGED <<replayable, after, op, post, payload, backs, deaths, past>>
    BY DEF Deduplicate
  <2>2. files \in [Jobs -> SUBSET Buckets] /\ status \in [Jobs -> {"none", "active", "ended"}]
    BY <1>0 DEF OrderTypeOK
  <2>3. files[j] # {}
    BY <2>1, FS_EmptySet
  <2>4. last \in files[j] /\ \A c \in files[j] : Rank[c] <= Rank[last]
    BY <2>2, <2>3, LastCopy
  <2>5. keep \in Buckets /\ files'[j] = {keep}
    BY <2>1, <2>2, <2>4 DEF Buckets
  <2>6. \/ keep = "done" /\ status'[j] = "ended"
        \/ status'[j] = status[j] /\ status[j] # "ended" /\ keep = last
    BY <2>1, <2>2
  <2>7. /\ \A i \in Jobs \ {j} : files'[i] = files[i] /\ status'[i] = status[i]
        /\ files' \in [Jobs -> SUBSET Buckets]
        /\ status' \in [Jobs -> {"none", "active", "ended"}]
    BY <2>1, <2>2, <2>5
  <2> HIDE DEF last, keep
  <2>8. \/ files'[j] = {"done"} /\ status'[j] = "ended"
        \/ /\ status'[j] = status[j] /\ status[j] # "ended"
           /\ \E b \in files[j] : files'[j] = {b} /\ \A c \in files[j] : Rank[c] <= Rank[b]
    BY <2>4, <2>5, <2>6
  <2> QED
    BY <2>1, <2>3, <2>7, <2>8 DEF payload, past
<1>j. j \in Known
  BY <1>0, <1>1 DEF NumbersAreSound
<1>n. Known' = Known
  BY <1>1, <1>j DEF Known
<1>T. OrderTypeOK'
  BY <1>0, <1>1, <1>n DEF OrderTypeOK
<1>N. NumbersAreSound'
  BY <1>0, <1>1, <1>n DEF NumbersAreSound
<1>R. ASSUME NEW i \in Jobs PROVE RecordIsSound(i)'
  BY <1>0, <1>k, <1>1, <1>j, <1>n, <1>R
     DEF Free, NoPost, Moving, NoJob, Live, Buckets, NumbersAreSound, RecordIsSound, OpIsTyped,
         Moves
<1>l. \A k : Line(k)' = Line(k)
  BY <1>1, LineStays
<1>B. \A k : Behind(k) /\ k \in Jobs => Behind(k)'
  BY <1>1 DEF Behind
<1>s. \A i \in Jobs : Line(i) \subseteq Jobs
  BY DEF Line
<1>L. ASSUME NEW i \in Jobs PROVE LineIsBehind(i)'
  BY <1>0, <1>1, <1>l, <1>B, <1>s, <1>L DEF LineIsBehind, Started
<1>W. ASSUME NEW i \in Jobs PROVE WalkSlipsNone(i)'
  BY <1>0, <1>1, <1>W, RankOf, Ranks DEF Free, OrderTypeOK, WalkSlipsNone, Ahead
<1>S. ListSlipsNone'
  BY <1>0, <1>1, RankOf DEF OrderTypeOK, ListSlipsNone, Ahead, Heard
<1>Q. QueuesInLine'
  BY <1>0, <1>1 DEF QueuesInLine
<1>K. ASSUME NEW i \in Jobs PROVE StreamIsKept(i)'
  BY <1>0, <1>k, <1>1, <1>n, <1>K
     DEF Free, Moving, Live, Buckets, StreamIsKept, RecordIsSound, ActiveJobExists, OpIsTyped,
         Walks
<1> QED
  BY <1>T, <1>N, <1>R, <1>L, <1>W, <1>S, <1>Q, <1>K
     DEF Inv, RecordsAreSound, LinesAreBehind, WalksSlipNone, StreamsAreKept

LEMMA EndKeeps ==
    ASSUME Inv, NEW j \in Jobs, NEW b \in Live, End(j, b)
    PROVE  Inv'
<1>0. /\ OrderTypeOK /\ NumbersAreSound /\ ListSlipsNone /\ QueuesInLine
      /\ \A i \in Jobs : /\ RecordIsSound(i) /\ LineIsBehind(i)
                       /\ StreamIsKept(i) /\ WalkSlipsNone(i)
  BY DEF Inv, RecordsAreSound, LinesAreBehind, WalksSlipNone, StreamsAreKept
<1>k. \A i \in Jobs : OpIsTyped(i)
  BY <1>0, OpKinds
<1>1. /\ op'[j] = Move(b, "done")
      /\ \A i \in Jobs \ {j} : op'[i] = op[i]
      /\ op' = [i \in Jobs |-> op'[i]]
      /\ status'[j] = "ended" /\ (\A i \in Jobs \ {j} : status'[i] = status[i])
  BY <1>0 DEF End, Hold, OrderTypeOK, NumbersAreSound
<1>T. OrderTypeOK'
  BY <1>0, <1>1 DEF End, payload, past, Known, Move, Buckets, OrderTypeOK
<1>N. NumbersAreSound'
  BY <1>0, <1>1 DEF End, records, Known, NumbersAreSound, Free
<1>R. ASSUME NEW i \in Jobs PROVE RecordIsSound(i)'
  <2>1. CASE i = j
    BY <1>0, <1>1, <2>1 DEF End, payload, Move, RecordIsSound
  <2>2. CASE i # j
    BY <1>0, <1>1, <2>2 DEF End, payload, Known, Moving, RecordIsSound
  <2> QED
    BY <2>1, <2>2
<1>l. \A k : Line(k)' = Line(k)
  BY LineStays DEF End
<1>L. ASSUME NEW i \in Jobs PROVE LineIsBehind(i)'
  BY <1>0, <1>1, <1>l, <1>L DEF End, past, Move, LineIsBehind, Behind, Started
<1>W. ASSUME NEW i \in Jobs PROVE WalkSlipsNone(i)'
  BY <1>0, <1>1, <1>W DEF End, Move, WalkSlipsNone, Ahead
<1>S. ListSlipsNone'
  BY <1>0 DEF End, past, ListSlipsNone, Ahead, Heard
<1>Q. QueuesInLine'
  BY <1>0 DEF End, past, QueuesInLine
<1>K. ASSUME NEW i \in Jobs PROVE StreamIsKept(i)'
  BY <1>0, <1>k, <1>1, <1>K
     DEF End, Hold, payload, past, Known, Free, Move, OrderTypeOK, NumbersAreSound, StreamIsKept,
         ActiveJobExists, OpIsTyped, Steps
<1> QED
  BY <1>T, <1>N, <1>R, <1>L, <1>W, <1>S, <1>Q, <1>K
     DEF Inv, RecordsAreSound, LinesAreBehind, WalksSlipNone, StreamsAreKept

LEMMA RecoverTombstoneKeeps ==
    ASSUME Inv, NEW j \in Jobs, RecoverTombstone(j)
    PROVE  Inv'
<1>0. /\ OrderTypeOK /\ NumbersAreSound /\ ListSlipsNone /\ QueuesInLine
      /\ \A i \in Jobs : /\ RecordIsSound(i) /\ LineIsBehind(i)
                       /\ StreamIsKept(i) /\ WalkSlipsNone(i)
  BY DEF Inv, RecordsAreSound, LinesAreBehind, WalksSlipNone, StreamsAreKept
<1>t. \A i \in Jobs : status[i] \in {"none", "active", "ended"} /\ files[i] \subseteq Buckets
  BY <1>0 DEF OrderTypeOK
<1>T. OrderTypeOK'
  BY <1>0 DEF RecoverTombstone, Recovered, records, past, Known, OrderTypeOK
<1>N. NumbersAreSound'
  BY <1>0 DEF RecoverTombstone, records, Known, NumbersAreSound
<1>R. ASSUME NEW i \in Jobs PROVE RecordIsSound(i)'
  BY <1>0, <1>R DEF RecoverTombstone, records, Known, Moving, RecordIsSound
<1>l. \A k : Line(k)' = Line(k)
  BY LineStays DEF RecoverTombstone, records
<1>L. ASSUME NEW i \in Jobs PROVE LineIsBehind(i)'
  BY <1>0, <1>l, <1>L DEF RecoverTombstone, records, past, LineIsBehind, Behind, Started
<1>W. ASSUME NEW i \in Jobs PROVE WalkSlipsNone(i)'
  BY <1>0, <1>W DEF RecoverTombstone, records, WalkSlipsNone, Ahead
<1>S. ListSlipsNone'
  BY <1>0 DEF RecoverTombstone, records, past, ListSlipsNone, Ahead, Heard
<1>Q. QueuesInLine'
  BY <1>0 DEF RecoverTombstone, records, past, QueuesInLine
<1>K. ASSUME NEW i \in Jobs PROVE StreamIsKept(i)'
  BY <1>0, <1>t, <1>K
     DEF RecoverTombstone, Idle, Recovered, records, past, Known, Free, Live, StreamIsKept,
         ActiveJobExists
<1> QED
  BY <1>T, <1>N, <1>R, <1>L, <1>W, <1>S, <1>Q, <1>K
     DEF Inv, RecordsAreSound, LinesAreBehind, WalksSlipNone, StreamsAreKept

LEMMA StageKeeps ==
    ASSUME Inv, NEW j \in Jobs, Stage(j)
    PROVE  Inv'
<1>0. /\ OrderTypeOK /\ NumbersAreSound /\ ListSlipsNone /\ QueuesInLine
      /\ \A i \in Jobs : /\ RecordIsSound(i) /\ LineIsBehind(i)
                       /\ StreamIsKept(i) /\ WalkSlipsNone(i)
  BY DEF Inv, RecordsAreSound, LinesAreBehind, WalksSlipNone, StreamsAreKept
<1>t. \A i \in Jobs : status[i] \in {"none", "active", "ended"} /\ files[i] \subseteq Buckets
  BY <1>0 DEF OrderTypeOK
<1>1. /\ op[j] = Free /\ "done" \in files[j] /\ ~ActiveJobExists(j)
      /\ "tombstone" \notin names[j]
      /\ op'[j] = [step |-> "staged"] /\ \A i \in Jobs \ {j} : op'[i] = op[i]
      /\ op' = [i \in Jobs |-> op'[i]]
      /\ names'[j] = IF "stream" \in names[j] THEN {"tombstone"} ELSE names[j]
      /\ \A i \in Jobs \ {j} : names'[i] = names[i]
      /\ names' \in [Jobs -> SUBSET {"stream", "tombstone"}]
      /\ UNCHANGED <<files, status, replayable, after, post, loose, backs,
                      deaths, streamed, strayed, reopened, torn>>
  BY <1>0, Holding DEF Stage, Prunable, Idle, OrderTypeOK, records, past
<1>n. Known' = Known
  BY <1>1 DEF Known
<1>T. OrderTypeOK'
  BY <1>0, <1>1, <1>n DEF OrderTypeOK
<1>N. NumbersAreSound'
  BY <1>0, <1>1, <1>n DEF NumbersAreSound
<1>R. ASSUME NEW i \in Jobs PROVE RecordIsSound(i)'
  BY <1>0, <1>t, <1>1, <1>n, <1>R DEF Moving, Live, RecordIsSound, ActiveJobExists
<1>l. \A k : Line(k)' = Line(k)
  BY <1>1, LineStays
<1>B. \A k : Behind(k) /\ k \in Jobs => Behind(k)'
  BY <1>1 DEF Behind
<1>s. \A i \in Jobs : Line(i) \subseteq Jobs
  BY DEF Line
<1>L. ASSUME NEW i \in Jobs PROVE LineIsBehind(i)'
  BY <1>0, <1>1, <1>l, <1>B, <1>s, <1>L DEF LineIsBehind, Started
<1>W. ASSUME NEW i \in Jobs PROVE WalkSlipsNone(i)'
  BY <1>0, <1>1, <1>W DEF OrderTypeOK, WalkSlipsNone, RecordIsSound, Ahead
<1>S. ListSlipsNone'
  BY <1>0, <1>1 DEF ListSlipsNone, Ahead, Heard
<1>Q. QueuesInLine'
  BY <1>0, <1>1 DEF QueuesInLine
<1>K. ASSUME NEW i \in Jobs PROVE StreamIsKept(i)'
  BY <1>0, <1>1, <1>n, <1>K DEF Free, StreamIsKept, ActiveJobExists
<1> QED
  BY <1>T, <1>N, <1>R, <1>L, <1>W, <1>S, <1>Q, <1>K
     DEF Inv, RecordsAreSound, LinesAreBehind, WalksSlipNone, StreamsAreKept

LEMMA RemoveKeeps ==
    ASSUME Inv, NEW j \in Jobs, Remove(j)
    PROVE  Inv'
<1>0. /\ OrderTypeOK /\ NumbersAreSound /\ ListSlipsNone /\ QueuesInLine
      /\ \A i \in Jobs : /\ RecordIsSound(i) /\ LineIsBehind(i)
                       /\ StreamIsKept(i) /\ WalkSlipsNone(i)
  BY DEF Inv, RecordsAreSound, LinesAreBehind, WalksSlipNone, StreamsAreKept
<1>1. /\ op'[j] = [step |-> "unlinked"]
      /\ \A i \in Jobs \ {j} : op'[i] = op[i]
      /\ op' = [i \in Jobs |-> op'[i]]
  BY <1>0 DEF Remove, Hold, NumbersAreSound
<1>T. OrderTypeOK'
  BY <1>0, <1>1 DEF Remove, past, Known, Free, OrderTypeOK, NumbersAreSound
<1>N. NumbersAreSound'
  BY <1>0, <1>1 DEF Remove, Known, Free, NumbersAreSound
<1>R. ASSUME NEW i \in Jobs PROVE RecordIsSound(i)'
  BY <1>0, <1>1, <1>R DEF Remove, Known, Moving, OrderTypeOK, RecordIsSound
<1>l. \A k : Line(k)' = Line(k)
  BY LineStays DEF Remove
<1>L. ASSUME NEW i \in Jobs PROVE LineIsBehind(i)'
  BY <1>0, <1>1, <1>l, <1>L DEF Remove, past, LineIsBehind, Behind, Started
<1>W. ASSUME NEW i \in Jobs PROVE WalkSlipsNone(i)'
  BY <1>0, <1>1, <1>W
     DEF Remove, Free, Buckets, OrderTypeOK, WalkSlipsNone, RecordIsSound, Ahead, Moves
<1>S. ListSlipsNone'
  BY <1>0 DEF Remove, past, ListSlipsNone, RecordIsSound, Ahead, Heard
<1>Q. QueuesInLine'
  BY <1>0 DEF Remove, past, QueuesInLine
<1>K. ASSUME NEW i \in Jobs PROVE StreamIsKept(i)'
  BY <1>0, <1>1, <1>K DEF Remove, past, Known, StreamIsKept, ActiveJobExists
<1> QED
  BY <1>T, <1>N, <1>R, <1>L, <1>W, <1>S, <1>Q, <1>K
     DEF Inv, RecordsAreSound, LinesAreBehind, WalksSlipNone, StreamsAreKept

LEMMA UnstageKeeps ==
    ASSUME Inv, NEW j \in Jobs, Unstage(j)
    PROVE  Inv'
<1>0. /\ OrderTypeOK /\ NumbersAreSound /\ ListSlipsNone /\ QueuesInLine
      /\ \A i \in Jobs : /\ RecordIsSound(i) /\ LineIsBehind(i)
                       /\ StreamIsKept(i) /\ WalkSlipsNone(i)
  BY DEF Inv, RecordsAreSound, LinesAreBehind, WalksSlipNone, StreamsAreKept
<1>1. /\ op'[j] = Free
      /\ \A i \in Jobs \ {j} : op'[i] = op[i]
      /\ op' = [i \in Jobs |-> op'[i]]
  BY <1>0 DEF Unstage, Hold, NumbersAreSound
<1>T. OrderTypeOK'
  BY <1>0, <1>1 DEF Unstage, records, past, Known, OrderTypeOK
<1>N. NumbersAreSound'
  BY <1>0, <1>1 DEF Unstage, records, Known, NumbersAreSound
<1>R. ASSUME NEW i \in Jobs PROVE RecordIsSound(i)'
  BY <1>0, <1>1, <1>R DEF Unstage, records, Known, Free, Moving, RecordIsSound
<1>l. \A k : Line(k)' = Line(k)
  BY LineStays DEF Unstage, records
<1>L. ASSUME NEW i \in Jobs PROVE LineIsBehind(i)'
  BY <1>0, <1>1, <1>l, <1>L DEF Unstage, records, past, Free, LineIsBehind, Behind, Started
<1>W. ASSUME NEW i \in Jobs PROVE WalkSlipsNone(i)'
  BY <1>0, <1>1, <1>W DEF Unstage, records, Free, WalkSlipsNone, Ahead
<1>S. ListSlipsNone'
  BY <1>0 DEF Unstage, records, past, ListSlipsNone, Ahead, Heard
<1>Q. QueuesInLine'
  BY <1>0 DEF Unstage, records, past, QueuesInLine
<1>K. ASSUME NEW i \in Jobs PROVE StreamIsKept(i)'
  <2>1. CASE i = j
    BY <1>0, <1>1, <2>1
       DEF Unstage, records, past, Free, NoPost, StreamIsKept, RecordIsSound, ActiveJobExists,
           Walks
  <2>2. CASE i # j
    BY <1>0, <1>1, <2>2 DEF Unstage, records, past, Known, StreamIsKept, ActiveJobExists
  <2> QED
    BY <2>1, <2>2
<1> QED
  BY <1>T, <1>N, <1>R, <1>L, <1>W, <1>S, <1>Q, <1>K
     DEF Inv, RecordsAreSound, LinesAreBehind, WalksSlipNone, StreamsAreKept

LEMMA SyncRemovalKeeps ==
    ASSUME Inv, NEW j \in Jobs, SyncRemoval(j)
    PROVE  Inv'
<1>0. /\ OrderTypeOK /\ NumbersAreSound /\ ListSlipsNone /\ QueuesInLine
      /\ \A i \in Jobs : /\ RecordIsSound(i) /\ LineIsBehind(i)
                       /\ StreamIsKept(i) /\ WalkSlipsNone(i)
  BY DEF Inv, RecordsAreSound, LinesAreBehind, WalksSlipNone, StreamsAreKept
<1>1. /\ op[j].step = "unlinked"
      /\ \A i \in Jobs \ {j} : op'[i] = op[i]
      /\ op' = [i \in Jobs |-> op'[i]]
      /\ \/ loose' = {} /\ op'[j] = [step |-> "clear"] /\ torn' = torn
         \/ torn' = torn \cup {j} /\ op'[j] = Free /\ loose' = loose
      /\ UNCHANGED <<files, status, replayable, after, post, names,
                      backs, deaths, streamed, strayed, reopened>>
  BY <1>0, Holding DEF SyncRemoval, records
<1>j. j \in Known
  BY <1>0, <1>1 DEF NumbersAreSound, Free
<1>n. Known' = Known
  BY <1>1 DEF Known
<1>T. OrderTypeOK'
  BY <1>0, <1>1, <1>j, <1>n DEF OrderTypeOK
<1>N. NumbersAreSound'
  BY <1>0, <1>1, <1>j, <1>n DEF NumbersAreSound
<1>R. ASSUME NEW i \in Jobs PROVE RecordIsSound(i)'
  BY <1>0, <1>1, <1>n, <1>R DEF Free, Moving, RecordIsSound
<1>l. \A k : Line(k)' = Line(k)
  BY <1>1, LineStays
<1>B. \A k : Behind(k) /\ k \in Jobs => Behind(k)'
  BY <1>1 DEF Behind
<1>s. \A i \in Jobs : Line(i) \subseteq Jobs
  BY DEF Line
<1>L. ASSUME NEW i \in Jobs PROVE LineIsBehind(i)'
  BY <1>0, <1>1, <1>l, <1>B, <1>s, <1>L DEF Free, LineIsBehind, Started
<1>W. ASSUME NEW i \in Jobs PROVE WalkSlipsNone(i)'
  BY <1>0, <1>1, <1>W DEF Free, WalkSlipsNone, Ahead
<1>S. ListSlipsNone'
  BY <1>0, <1>1 DEF ListSlipsNone, Ahead, Heard
<1>Q. QueuesInLine'
  BY <1>0, <1>1 DEF QueuesInLine
<1>K. ASSUME NEW i \in Jobs PROVE StreamIsKept(i)'
  BY <1>0, <1>1, <1>n, <1>K DEF StreamIsKept, ActiveJobExists
<1> QED
  BY <1>T, <1>N, <1>R, <1>L, <1>W, <1>S, <1>Q, <1>K
     DEF Inv, RecordsAreSound, LinesAreBehind, WalksSlipNone, StreamsAreKept

LEMMA ClearKeeps ==
    ASSUME Inv, NEW j \in Jobs, Clear(j)
    PROVE  Inv'
<1>0. /\ OrderTypeOK /\ NumbersAreSound /\ ListSlipsNone /\ QueuesInLine
      /\ \A i \in Jobs : /\ RecordIsSound(i) /\ LineIsBehind(i)
                       /\ StreamIsKept(i) /\ WalkSlipsNone(i)
  BY DEF Inv, RecordsAreSound, LinesAreBehind, WalksSlipNone, StreamsAreKept
<1>1. /\ op'[j] = Free
      /\ \A i \in Jobs \ {j} : op'[i] = op[i]
      /\ op' = [i \in Jobs |-> op'[i]]
  BY <1>0 DEF Clear, Hold, NumbersAreSound
<1>T. OrderTypeOK'
  BY <1>0, <1>1 DEF Clear, records, past, Known, OrderTypeOK
<1>N. NumbersAreSound'
  BY <1>0, <1>1 DEF Clear, records, Known, NumbersAreSound
<1>R. ASSUME NEW i \in Jobs PROVE RecordIsSound(i)'
  BY <1>0, <1>1, <1>R DEF Clear, records, Known, Free, Moving, RecordIsSound
<1>l. \A k : Line(k)' = Line(k)
  BY LineStays DEF Clear, records
<1>L. ASSUME NEW i \in Jobs PROVE LineIsBehind(i)'
  BY <1>0, <1>1, <1>l, <1>L DEF Clear, records, past, Free, LineIsBehind, Behind, Started
<1>W. ASSUME NEW i \in Jobs PROVE WalkSlipsNone(i)'
  BY <1>0, <1>1, <1>W DEF Clear, records, Free, WalkSlipsNone, Ahead
<1>S. ListSlipsNone'
  BY <1>0 DEF Clear, records, past, ListSlipsNone, Ahead, Heard
<1>Q. QueuesInLine'
  BY <1>0 DEF Clear, records, past, QueuesInLine
<1>K. ASSUME NEW i \in Jobs PROVE StreamIsKept(i)'
  BY <1>0, <1>1, <1>K
     DEF Clear, records, past, Known, Free, StreamIsKept, RecordIsSound, ActiveJobExists
<1> QED
  BY <1>T, <1>N, <1>R, <1>L, <1>W, <1>S, <1>Q, <1>K
     DEF Inv, RecordsAreSound, LinesAreBehind, WalksSlipNone, StreamsAreKept

\* A submission that gives up or is refused.
LEMMA UnpostKeeps ==
    ASSUME Inv, post' = NoPost, UNCHANGED <<records, op, payload, backs, deaths, past>>
    PROVE  Inv'
<1>0. /\ OrderTypeOK /\ NumbersAreSound /\ ListSlipsNone /\ QueuesInLine
      /\ \A i \in Jobs : /\ RecordIsSound(i) /\ LineIsBehind(i)
                       /\ StreamIsKept(i) /\ WalkSlipsNone(i)
  BY DEF Inv, RecordsAreSound, LinesAreBehind, WalksSlipNone, StreamsAreKept
<1>1. \A k : Line(k)' = Line(k)
  BY LineStays DEF records
<1>T. OrderTypeOK'
  BY <1>0 DEF OrderTypeOK, Known, records, payload, past
<1>N. NumbersAreSound'
  BY <1>0 DEF NumbersAreSound, Known, records
<1>R. \A i \in Jobs : RecordIsSound(i)'
  BY <1>0 DEF RecordIsSound, Known, Moving, records, payload
<1>L. \A i \in Jobs : LineIsBehind(i)'
  BY <1>0, <1>1 DEF LineIsBehind, Behind, Moving, records, past
<1>W. \A i \in Jobs : WalkSlipsNone(i)'
  BY <1>0 DEF WalkSlipsNone, Ahead, records
<1>S. ListSlipsNone'
  BY DEF ListSlipsNone
<1>Q. QueuesInLine'
  BY <1>0 DEF QueuesInLine, records, past
<1>K. \A i \in Jobs : StreamIsKept(i)'
  BY <1>0 DEF StreamIsKept, ActiveJobExists, Known, records, payload, past
<1> QED
  BY <1>T, <1>N, <1>R, <1>L, <1>W, <1>S, <1>Q, <1>K
     DEF Inv, RecordsAreSound, LinesAreBehind, WalksSlipNone, StreamsAreKept

\* A job is published after nothing, or after the only tail of the line: then no
\* other live task follows the same one.
LEMMA PublishKeeps ==
    ASSUME Inv, NEW j \in Jobs, Next(j), NEW p \in Known \cup {NoJob}, Publish(j, p),
           post' = NoPost, strayed' \in {strayed, strayed \cup {j}},
           \A k \in Jobs : p # NoJob /\ after[k] = p /\ status[k] = "active"
                              => k \in reopened \/ j \in strayed'
    PROVE  Inv'
<1>0. /\ OrderTypeOK /\ NumbersAreSound /\ ListSlipsNone /\ QueuesInLine
      /\ \A i \in Jobs : /\ RecordIsSound(i) /\ LineIsBehind(i)
                       /\ StreamIsKept(i) /\ WalkSlipsNone(i)
  BY DEF Inv, RecordsAreSound, LinesAreBehind, WalksSlipNone, StreamsAreKept
<1>j. j \notin Known /\ j \in Nat /\ (\A i \in Known : i \in Jobs /\ i < j)
  <2>1. j \notin Known /\ Known \subseteq Jobs
    BY DEF Next, Known
  <2>2. ASSUME NEW i \in Known PROVE ~(j < i) /\ i # j
    BY <1>0, <2>1 DEF NumbersAreSound
  <2>3. Jobs \subseteq Nat
    BY OrderNumbers
  <2> QED
    BY <2>1, <2>2, <2>3
<1>1. /\ files'[j] = {"pending"} /\ status'[j] = "active" /\ after'[j] = p
      /\ \A i \in Jobs \ {j} :
            files'[i] = files[i] /\ status'[i] = status[i] /\ after'[i] = after[i]
      /\ replayable' = replayable \cup {j} /\ op' = op
      /\ UNCHANGED <<names, loose, backs, deaths, streamed, reopened, torn>>
  BY <1>0 DEF Publish, OrderTypeOK, payload
<1>2. files[j] = {} /\ op[j] = Free /\ after[j] = NoJob
  BY <1>0, <1>j DEF NumbersAreSound
<1>3. j \notin loose /\ j \notin streamed /\ j \notin reopened
  BY <1>0, <1>j DEF OrderTypeOK
<1>n. Known' = Known \cup {j}
  BY <1>1 DEF Known
<1>T. OrderTypeOK'
  <2>1. /\ files' \in [Jobs -> SUBSET Buckets]
        /\ status' \in [Jobs -> {"none", "active", "ended"}]
        /\ after' \in [Jobs -> Jobs \cup {NoJob}]
    BY <1>0, <1>j DEF Publish, OrderTypeOK, Buckets
  <2>2. \A i \in Jobs : after'[i] < i
    <3>1. p < j
      BY <1>j, OrderNumbers DEF NoJob
    <3> QED
      BY <1>0, <1>1, <3>1 DEF OrderTypeOK
  <2>3. /\ replayable' \subseteq Known' /\ loose' \subseteq Known'
        /\ streamed' \cup strayed' \cup reopened' \cup torn' \subseteq Known'
    BY <1>0, <1>1, <1>n DEF OrderTypeOK
  <2> QED
    BY <1>0, <1>1, <2>1, <2>2, <2>3 DEF OrderTypeOK
<1>N. NumbersAreSound'
  <2>1. \A i, k \in Jobs : i < k /\ k \in Known' => i \in Known'
    BY <1>0, <1>n DEF NumbersAreSound, Next
  <2>2. \A i \in Jobs : after'[i] \in Known' \cup {NoJob}
    BY <1>0, <1>1, <1>n DEF NumbersAreSound
  <2>3. \A i \in Jobs \ Known' : files'[i] = {} /\ op'[i] = Free /\ after'[i] = NoJob
    BY <1>0, <1>1, <1>n DEF NumbersAreSound
  <2>4. op' = [i \in Jobs |-> op'[i]]
    BY <1>0, <1>1 DEF NumbersAreSound
  <2> QED
    BY <2>1, <2>2, <2>3, <2>4 DEF NumbersAreSound
<1>R. ASSUME NEW i \in Jobs PROVE RecordIsSound(i)'
  <2>1. CASE i = j
    BY <1>1, <1>2, <1>3, <2>1 DEF RecordIsSound, Free, Moving
  <2>2. CASE i # j
    BY <1>0, <1>1, <1>n, <2>2 DEF RecordIsSound, Moving
  <2> QED
    BY <2>1, <2>2
<1>l. \A k \in Known : Line(k)' \subseteq Line(k)
  BY <1>0, <1>1, <1>j, LineOfKnownStays
<1>m. \A k \in Known : Line(k) \subseteq Line(k)'
  BY <1>0, <1>1, <1>j, LineOfKnownGrows
<1>B. \A k : Behind(k) /\ k \in Known => Behind(k)'
  BY <1>1, <1>j DEF Behind
<1>s. \A k \in Known : Line(k) \subseteq Known
  BY <1>0, LineIsKnown
<1>L. ASSUME NEW i \in Jobs PROVE LineIsBehind(i)'
  <2>1. CASE i \notin Known'
    BY <1>N, <2>1 DEF NumbersAreSound, LineIsBehind, Started, Free
  <2>2. CASE i = j
    BY <1>1, <1>2, <2>2 DEF LineIsBehind, Started, Free
  <2>3. CASE i \in Known
    <3>1. i # j
      BY <1>j, <2>3
    <3>2. op[i].step = "walk" => op[i].next \in Known
      BY <1>0 DEF RecordIsSound
    <3>3. op[i].step = "walk" =>
             \A k \in Line(i)' : Behind(k)' \/ k = op[i].next \/ k \in Line(op[i].next)'
      <4> SUFFICES ASSUME op[i].step = "walk", NEW k \in Line(i)'
                   PROVE  Behind(k)' \/ k = op[i].next \/ k \in Line(op[i].next)'
        OBVIOUS
      <4>1. k \in Line(i) /\ k \in Known
        BY <1>l, <1>s, <2>3
      <4>2. Behind(k) \/ k = op[i].next \/ k \in Line(op[i].next)
        BY <1>0, <4>1 DEF LineIsBehind
      <4> QED
        <5>1. k \in Line(op[i].next) => k \in Line(op[i].next)'
          BY <1>1, <1>m, <3>2
        <5>2. Behind(k) => Behind(k)'
          BY <4>1, <1>B
        <5> QED
          BY <4>2, <5>1, <5>2
    <3>4. /\ Started(files[i]) => \A k \in Line(i)' : Behind(k)'
          /\ Moving(i) /\ Started({op[i].from, op[i].to}) => \A k \in Line(i)' : Behind(k)'
      BY <1>0, <1>l, <1>B, <1>s, <2>3 DEF LineIsBehind
    <3> QED
      BY <1>1, <3>1, <3>3, <3>4 DEF LineIsBehind, Moving
  <2> QED
    BY <2>1, <2>2, <2>3, <1>n
<1>W. ASSUME NEW i \in Jobs PROVE WalkSlipsNone(i)'
  <2>1. op[i].step = "walk" => op[i].next \in Known
    BY <1>0 DEF RecordIsSound
  <2>2. op[i].step = "walk" => files'[op[i].next] = files[op[i].next]
    BY <1>1, <1>j, <2>1
  <2> QED
    BY <1>0, <1>1, <2>2 DEF WalkSlipsNone, Ahead
<1>S. ListSlipsNone'
  BY DEF ListSlipsNone
<1>Q. QueuesInLine'
  <2> SUFFICES ASSUME NEW i \in Jobs, NEW k \in Jobs, i # k,
                      after'[i] = after'[k], after'[i] # NoJob,
                      status'[i] = "active", status'[k] = "active"
               PROVE  {i, k} \cap (strayed' \cup reopened') # {}
    BY DEF QueuesInLine
  <2>1. CASE i = j
    BY <1>1, <2>1
  <2>2. CASE k = j
    BY <1>1, <2>2
  <2>3. CASE i # j /\ k # j
    BY <1>0, <1>1, <2>3 DEF QueuesInLine
  <2> QED
    BY <2>1, <2>2, <2>3
<1>K. ASSUME NEW i \in Jobs PROVE StreamIsKept(i)'
  <2>1. CASE i = j
    BY <1>1, <1>2, <1>3, <2>1 DEF StreamIsKept, Free
  <2>2. CASE i # j
    BY <1>0, <1>1, <1>n, <2>2 DEF StreamIsKept, ActiveJobExists
  <2> QED
    BY <2>1, <2>2
<1> QED
  BY <1>T, <1>N, <1>R, <1>L, <1>W, <1>S, <1>Q, <1>K
     DEF Inv, RecordsAreSound, LinesAreBehind, WalksSlipNone, StreamsAreKept

LEMMA SubmitKeeps ==
    ASSUME Inv, NEW j \in Jobs, Submit(j)
    PROVE  Inv'
  BY PublishKeeps DEF Submit

LEMMA JoinKeeps ==
    ASSUME Inv, NEW j \in Jobs, Join(j)
    PROVE  Inv'
<1>0. /\ OrderTypeOK /\ NumbersAreSound /\ ListSlipsNone /\ QueuesInLine
      /\ \A i \in Jobs : /\ RecordIsSound(i) /\ LineIsBehind(i)
                       /\ StreamIsKept(i) /\ WalkSlipsNone(i)
  BY DEF Inv, RecordsAreSound, LinesAreBehind, WalksSlipNone, StreamsAreKept
<1>1. post # NoPost /\ post.at = 4 /\ Next(j) /\ post' = NoPost
  BY DEF Join, NoPost
<1>2. post.next \in Known /\ post.slid \in BOOLEAN /\ post.heard \subseteq Jobs \X (1..3)
  BY <1>0, <1>1 DEF NumbersAreSound, OrderTypeOK
<1>3. CASE Extends(post.next, post.heard)
  <2>1. /\ Publish(j, post.next)
        /\ strayed' = IF post.slid THEN strayed \cup {j} ELSE strayed
    BY <1>3 DEF Join
  <2>2. ASSUME NEW k \in Jobs, after[k] = post.next, status[k] = "active", k \notin reopened,
               ~post.slid
        PROVE  FALSE
    <3>1. Heard(k)
      <4>1. ~Ahead(k, 4)
        BY <1>0, <2>2, RankOf, Ranks DEF Ahead, OrderTypeOK, RecordIsSound
      <4> QED
        BY <1>0, <1>1, <2>2, <4>1 DEF ListSlipsNone
    <3>2. PICK i \in 1..3 : <<k, i>> \in post.heard
      BY <3>1 DEF Heard
    <3>3. Tails(post.heard) # {} /\ \A h \in Tails(post.heard) : h[1] = post.next
      <4>1. post.heard # {}
        BY <3>2
      <4> QED
        BY <1>3, <4>1, FS_EmptySet DEF Extends
    <3>4. PICK h \in Tails(post.heard) : h[1] = post.next
      BY <3>3
    <3> QED
      BY <2>2, <3>2, <3>4 DEF Tails
  <2> QED
    BY <1>1, <1>2, <2>1, <2>2, PublishKeeps
<1>4. CASE ~Extends(post.next, post.heard)
  BY <1>4, UnpostKeeps DEF Join
<1> QED
  BY <1>3, <1>4

LEMMA ListBucketKeeps ==
    ASSUME Inv, ListBucket
    PROVE  Inv'
<1>0. /\ OrderTypeOK /\ NumbersAreSound /\ ListSlipsNone /\ QueuesInLine
      /\ \A i \in Jobs : /\ RecordIsSound(i) /\ LineIsBehind(i)
                       /\ StreamIsKept(i) /\ WalkSlipsNone(i)
  BY DEF Inv, RecordsAreSound, LinesAreBehind, WalksSlipNone, StreamsAreKept
<1>1. post # NoPost /\ post.step = "list" /\ post.at <= 3
  BY DEF ListBucket, NoPost
<1>2. /\ post.next \in Jobs /\ post.at \in 1..3 /\ post.slid \in BOOLEAN
      /\ post.heard \subseteq Jobs \X (1..3)
      /\ post = [step |-> "list", next |-> post.next, at |-> post.at, heard |-> post.heard,
                 slid |-> post.slid]
  BY <1>0, <1>1 DEF OrderTypeOK
<1> DEFINE H == post.heard
                   \cup {<<i, post.at>> : i \in {k \in Jobs : Order[post.at] \in files[k]}}
<1>3. /\ H \subseteq Jobs \X (1..3)
      /\ post.heard \subseteq H
      /\ \A k \in Jobs : Order[post.at] \in files[k] => <<k, post.at>> \in H
  BY <1>2
<1>4. post' = [post EXCEPT !.at = post.at + 1, !.heard = H]
  BY DEF ListBucket
<1> HIDE DEF H
<1>5. post' = [step |-> "list", next |-> post.next, at |-> post.at + 1, heard |-> H,
               slid |-> post.slid]
  <2>1. PICK n \in Jobs, a \in 1..3, h \in SUBSET (Jobs \X (1..3)), s \in BOOLEAN :
           post = [step |-> "list", next |-> n, at |-> a, heard |-> h, slid |-> s]
    BY <1>2
  <2> QED
    BY <1>4, <2>1
<1>6. /\ post'.next = post.next /\ post'.at = post.at + 1
      /\ post'.heard = H /\ post'.slid = post.slid
      /\ UNCHANGED <<records, op, payload, backs, deaths, past>>
  <2>1. UNCHANGED <<records, op, payload, backs, deaths, past>>
    BY DEF ListBucket
  <2> QED
    BY <1>5, <2>1
<1>7. \A k : Line(k)' = Line(k)
  BY <1>6, LineStays DEF records
<1>8. post' \in Lists
  BY <1>2, <1>3, <1>5 DEF Lists
<1>T. OrderTypeOK'
  BY <1>0, <1>6, <1>8 DEF OrderTypeOK, Known, records, payload, past, Lists
<1>N. NumbersAreSound'
  BY <1>0, <1>1, <1>6 DEF NumbersAreSound, Known, records
<1>R. \A i \in Jobs : RecordIsSound(i)'
  BY <1>0, <1>6 DEF RecordIsSound, Known, Moving, records, payload
<1>L. \A i \in Jobs : LineIsBehind(i)'
  BY <1>0, <1>6, <1>7 DEF LineIsBehind, Behind, Moving, records, past
<1>W. \A i \in Jobs : WalkSlipsNone(i)'
  BY <1>0, <1>6 DEF WalkSlipsNone, Ahead, records
<1>S. ListSlipsNone'
  <2> SUFFICES ASSUME ~post.slid, NEW k \in Jobs, status[k] = "active", k \notin reopened
               PROVE  Ahead(k, post.at + 1) \/ \E i \in 1..3 : <<k, i>> \in H
    BY <1>6 DEF ListSlipsNone, Ahead, Heard, records, past
  <2>1. CASE Heard(k)
    BY <1>3, <2>1 DEF Heard
  <2>2. CASE Ahead(k, post.at)
    <3>1. PICK b \in files[k] : Rank[b] >= post.at
      BY <2>2 DEF Ahead
    <3>2. b \in Buckets
      BY <1>0 DEF OrderTypeOK
    <3>3. CASE Rank[b] = post.at
      BY <1>3, <3>2, <3>3, RankOf
    <3>4. CASE Rank[b] # post.at
      BY <1>2, <3>1, <3>2, <3>4, RankOf DEF Ahead
    <3> QED
      BY <3>3, <3>4
  <2> QED
    BY <1>0, <1>1, <2>1, <2>2 DEF ListSlipsNone
<1>Q. QueuesInLine'
  BY <1>0, <1>6 DEF QueuesInLine, records, past
<1>K. \A i \in Jobs : StreamIsKept(i)'
  BY <1>0, <1>6 DEF StreamIsKept, ActiveJobExists, Known, records, payload, past
<1> QED
  BY <1>T, <1>N, <1>R, <1>L, <1>W, <1>S, <1>Q, <1>K
     DEF Inv, RecordsAreSound, LinesAreBehind, WalksSlipNone, StreamsAreKept

LEMMA ProcessDiesKeeps ==
    ASSUME Inv, ProcessDies
    PROVE  Inv'
<1>0. /\ OrderTypeOK /\ NumbersAreSound /\ ListSlipsNone /\ QueuesInLine
      /\ \A i \in Jobs : /\ RecordIsSound(i) /\ LineIsBehind(i)
                       /\ StreamIsKept(i) /\ WalkSlipsNone(i)
  BY DEF Inv, RecordsAreSound, LinesAreBehind, WalksSlipNone, StreamsAreKept
<1>1. /\ op' = [i \in Jobs |-> Free] /\ post' = NoPost /\ deaths' \in 0..MaxDeaths
      /\ torn' = torn \cup {i \in Jobs : op[i].step = "unlinked"}
      /\ UNCHANGED <<files, status, replayable, after, names, loose, backs, streamed, strayed,
                     reopened>>
  BY <1>0, OrderNumbers DEF ProcessDies, Die, OrderTypeOK
<1>2. \A i \in Jobs : op[i].step = "unlinked" => i \in Known
  BY <1>0 DEF NumbersAreSound, Free
<1>7. \A k : Line(k)' = Line(k)
  BY <1>1, LineStays
<1>n. Known' = Known
  BY <1>1 DEF Known
<1>T. OrderTypeOK'
  <2>1. torn' \subseteq Known
    BY <1>0, <1>1, <1>2 DEF OrderTypeOK
  <2>2. \A i \in Jobs : op'[i] = Free
    BY <1>1
  <2> QED
    BY <1>0, <1>1, <1>n, <2>1, <2>2 DEF OrderTypeOK
<1>N. NumbersAreSound'
  BY <1>0, <1>1, <1>n DEF NumbersAreSound
<1>R. \A i \in Jobs : RecordIsSound(i)'
  BY <1>0, <1>1 DEF RecordIsSound, Moving, Free
<1>L. \A i \in Jobs : LineIsBehind(i)'
  BY <1>0, <1>1, <1>7 DEF LineIsBehind, Behind, Moving, Free
<1>W. \A i \in Jobs : WalkSlipsNone(i)'
  BY <1>1 DEF WalkSlipsNone, Free
<1>S. ListSlipsNone'
  BY <1>1 DEF ListSlipsNone
<1>Q. QueuesInLine'
  BY <1>0, <1>1 DEF QueuesInLine
<1>K. \A i \in Jobs : StreamIsKept(i)'
  BY <1>0, <1>1, <1>n DEF StreamIsKept, ActiveJobExists, Free
<1> QED
  BY <1>T, <1>N, <1>R, <1>L, <1>W, <1>S, <1>Q, <1>K
     DEF Inv, RecordsAreSound, LinesAreBehind, WalksSlipNone, StreamsAreKept

LEMMA PowerLossKeeps ==
    ASSUME Inv, PowerLoss
    PROVE  Inv'
<1>0. /\ OrderTypeOK /\ NumbersAreSound /\ ListSlipsNone /\ QueuesInLine
      /\ \A i \in Jobs : /\ RecordIsSound(i) /\ LineIsBehind(i)
                       /\ StreamIsKept(i) /\ WalkSlipsNone(i)
  BY DEF Inv, RecordsAreSound, LinesAreBehind, WalksSlipNone, StreamsAreKept
<1>1. /\ op' = [i \in Jobs |-> Free] /\ post' = NoPost /\ deaths' \in 0..MaxDeaths /\ loose' = {}
      /\ UNCHANGED <<status, replayable, after, names, backs, streamed, strayed, reopened, torn>>
  BY <1>0, OrderNumbers DEF PowerLoss, Die, OrderTypeOK
<1>2. files' = [i \in Jobs |-> files'[i]]
  BY DEF PowerLoss
<1> DEFINE Torn(i) == files'[i] \in {{op[i].to}, {op[i].from}, {op[i].from, op[i].to}}
<1>3. ASSUME NEW i \in Jobs
      PROVE  \/ files'[i] = files[i]
             \/ i \in loose /\ files'[i] = {"done"}
             \/ op[i].step = "sync" /\ Torn(i)
  <2>1. PICK what \in [Unsynced -> {"new", "old", "both"}] :
           files' = [k \in Jobs |-> IF k \in Unsynced THEN AfterPower(k, what[k]) ELSE files[k]]
    BY DEF PowerLoss
  <2>2. CASE i \notin Unsynced
    BY <2>1, <2>2
  <2>3. CASE i \in Unsynced
    <3>1. files'[i] = AfterPower(i, what[i]) /\ what[i] \in {"new", "old", "both"}
      BY <2>1, <2>3
    <3>2. i \in loose \/ op[i].step = "sync"
      BY <2>3 DEF Unsynced
    <3> QED
      BY <3>1, <3>2 DEF AfterPower
  <2> QED
    BY <2>2, <2>3
<1>k. \A i \in Jobs : op[i].step = "sync" => op[i].from \in Live /\ op[i].to \in Buckets
  BY <1>0, OpKinds DEF Moving, OpIsTyped, Moves
<1>7. \A k : Line(k)' = Line(k)
  BY <1>1, LineStays
<1>n. Known' = Known
  BY <1>1 DEF Known
<1>T. OrderTypeOK'
  <2>1. \A i \in Jobs : files'[i] \subseteq Buckets
    BY <1>0, <1>3, <1>k DEF OrderTypeOK, Live, Buckets
  <2>2. \A i \in Jobs : op'[i] = Free
    BY <1>1
  <2>3. files' \in [Jobs -> SUBSET Buckets]
    BY <1>2, <2>1
  <2> QED
    BY <1>0, <1>1, <1>n, <2>2, <2>3 DEF OrderTypeOK
<1>N. NumbersAreSound'
  <2>1. ASSUME NEW i \in Jobs \ Known PROVE files'[i] = {} 
    BY <1>0, <1>3 DEF NumbersAreSound, OrderTypeOK, Free
  <2> QED
    BY <1>0, <1>1, <1>n, <2>1 DEF NumbersAreSound
<1>R. ASSUME NEW i \in Jobs PROVE RecordIsSound(i)'
  <2>1. op'[i] = Free
    BY <1>1
  <2>2. status[i] = "active" => files'[i] # {} /\ "done" \notin files'[i]
    <3>1. CASE files'[i] = files[i]
      BY <1>0, <3>1 DEF RecordIsSound
    <3>2. CASE i \in loose
      BY <1>0, <3>2 DEF RecordIsSound
    <3>3. CASE op[i].step = "sync" /\ Torn(i)
      <4>1. op[i].from # "done" /\ (status[i] = "active" => op[i].to # "done")
        BY <1>0, <1>k, <3>3 DEF RecordIsSound, Live
      <4> QED
        BY <3>3, <4>1
    <3> QED
      BY <1>3, <3>1, <3>2, <3>3
  <2> QED
    BY <1>1, <2>1, <2>2 DEF RecordIsSound, Moving, Free
<1>L. ASSUME NEW i \in Jobs PROVE LineIsBehind(i)'
  <2>1. op'[i] = Free
    BY <1>1
  <2>2. Started(files'[i]) => \A k \in Line(i) : Behind(k)
    BY <1>0, <1>3 DEF LineIsBehind, Started, Moving
  <2> QED
    BY <1>1, <1>7, <2>1, <2>2 DEF LineIsBehind, Free, Behind, Started
<1>W. \A i \in Jobs : WalkSlipsNone(i)'
  BY <1>1 DEF WalkSlipsNone, Free
<1>S. ListSlipsNone'
  BY <1>1 DEF ListSlipsNone
<1>Q. QueuesInLine'
  BY <1>0, <1>1 DEF QueuesInLine
<1>K. ASSUME NEW i \in Jobs PROVE StreamIsKept(i)'
  <2>1. op'[i] = Free
    BY <1>1
  <2>2. i \in streamed \ torn /\ files'[i] # {} =>
           names[i] # {} /\ (files'[i] \cap Live # {} => "stream" \in names[i])
    BY <1>0, <1>3 DEF StreamIsKept, ActiveJobExists, Live
  <2>3. i \in Known /\ files'[i] = {} => "stream" \notin names[i]
    BY <1>0, <1>3 DEF StreamIsKept
  <2> QED
    BY <1>1, <1>n, <2>1, <2>2, <2>3 DEF StreamIsKept, ActiveJobExists, Free
<1> QED
  BY <1>T, <1>N, <1>R, <1>L, <1>W, <1>S, <1>Q, <1>K
     DEF Inv, RecordsAreSound, LinesAreBehind, WalksSlipNone, StreamsAreKept

LEMMA InitSound == OrderInit => Inv
<1> SUFFICES ASSUME OrderInit PROVE Inv
  OBVIOUS
<1>1. /\ \A j \in Jobs : files[j] = {} /\ status[j] = "none" /\ after[j] = NoJob /\ op[j] = Free
                           /\ names[j] = {}
      /\ replayable = {} /\ loose = {}
      /\ streamed = {} /\ strayed = {} /\ reopened = {} /\ torn = {}
      /\ post = NoPost /\ backs = 0 /\ deaths = 0
  BY DEF OrderInit
<1>2. Known = {}
  BY <1>1 DEF Known
<1>3. OrderTypeOK
  <2>1. \A j \in Jobs : after[j] < j
    BY <1>1, OrderNumbers DEF NoJob
  <2>2. backs \in 0..MaxBacks /\ deaths \in 0..MaxDeaths
    BY <1>1, OrderNumbers
  <2>3. /\ files \in [Jobs -> SUBSET Buckets] /\ status \in [Jobs -> {"none", "active", "ended"}]
        /\ after \in [Jobs -> Jobs \cup {NoJob}]
        /\ names \in [Jobs -> SUBSET {"stream", "tombstone"}]
    BY DEF OrderInit
  <2> QED
    BY <1>1, <2>1, <2>2, <2>3 DEF OrderTypeOK
<1>4. NumbersAreSound
  BY <1>2 DEF NumbersAreSound, OrderInit
<1>5. \A j \in Jobs : RecordIsSound(j) /\ LineIsBehind(j) /\ WalkSlipsNone(j) /\ StreamIsKept(j)
  BY <1>1 DEF RecordIsSound, LineIsBehind, WalkSlipsNone, StreamIsKept, Free, Moving, Started
<1>6. ListSlipsNone /\ QueuesInLine
  BY <1>1 DEF ListSlipsNone, QueuesInLine
<1> QED
  BY <1>3, <1>4, <1>5, <1>6
     DEF Inv, RecordsAreSound, LinesAreBehind, WalksSlipNone, StreamsAreKept

LEMMA StutterKeeps == Inv /\ UNCHANGED orderVars => Inv'
<1> SUFFICES ASSUME Inv, UNCHANGED orderVars PROVE Inv'
  OBVIOUS
<1>0. /\ OrderTypeOK /\ NumbersAreSound /\ ListSlipsNone /\ QueuesInLine
      /\ \A i \in Jobs : /\ RecordIsSound(i) /\ LineIsBehind(i)
                       /\ StreamIsKept(i) /\ WalkSlipsNone(i)
  BY DEF Inv, RecordsAreSound, LinesAreBehind, WalksSlipNone, StreamsAreKept
<1>1. \A k : Line(k)' = Line(k)
  BY LineStays DEF orderVars, records
<1>T. OrderTypeOK'
  BY <1>0 DEF OrderTypeOK, Known, orderVars, records, payload, past
<1>N. NumbersAreSound'
  BY <1>0 DEF NumbersAreSound, Known, orderVars, records
<1>R. \A i \in Jobs : RecordIsSound(i)'
  BY <1>0 DEF RecordIsSound, Known, Moving, orderVars, records, payload
<1>L. \A i \in Jobs : LineIsBehind(i)'
  BY <1>0, <1>1 DEF LineIsBehind, Behind, Moving, orderVars, records, past
<1>W. \A i \in Jobs : WalkSlipsNone(i)'
  BY <1>0 DEF WalkSlipsNone, Ahead, orderVars, records
<1>S. ListSlipsNone'
  BY <1>0 DEF ListSlipsNone, Ahead, Heard, orderVars, records, past
<1>Q. QueuesInLine'
  BY <1>0 DEF QueuesInLine, orderVars, records, past
<1>K. \A i \in Jobs : StreamIsKept(i)'
  BY <1>0 DEF StreamIsKept, ActiveJobExists, Known, orderVars, records, payload, past
<1> QED
  BY <1>T, <1>N, <1>R, <1>L, <1>W, <1>S, <1>Q, <1>K
     DEF Inv, RecordsAreSound, LinesAreBehind, WalksSlipNone, StreamsAreKept

LEMMA StepKeeps == Inv /\ [OrderNext]_orderVars => Inv'
<1> SUFFICES ASSUME Inv, [OrderNext]_orderVars PROVE Inv'
  OBVIOUS
<1>1. CASE ProcessDies \/ PowerLoss \/ ListBucket
  BY <1>1, ProcessDiesKeeps, PowerLossKeeps, ListBucketKeeps
<1>2. ASSUME NEW j \in Jobs, Submit(j) \/ Follow(j) \/ Join(j)
      PROVE  Inv'
  BY <1>2, SubmitKeeps, FollowKeeps, JoinKeeps
<1>3. ASSUME NEW j \in Jobs, Worker(j)
      PROVE  Inv'
  <2>1. CASE \E b \in Live : End(j, b)
    BY <2>1, EndKeeps
  <2>2. CASE Claim(j) \/ Look(j) \/ Rename(j) \/ Sync(j) \/ MoveFails(j)
    BY <2>2, ClaimKeeps, LookKeeps, RenameKeeps, SyncKeeps, MoveFailsKeeps
  <2>3. CASE Commit(j) \/ Suspend(j) \/ Resume(j) \/ Requeue(j) \/ Deduplicate(j)
    BY <2>3, CommitKeeps, SuspendKeeps, ResumeKeeps, RequeueKeeps, DeduplicateKeeps
  <2> QED
    BY <1>3, <2>1, <2>2, <2>3 DEF Worker
<1>4. ASSUME NEW j \in Jobs, Prune(j)
      PROVE  Inv'
  BY <1>4, RecoverTombstoneKeeps, StageKeeps, RemoveKeeps, UnstageKeeps, SyncRemovalKeeps,
     ClearKeeps
     DEF Prune
<1>5. CASE UNCHANGED orderVars
  BY <1>5, StutterKeeps
<1> QED
  BY <1>1, <1>2, <1>3, <1>4, <1>5 DEF OrderNext

-----------------------------------------------------------------------------
\* The theorems.

\* The invariant of the lock holders and submissions: what claim, publish, prune
\* and the moves rely on between two of their steps.
THEOREM OrderInvariant == OrderSpec => []Inv
  BY InitSound, StepKeeps, PTL DEF OrderSpec

\* Type correctness of the records, the lock holders, the submission that lists
\* and the streams.
THEOREM OrderTypeCorrect == OrderSpec => []OrderTypeOK
<1>1. Inv => OrderTypeOK
  BY DEF Inv
<1> QED
  BY <1>1, OrderInvariant, PTL

\* A job that has started has the whole line before it behind it: the walk of the
\* claim (dependencies.rs, state) skips nobody, whatever moves while it reads.
THEOREM NobodyOvertakes == OrderSpec => []NeverOvertakes
<1>1. Inv => NeverOvertakes
  BY DEF Inv, LinesAreBehind, LineIsBehind, NeverOvertakes, Started, Behind
<1> QED
  BY <1>1, OrderInvariant, PTL

\* A submission that listed the buckets one after the other (publish) never puts
\* a second live task behind a task, unless one moved back behind the listing.
THEOREM QueuesStayInLine == OrderSpec => []QueuesInLine
<1>1. Inv => QueuesInLine
  BY DEF Inv
<1> QED
  BY <1>1, OrderInvariant, PTL

\* The stream of a job with a record is kept by the prune and its recovery
\* (prune_with_record_remove, recover_prune_tombstones), wherever they stop.
THEOREM StreamsFollowRecords == OrderSpec => []StreamFollowsRecord
<1>1. Inv => StreamFollowsRecord
  BY DEF Inv, StreamsAreKept, StreamIsKept, StreamFollowsRecord, OrderTypeOK, Known
<1> QED
  BY <1>1, OrderInvariant, PTL

\* A removed record leaves no stream that a later prune would not look at.
THEOREM StreamsAreNotOrphaned == OrderSpec => []NoStreamIsOrphaned
<1>1. Inv => NoStreamIsOrphaned
  BY DEF Inv, StreamsAreKept, StreamIsKept, NoStreamIsOrphaned, Known
<1> QED
  BY <1>1, OrderInvariant, PTL

\* Only the look into the last bucket refuses a job.
LEMMA WalkEndsByLook ==
    ASSUME OrderNext, NEW j \in Jobs, op[j].step = "walk",
           status[j] = "active", status'[j] = "ended", OrderTypeOK
    PROVE  Look(j)
<1>1. /\ op[j] # Free
      /\ \A i \in Jobs \ {j} : /\ [status EXCEPT ![i] = "active"][j] = "active"
                               /\ [status EXCEPT ![i] = "ended"][j] = "active"
  BY DEF Free
<1>2. CASE ProcessDies \/ PowerLoss \/ ListBucket
  BY <1>2 DEF ProcessDies, PowerLoss, ListBucket, Die, records
<1>3. ASSUME NEW i \in Jobs, Submit(i) \/ Follow(i) \/ Join(i)
      PROVE  FALSE
  BY <1>3, <1>1 DEF Submit, Follow, Join, Publish, Next, Known, records
<1>4. ASSUME NEW i \in Jobs, Worker(i)
      PROVE  i = j /\ Look(j)
  <2>1. CASE Look(i)
    BY <2>1, <1>1 DEF Look
  <2>2. CASE \E b \in Live : End(i, b)
    BY <2>2, <1>1 DEF End
  <2>3. CASE Deduplicate(i)
    BY <2>3, <1>1 DEF Deduplicate
  <2>4. CASE Resume(i) \/ Requeue(i)
    BY <2>4, <1>1 DEF Resume, Requeue, BackToPending
  <2>5. CASE Claim(i) \/ Rename(i) \/ Sync(i) \/ MoveFails(i) \/ Commit(i) \/ Suspend(i)
    BY <2>5 DEF Claim, Rename, Sync, MoveFails, Commit, Suspend, records
  <2> QED
    BY <1>4, <2>1, <2>2, <2>3, <2>4, <2>5 DEF Worker
<1>5. ASSUME NEW i \in Jobs, Prune(i)
      PROVE  FALSE
  BY <1>5 DEF Prune, RecoverTombstone, Stage, Remove, Unstage, SyncRemoval, Clear, records
<1> QED
  BY <1>2, <1>3, <1>4, <1>5 DEF OrderNext

LEMMA GoneOrSlid ==
    ASSUME Inv, NEW j \in Jobs, Look(j), status[j] = "active", status'[j] = "ended"
    PROVE  files[op[j].next] = {} \/ op[j].slid
<1>1. /\ op[j].step = "walk" /\ op[j].at = 4
      /\ Order[4] \notin files[op[j].next]
  BY DEF Look, LastBucket
<1>2. op[j].next \in Jobs /\ op[j].slid \in BOOLEAN
  BY <1>1, OpKinds DEF Inv, OpIsTyped, Walks
<1>3. CASE Ahead(op[j].next, 4)
  <2>1. PICK b \in files[op[j].next] : Rank[b] >= 4
    BY <1>3 DEF Ahead
  <2>2. b \in Buckets
    BY <1>2 DEF Inv, OrderTypeOK
  <2> QED
    BY <1>1, <2>1, <2>2, Ranks DEF Buckets
<1> QED
  BY <1>1, <1>3 DEF Inv, WalksSlipNone, WalkSlipsNone

\* A job is refused as having no predecessor (claim_one_with_clock) only if the
\* record of that one is gone, or moved back behind the search.
THEOREM UnavailablePredecessorsAreGone == OrderSpec => UnavailableMeansGone
<1>1. Inv /\ [OrderNext]_orderVars =>
         [\A j \in Jobs :
             op[j].step = "walk" /\ status[j] = "active" /\ status'[j] = "ended" =>
                 files[op[j].next] = {} \/ op[j].slid]_orderVars
  BY WalkEndsByLook, GoneOrSlid DEF Inv
<1> QED
  BY <1>1, OrderInvariant, PTL DEF OrderSpec, UnavailableMeansGone
=============================================================================
