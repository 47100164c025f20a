--------------------------- MODULE ConsentProofs ----------------------------
(***************************************************************************)
(* What Approvals.tla promises beyond the place and the budget of a        *)
(* request.  It implements ConsentContract.tla: every step of the files    *)
(* files, answers or uses up requests as the contract allows, or leaves    *)
(* the standing of every request as it is; a power loss unsettles those    *)
(* whose files it puts elsewhere.  Revocation is final as long as nobody   *)
(* dies between the rename of a new generations file and the sync of its   *)
(* directory: the counters that a reader sees then never fall, so a grant  *)
(* minted below the counter of its session stays below.  And a status      *)
(* lookup misses a request that stays open only if its file could not be   *)
(* read.                                                                   *)
(***************************************************************************)
EXTENDS ApprovalsProofs

-----------------------------------------------------------------------------
\* The contract.

\* Where a request is decides how it stands.
LEMMA StandingByPlace ==
    ASSUME Inv, NEW q \in Requests, q \notin returned
    PROVE  /\ dir[q] = {} => Standing[q] = "unknown"
           /\ dir[q] = {"scratch"} \/ "pending" \in dir[q] => Standing[q] = "pending"
           /\ "approved" \in dir[q] => Standing[q] = "approved"
           /\ "denied" \in dir[q] => Standing[q] = "denied"
           /\ "consumed" \in dir[q] =>
                Standing[q] = IF InFlight(q) THEN "approved" ELSE "consumed"
           /\ Standing[q] = "unknown" => dir[q] = {}
<1>1. Standing[q] =
        IF "denied" \in dir[q] THEN "denied"
        ELSE IF InFlight(q) THEN "approved"
        ELSE IF "consumed" \in dir[q] THEN "consumed"
        ELSE IF "approved" \in dir[q] THEN "approved"
        ELSE IF dir[q] # {} THEN "pending"
        ELSE "unknown"
  BY DEF Standing, InFlight
<1>2. \A d, e \in dir[q] \ {"scratch"} : d = e
  BY DEF Inv, RequestIsSound, OneAnswer
<1>3. InFlight(q) => "consumed" \in dir[q]
  BY DEF Inv, ActorIsSound, ReadIsFresh, OperationIsSound, InFlight
<1> QED
  BY <1>1, <1>2, <1>3

\* A request whose files, but for a leftover beside its answer, and whose
\* spender stay as they are keeps its standing.
SamePlace(q) ==
    /\ dir'[q] \ {"scratch"} = dir[q] \ {"scratch"}
    /\ dir'[q] = {} <=> dir[q] = {}
    /\ q \in returned' <=> q \in returned

LEMMA StandingKept ==
    ASSUME NEW q \in Requests, SamePlace(q), InFlight(q)' <=> InFlight(q)
    PROVE  Standing'[q] = Standing[q]
<1>1. \A d \in {"denied", "consumed", "approved"} : d \in dir'[q] <=> d \in dir[q]
  BY DEF SamePlace
<1> QED
  BY <1>1 DEF Standing, InFlight, SamePlace

\* Requests that change their standing together make one step of the contract.
LEMMA StandingsMove ==
    ASSUME NEW S \in SUBSET Requests, S # {}, NEW from, NEW to,
           \A q \in S : Standing[q] = from /\ Standing'[q] = to,
           \A q \in Requests \ S : Standing'[q] = Standing[q]
    PROVE  Contract!MoveAll(S, from, to)
<1>1. Standing' = [q \in Requests |-> Standing'[q]]
  BY DEF Standing
<1>2. Standing' = [q \in Requests |-> IF q \in S THEN to ELSE Standing[q]]
  BY <1>1
<1> QED
  BY <1>2 DEF Contract!MoveAll

\* The same standing of every request is no step at all.
LEMMA StandingsStay ==
    ASSUME \A q \in Requests : Standing'[q] = Standing[q]
    PROVE  UNCHANGED Standing
<1>1. Standing' = [q \in Requests |-> Standing'[q]] /\ Standing = [q \in Requests |-> Standing[q]]
  BY DEF Standing
<1> QED
  BY <1>1

Step == [Contract!ConsentNext]_Standing

\* A set of grants that is used up at once.
LEMMA UsedUpTogether ==
    ASSUME NEW S \in SUBSET Requests,
           \A q \in S : Standing[q] = "approved" /\ Standing'[q] = "consumed",
           \A q \in Requests \ S : Standing'[q] = Standing[q]
    PROVE  Step
<1>1. CASE S = {}
  <2>1. UNCHANGED Standing
    BY <1>1, StandingsStay
  <2> QED
    BY <2>1 DEF Step
<1>2. CASE S # {}
  <2>1. Contract!MoveAll(S, "approved", "consumed")
    BY <1>2, StandingsMove
  <2> QED
    BY <2>1 DEF Step, Contract!ConsentNext, Contract!UseUp
<1> QED
  BY <1>1, <1>2

\* A step that gives no request another place either leaves the standings alone
\* or, when an actor parts with grants it had moved, uses those up.
LEMMA NoRenameKeepsContract ==
    ASSUME Inv, Inv', \A q \in Requests : SamePlace(q),
           \A a \in Actors : op'[a].done \subseteq op[a].done
    PROVE  Step
<1> DEFINE S == {q \in Requests \ returned : InFlight(q) /\ ~InFlight(q)'}
<1>1. ASSUME NEW q \in S
      PROVE  q \in Requests /\ Standing[q] = "approved" /\ Standing'[q] = "consumed"
  <2>1. q \in Requests \ returned /\ InFlight(q) /\ ~InFlight(q)' /\ q \notin returned'
    BY DEF SamePlace
  <2>2. "consumed" \in dir[q]
    BY <2>1 DEF Inv, ActorIsSound, ReadIsFresh, OperationIsSound, InFlight
  <2>3. \A d \in dir[q] \ {"scratch"} : d = "consumed"
    BY <2>1, <2>2 DEF Inv, RequestIsSound, OneAnswer
  <2>4. "consumed" \in dir'[q] /\ "denied" \notin dir'[q]
    BY <2>1, <2>2, <2>3 DEF SamePlace
  <2>5. Standing'[q] = "consumed"
    BY <2>1, <2>4 DEF Standing, InFlight
  <2> QED
    BY <2>1, <2>2, <2>5, StandingByPlace
<1>2. ASSUME NEW q \in Requests \ S PROVE Standing'[q] = Standing[q]
  <2>1. CASE q \in returned
    BY <2>1 DEF Standing, SamePlace
  <2>2. CASE q \notin returned
    <3>1. InFlight(q)' <=> InFlight(q)
      BY <2>2 DEF InFlight
    <3> QED
      BY <3>1, StandingKept
  <2> QED BY <2>1, <2>2
<1>3. S \in SUBSET Requests
  OBVIOUS
<1> HIDE DEF S
<1> QED
  BY <1>1, <1>2, <1>3, UsedUpTogether

\* A step that touches no file is one.
LEMMA FilesStay ==
    ASSUME UNCHANGED <<dir, returned>>
    PROVE  \A q \in Requests : SamePlace(q)
    BY DEF SamePlace

\* A step that moves one request's file changes the standing of that request
\* as the contract allows.
LEMMA OneRequestMoves ==
    ASSUME NEW q \in Requests, \A r \in Requests \ {q} : Standing'[r] = Standing[r],
           <<Standing[q], Standing'[q]>> \in
               {<<"unknown", "pending">>, <<"pending", "approved">>,
                <<"pending", "denied">>, <<"approved", "consumed">>}
           \/ Standing'[q] = Standing[q]
    PROVE  Step
<1>1. CASE Standing'[q] = Standing[q]
  <2>1. UNCHANGED Standing
    BY <1>1, StandingsStay
  <2> QED
    BY <2>1 DEF Step
<1>2. CASE Standing'[q] # Standing[q]
  <2>1. Contract!MoveAll({q}, Standing[q], Standing'[q])
    BY StandingsMove
  <2> QED
    BY <1>2, <2>1
       DEF Step, Contract!ConsentNext, Contract!File, Contract!Approve, Contract!Refuse,
           Contract!UseUp
<1> QED
  BY <1>1, <1>2

-----------------------------------------------------------------------------
\* The steps that rename or write a file.

\* What a set spender has renamed: whoever goes on with an operation, or leaves
\* it, has no more in flight than before.
LEMMA DoneShrinks ==
    ASSUME ApprovalsTypeOK, NEW a \in Actors, NEW o, Enter(a, o), o.done \subseteq op[a].done
    PROVE  \A b \in Actors : op'[b].done \subseteq op[b].done
    BY DEF ApprovalsTypeOK, Enter

\* An actor that leaves gives up what it had moved.
LEMMA LeavingShrinks ==
    ASSUME ApprovalsTypeOK, NEW a \in Actors, Leave(a)
    PROVE  \A b \in Actors : op'[b].done \subseteq op[b].done
<1>1. Idle.done = {}
  BY DEF Idle
<1> QED
  BY <1>1, DoneShrinks DEF Leave

\* The other requests of a step that touches one.
LEMMA OthersKept ==
    ASSUME NEW q \in Requests, \A r \in Requests \ {q} : dir'[r] = dir[r], returned' = returned,
           \A a \in Actors : op'[a].done \ {q} = op[a].done \ {q}
    PROVE  \A r \in Requests \ {q} : Standing'[r] = Standing[r]
<1> SUFFICES ASSUME NEW r \in Requests \ {q} PROVE Standing'[r] = Standing[r]
  OBVIOUS
<1>1. InFlight(r)' <=> InFlight(r)
  BY DEF InFlight
<1> QED
  BY <1>1, StandingKept DEF SamePlace

\* A request that a power loss unsettled stays so.
LEMMA UnsettledStays ==
    ASSUME NEW q \in Requests, q \in returned, returned' = returned
    PROVE  Standing'[q] = Standing[q]
    BY DEF Standing

\* A step that moves the file of a request whose standing is settled.
LEMMA OneFileMoves ==
    ASSUME NEW q \in Requests, \A r \in Requests \ {q} : dir'[r] = dir[r], returned' = returned,
           \A a \in Actors : op'[a].done \ {q} = op[a].done \ {q},
           q \in returned
           \/ <<Standing[q], Standing'[q]>> \in
                  {<<"unknown", "pending">>, <<"pending", "approved">>,
                   <<"pending", "denied">>, <<"approved", "consumed">>}
           \/ Standing'[q] = Standing[q]
    PROVE  Step
<1>1. \A r \in Requests \ {q} : Standing'[r] = Standing[r]
  BY OthersKept
<1>2. q \in returned => Standing'[q] = Standing[q]
  BY UnsettledStays
<1> QED
  BY <1>1, <1>2, OneRequestMoves

\* The file that appears in pending/ is the filing of the contract.
LEMMA WritePendingKeepsContract ==
    ASSUME Inv, Inv', NEW a \in Actors, WritePending(a)
    PROVE  Step
<1>1. PICK q \in Requests : q = op[a].req /\ dir[q] = {}
  BY DEF WritePending, Inv, ActorIsSound, HasItsFile
<1>2. /\ \A r \in Requests \ {q} : dir'[r] = dir[r]
      /\ dir'[q] = {"pending"} /\ returned' = returned
  BY <1>1 DEF WritePending, Inv, ApprovalsTypeOK, history
<1>3. \A b \in Actors : op'[b].done = op[b].done
  BY DEF WritePending, Leave, Enter, Idle, Inv, ApprovalsTypeOK, ActorIsSound,
         OperationIsSound, At
<1>4. ~InFlight(q)
  BY <1>1 DEF Inv, ActorIsSound, ReadIsFresh, OperationIsSound, InFlight
<1>5. q \notin returned => Standing[q] = "unknown" /\ Standing'[q] = "pending"
  <2>1. q \notin returned => Standing[q] = "unknown"
    BY <1>1, StandingByPlace
  <2> QED
    BY <1>2, <1>3, <1>4, <2>1 DEF Standing, InFlight
<1> QED
  BY <1>2, <1>3, <1>5, OneFileMoves

\* Between pending/ and scratch/ a request stays open.
LEMMA OpenStays ==
    ASSUME Inv, Inv', NEW q \in Requests, returned' = returned,
           q \in returned \/ "pending" \in dir[q] \/ dir[q] = {"scratch"},
           \/ dir' = Moved({q}, "pending", "scratch")
           \/ dir' = Moved({q}, "scratch", "pending"),
           \A a \in Actors : op'[a].done = op[a].done
    PROVE  Step
<1>1. /\ \A r \in Requests \ {q} : dir'[r] = dir[r]
      /\ dir'[q] \subseteq dir[q] \cup {"pending", "scratch"} /\ dir'[q] # {}
  BY DEF Moved
<1>2. ASSUME q \notin returned PROVE Standing'[q] = Standing[q]
  <2>1. \A d \in dir[q] : d \in {"pending", "scratch"}
    BY <1>2 DEF Inv, RequestIsSound, OneAnswer
  <2>2. ~InFlight(q)
    BY <2>1 DEF Inv, ActorIsSound, ReadIsFresh, OperationIsSound, InFlight
  <2>3. Standing[q] = "pending"
    BY <1>2, StandingByPlace
  <2>4. Standing'[q] = "pending"
    BY <1>1, <1>2, <2>1, <2>2 DEF Standing, InFlight
  <2> QED
    BY <2>3, <2>4
<1> QED
  BY <1>1, <1>2, OneFileMoves

\* An answer is given to an open request.
LEMMA AnswerKeepsContract ==
    ASSUME Inv, Inv', NEW q \in Requests, returned' = returned,
           dir[q] = {"scratch"} \/ q \in returned,
           NEW to \in {"approved", "denied"}, Outcome(q, to),
           \A a \in Actors : op'[a].done = op[a].done
    PROVE  Step
<1>1. /\ dir'[q] = dir[q] \cup {to}
      /\ \A r \in Requests \ {q} : dir'[r] = dir[r]
  BY DEF Outcome, Inv, ApprovalsTypeOK
<1>2. ASSUME q \notin returned PROVE Standing[q] = "pending" /\ Standing'[q] = to
  <2>1. ~InFlight(q)
    BY <1>2 DEF Inv, ActorIsSound, ReadIsFresh, OperationIsSound, InFlight
  <2>2. Standing'[q] = to
    BY <1>1, <1>2, <2>1 DEF Standing, InFlight
  <2> QED
    BY <1>2, <2>2, StandingByPlace
<1> QED
  BY <1>1, <1>2, OneFileMoves

\* What is left to do after an answer changes no standing.
LEMMA SettlingKeepsContract ==
    ASSUME Inv, Inv', NEW q \in Requests, returned' = returned,
           NEW to \in {"approved", "denied"}, to \in dir[q], Settle(q, to),
           \A a \in Actors : op'[a].done \subseteq op[a].done
    PROVE  Step
<1>1. \A r \in Requests : dir'[r] = dir[r] \/ (r = q /\ dir'[r] = dir[r] \ {"scratch"})
  BY DEF Settle, Inv, ApprovalsTypeOK
<1>2. \A r \in Requests : SamePlace(r)
  BY <1>1 DEF SamePlace
<1> QED
  BY <1>2, NoRenameKeepsContract

\* A decision is one step of the contract, taken when its outcome is written.
LEMMA DecisionKeepsContract ==
    ASSUME Inv, Inv', NEW a \in Actors, DecisionStep(a)
    PROVE  Step
<1> USE DEF Inv
<1>1. ASSUME NEW q \in Requests, NEW word \in {"deny", "once", "repeat"}, Claim(a, q, word)
      PROVE  Step
  <2>1. \A b \in Actors : op'[b].done = op[b].done
    BY <1>1 DEF Claim, Enter, Idle, ApprovalsTypeOK, ActorIsSound, OperationIsSound, At
  <2> QED
    BY <1>1, <2>1, OpenStays DEF Claim, Rename, history
<1>2. CASE JudgeDenied(a) \/ JudgeApproved(a)
  <2>1. PICK step \in {"deny", "approve"} : JudgeTo(a, step)
    BY <1>2 DEF JudgeDenied, JudgeApproved
  <2>2. [op[a] EXCEPT !.step = step].done = op[a].done
    BY DEF ApprovalsTypeOK, Operations
  <2>3. UNCHANGED <<dir, returned>> /\ \A b \in Actors : op'[b].done \subseteq op[b].done
    BY <2>1, <2>2, DoneShrinks DEF JudgeTo, files, history
  <2> QED
    BY <2>3, FilesStay, NoRenameKeepsContract
<1>3. CASE JudgeRestored(a)
  <2>1. \A b \in Actors : op'[b].done = op[b].done
    <3>1. \A b \in Actors : op[b] \in Operations /\ (At(b, "judge") => op[b].done = {})
      BY DEF ApprovalsTypeOK, ActorIsSound, OperationIsSound, At
    <3> QED
      BY <1>3, <3>1 DEF JudgeRestored, Idle, Operations
  <2>2. op[a].req \in Requests /\ (dir[op[a].req] = {"scratch"} \/ op[a].req \in returned)
    BY <1>3 DEF JudgeRestored, ActorIsSound, HasItsFile, Deciding, Judging, At
  <2> QED
    BY <1>3, <2>1, <2>2, OpenStays DEF JudgeRestored, Rename, history
<1>4. CASE WriteApproved(a) \/ WriteDenied(a)
  <2>1. \A b \in Actors : op'[b].done = op[b].done
    <3>1. \A step : [op[a] EXCEPT !.step = step].done = op[a].done
      BY DEF ApprovalsTypeOK, Operations
    <3>2. PICK o : Enter(a, o) /\ o.done = op[a].done
      BY <1>4, <3>1 DEF WriteApproved, WriteDenied
    <3> QED
      BY <3>2 DEF Enter, ApprovalsTypeOK
  <2>2. op[a].req \in Requests /\ (dir[op[a].req] = {"scratch"} \/ op[a].req \in returned)
    BY <1>4 DEF WriteApproved, WriteDenied, ActorIsSound, HasItsFile, Deciding, Judging, At
  <2> QED
    BY <1>4, <2>1, <2>2, AnswerKeepsContract DEF WriteApproved, WriteDenied, history
<1>5. CASE DecisionEnds(a)
  <2>1. PICK to \in {"approved", "denied"} :
          /\ op[a].req \in Requests /\ to \in dir[op[a].req] /\ Settle(op[a].req, to)
    BY <1>5 DEF DecisionEnds, ActorIsSound, HasItsFile, Deciding, At
  <2> QED
    BY <1>5, <2>1, LeavingShrinks, SettlingKeepsContract DEF DecisionEnds, history
<1> QED
  BY <1>1, <1>2, <1>3, <1>4, <1>5 DEF DecisionStep

\* Retiring an invocation uses up its grants in one step of the contract.
LEMMA ConsumeGrantsKeepsContract ==
    ASSUME Inv, Inv', NEW a \in Actors, ConsumeGrants(a)
    PROVE  Step
<1> USE DEF Inv
<1>1. PICK S \in SUBSET Requests :
        /\ \A q \in S : "approved" \in dir[q]
        /\ dir' = Moved(S, "approved", "consumed")
  <2>1. PICK S \in SUBSET GrantsOf(op[a].subject) :
          dir' = Moved(S, "approved", "consumed") \/ (S = {} /\ dir' = dir)
    BY DEF ConsumeGrants, Rename, RenameAndSync
  <2>2. S = {} => Moved(S, "approved", "consumed") = dir
    BY DEF Moved, ApprovalsTypeOK
  <2>3. S \in SUBSET Requests /\ \A q \in S : "approved" \in dir[q]
    BY DEF GrantsOf
  <2> QED
    BY <2>1, <2>2, <2>3
<1>2. lock = None /\ returned' = returned
  BY DEF ConsumeGrants
<1>3. \A b \in Actors : op[b].done = {} /\ op'[b].done = {}
  BY <1>2, NamesAreDistinct
     DEF ConsumeGrants, Leave, Enter, Idle, ApprovalsTypeOK, ActorIsSound, OperationIsSound,
         At, Locked
<1> DEFINE T == S \ returned
<1>4. ASSUME NEW q \in T
      PROVE  Standing[q] = "approved" /\ Standing'[q] = "consumed"
  <2>1. q \in Requests /\ "approved" \in dir[q] /\ q \notin returned
    BY <1>1
  <2>2. \A d \in dir[q] \ {"scratch"} : d = "approved"
    BY <2>1 DEF RequestIsSound, OneAnswer
  <2>3. dir'[q] = (dir[q] \ {"approved"}) \cup {"consumed"}
    BY <1>1, <2>1 DEF Moved
  <2> QED
    BY <1>2, <1>3, <2>1, <2>2, <2>3 DEF Standing
<1>5. ASSUME NEW q \in Requests \ T PROVE Standing'[q] = Standing[q]
  <2>1. CASE q \in returned
    BY <1>2, <2>1, UnsettledStays
  <2>2. CASE q \notin returned
    <3>1. dir'[q] = dir[q]
      BY <1>1, <2>2 DEF Moved
    <3> QED
      BY <1>2, <1>3, <3>1, StandingKept DEF InFlight, SamePlace
  <2> QED BY <2>1, <2>2
<1> HIDE DEF T
<1>6. T \in SUBSET Requests
  BY DEF T
<1> QED
  BY <1>4, <1>5, <1>6, UsedUpTogether

\* A sweep refuses its requests one by one.
LEMMA RetirementKeepsContract ==
    ASSUME Inv, Inv', NEW a \in Actors, RetirementStep(a)
    PROVE  Step
<1> USE DEF Inv
<1>1. CASE (\E e \in Locals : EndInvocation(a, e)) \/ \E w \in Workers : WorkerEnds(a, w)
  <2>1. \A e, S : [Idle EXCEPT !.step = "sweep", !.subject = e, !.todo = S].done = {}
    BY DEF Idle
  <2>2. PICK e : BeginSweep(a, e) /\ UNCHANGED <<dir, returned>>
    BY <1>1 DEF EndInvocation, WorkerEnds, files, history
  <2>3. \A b \in Actors : op'[b].done \subseteq op[b].done
    BY <2>1, <2>2 DEF BeginSweep, Enter, ApprovalsTypeOK
  <2> QED
    BY <2>2, <2>3, FilesStay, NoRenameKeepsContract
<1>2. ASSUME NEW q \in Requests, SweepOne(a, q) PROVE Step
  <2>1. \A b \in Actors : op'[b].done = op[b].done
    <3>1. /\ [op[a] EXCEPT !.step = "refuse", !.req = q, !.todo = @ \ {q}].done = op[a].done
          /\ [op[a] EXCEPT !.todo = @ \ {q}].done = op[a].done
      BY DEF ApprovalsTypeOK, Operations
    <3>2. PICK o : Enter(a, o) /\ o.done = op[a].done
      BY <1>2, <3>1 DEF SweepOne, SweepListed
    <3> QED
      BY <3>2 DEF Enter, ApprovalsTypeOK
  <2>2. CASE "pending" \in dir[q]
    BY <1>2, <2>1, <2>2, OpenStays DEF SweepOne, SweepListed, Rename, history
  <2>3. CASE "pending" \notin dir[q]
    BY <1>2, <2>1, <2>3, FilesStay, NoRenameKeepsContract DEF SweepOne, files, history
  <2> QED
    BY <2>2, <2>3
<1>3. CASE WriteRefused(a)
  <2>1. \A b \in Actors : op'[b].done = op[b].done
    BY <1>3 DEF WriteRefused, Enter, ApprovalsTypeOK, Operations
  <2>2. op[a].req \in Requests /\ (dir[op[a].req] = {"scratch"} \/ op[a].req \in returned)
    BY <1>3 DEF WriteRefused, ActorIsSound, HasItsFile, Deciding, Judging, At
  <2> QED
    BY <1>3, <2>1, <2>2, AnswerKeepsContract DEF WriteRefused, history
<1>4. CASE RefusalEnds(a)
  <2>1. op[a].req \in Requests /\ "denied" \in dir[op[a].req]
    BY <1>4 DEF RefusalEnds, ActorIsSound, HasItsFile, Deciding, At
  <2>2. [op[a] EXCEPT !.step = "sweep", !.req = None].done = op[a].done
    BY DEF ApprovalsTypeOK, Operations
  <2>3. \A b \in Actors : op'[b].done \subseteq op[b].done
    BY <1>4, <2>2, DoneShrinks DEF RefusalEnds
  <2> QED
    BY <1>4, <2>1, <2>3, SettlingKeepsContract DEF RefusalEnds, history
<1>5. CASE SweepEnds(a) \/ SweepFails(a)
  <2>1. /\ [op[a] EXCEPT !.step = "grants"].done = op[a].done
        /\ [Idle EXCEPT !.step = "revoke", !.word = "session",
                        !.subject = SessionOf[op[a].subject]].done = Idle.done
        /\ Idle.done = {}
    BY IdleIsAnOperation DEF ApprovalsTypeOK, Operations, Idle
  <2>2. UNCHANGED <<dir, returned>> /\ \E o : Enter(a, o) /\ o.done \subseteq op[a].done
    BY <1>5, <2>1 DEF SweepEnds, SweepFails, RevokeNext, files, history
  <2> QED
    BY <2>2, DoneShrinks, FilesStay, NoRenameKeepsContract
<1> QED
  BY <1>1, <1>2, <1>3, <1>4, <1>5, ConsumeGrantsKeepsContract DEF RetirementStep

\* A single grant is used up by its last use, a set when it is reported spent,
\* and a grant that cannot be put back when its spender gives it up.
LEMMA SpendingKeepsContract ==
    ASSUME Inv, Inv', NEW a \in Actors, SpendingStep(a)
    PROVE  Step
<1> USE DEF Inv
<1>1. ASSUME NEW q \in Requests, NEW e \in Executions \cup {None}, FindGrant(a, q, e)
      PROVE  Step
  <2>1. [Idle EXCEPT !.step = "spend", !.req = q, !.uses = rec[q].uses].done = Idle.done
    BY IdleIsAnOperation DEF Operations
  <2>2. UNCHANGED <<dir, returned>> /\ \E o : Enter(a, o) /\ o.done = {}
    BY <1>1, <2>1 DEF FindGrant, LoadGrant, files, Idle, history
  <2> QED
    BY <2>2, DoneShrinks, FilesStay, NoRenameKeepsContract
<1>2. ASSUME NEW S \in SUBSET Requests, FindSet(a, S) PROVE Step
  <2>1. [Idle EXCEPT !.step = "set", !.todo = S].done = Idle.done
    BY IdleIsAnOperation DEF Operations
  <2>2. UNCHANGED <<dir, returned>> /\ \E o : Enter(a, o) /\ o.done = {}
    BY <1>2, <2>1 DEF FindSet, ListSet, files, Idle, history
  <2> QED
    BY <2>2, DoneShrinks, FilesStay, NoRenameKeepsContract
<1>3. CASE SetIsSpent(a) \/ SetIsRolledBack(a)
  <2>1. UNCHANGED <<dir, returned>> /\ Leave(a)
    BY <1>3 DEF SetIsSpent, SetIsRolledBack, SyncSet, history
  <2> QED
    BY <2>1, LeavingShrinks, FilesStay, NoRenameKeepsContract
<1>4. CASE MoveFails(a)
  <2>1. [op[a] EXCEPT !.step = "undo", !.todo = {}].done = op[a].done
    BY DEF ApprovalsTypeOK, Operations
  <2>2. UNCHANGED <<dir, returned>> /\ \E o : Enter(a, o) /\ o.done = op[a].done
    BY <1>4, <2>1 DEF MoveFails, files, history
  <2> QED
    BY <2>2, DoneShrinks, FilesStay, NoRenameKeepsContract
<1>5. CASE Spend(a)
  <2>1. PICK q \in Requests : q = op[a].req /\ "approved" \in dir[q]
    BY <1>5 DEF Spend, ActorIsSound, ReadIsFresh
  <2>2. \A b \in Actors : op'[b].done = op[b].done /\ op[b].done = {}
    <3>1. \A b \in Actors : op[b].done = {}
      BY <1>5 DEF Spend, At, Locked, ApprovalsTypeOK, ActorIsSound, OperationIsSound
    <3>2. op'[a] = Idle /\ \A b \in Actors \ {a} : op'[b] = op[b]
      BY <1>5, Leaving DEF Spend
    <3> QED
      BY <3>1, <3>2 DEF Idle
  <2>3. /\ \A r \in Requests \ {q} : dir'[r] = dir[r]
        /\ dir'[q] = dir[q] \/ dir'[q] = (dir[q] \ {"approved"}) \cup {"consumed"}
    <3>1. \/ dir' = Moved({q}, "approved", "consumed")
          \/ dir' = [dir EXCEPT ![q] = @ \cup {"approved"}]
      BY <1>5, <2>1 DEF Spend, SpendLast, SpendOne, RenameAndSync, Rename, Outcome
    <3>2. dir[q] \cup {"approved"} = dir[q]
      BY <2>1
    <3> QED
      BY <3>1, <3>2 DEF Moved, ApprovalsTypeOK
  <2>4. returned' = returned
    BY <1>5 DEF Spend
  <2>5. ASSUME q \notin returned
        PROVE  Standing[q] = "approved" /\ Standing'[q] \in {"approved", "consumed"}
    <3>1. \A d \in dir[q] \ {"scratch"} : d = "approved"
      BY <2>1, <2>5 DEF RequestIsSound, OneAnswer
    <3>2. Standing'[q] \in {"approved", "consumed"}
      BY <2>1, <2>2, <2>3, <2>4, <2>5, <3>1 DEF Standing
    <3> QED
      BY <2>1, <2>5, <3>2, StandingByPlace
  <2> QED
    BY <2>2, <2>3, <2>4, <2>5, OneFileMoves
<1>6. ASSUME NEW q \in Requests, MoveOne(a, q) PROVE Step
  <2>1. "approved" \in dir[q] /\ dir' = Moved({q}, "approved", "consumed") /\ returned' = returned
    BY <1>6 DEF MoveOne, Rename, history
  <2>2. q \in op'[a].done /\ \A b \in Actors : op'[b].done \ {q} = op[b].done \ {q}
    BY <1>6 DEF MoveOne, Enter, ApprovalsTypeOK, Operations
  <2>3. /\ \A r \in Requests \ {q} : dir'[r] = dir[r]
        /\ dir'[q] = (dir[q] \ {"approved"}) \cup {"consumed"}
    BY <2>1 DEF Moved
  <2>4. ASSUME q \notin returned PROVE Standing'[q] = Standing[q]
    <3>1. \A d \in dir[q] \ {"scratch"} : d = "approved"
      BY <2>1, <2>4 DEF RequestIsSound, OneAnswer
    <3>2. "denied" \notin dir'[q] /\ InFlight(q)'
      BY <2>2, <2>3, <3>1 DEF InFlight
    <3>3. Standing'[q] = "approved"
      BY <2>1, <2>4, <3>2 DEF Standing, InFlight
    <3> QED
      BY <2>1, <2>4, <3>3, StandingByPlace
  <2> QED
    BY <2>1, <2>2, <2>3, <2>4, OneFileMoves
<1>7. ASSUME NEW q \in Requests, RollBack(a, q) PROVE Step
  <2>1. /\ op[a].step = "undo" /\ q \in op[a].done /\ lock = a /\ returned' = returned
        /\ "consumed" \in dir[q] /\ op[a] \in Operations
    BY <1>7 DEF RollBack, At, ActorIsSound, ReadIsFresh, ApprovalsTypeOK, Locked
  <2>2. [op[a] EXCEPT !.done = @ \ {q}].done = op[a].done \ {q}
    BY <2>1 DEF Operations
  <2>3. /\ op'[a].done = op[a].done \ {q} /\ \A b \in Actors \ {a} : op'[b] = op[b]
        /\ \A b \in Actors : op'[b].done \subseteq op[b].done
    BY <1>7, <2>2 DEF RollBack, Enter, ApprovalsTypeOK
  <2>4. CASE Rename({q}, "consumed", "approved")
    <3>1. /\ \A r \in Requests \ {q} : dir'[r] = dir[r]
          /\ dir'[q] = (dir[q] \ {"consumed"}) \cup {"approved"}
      BY <2>4 DEF Rename, Moved
    <3>2. InFlight(q) /\ ~InFlight(q)'
      <4>1. \A b \in Actors \ {a} : op[b].done = {}
        BY <2>1, NobodySpends
      <4> QED
        BY <2>1, <2>3, <4>1 DEF InFlight
    <3>3. ASSUME q \notin returned PROVE Standing'[q] = Standing[q]
      <4>1. \A d \in dir[q] \ {"scratch"} : d = "consumed"
        BY <2>1, <3>3 DEF RequestIsSound, OneAnswer
      <4>2. Standing'[q] = "approved"
        BY <2>1, <3>1, <3>2, <3>3, <4>1 DEF Standing, InFlight
      <4> QED
        BY <2>1, <3>2, <3>3, <4>2, StandingByPlace
    <3>4. \A b \in Actors : op'[b].done \ {q} = op[b].done \ {q}
      BY <2>3
    <3> QED
      BY <2>1, <3>1, <3>3, <3>4, OneFileMoves
  <2>5. CASE UNCHANGED <<dir, kept>>
    BY <2>1, <2>3, <2>5, FilesStay, NoRenameKeepsContract
  <2> QED
    BY <1>7, <2>4, <2>5 DEF RollBack
<1> QED
  BY <1>1, <1>2, <1>3, <1>4, <1>5, <1>6, <1>7 DEF SpendingStep

\* A power loss unsettles the requests it displaces and uses up what was in
\* flight.
LEMMA PowerLossKeepsContract ==
    ASSUME Inv, Inv', PowerLoss
    PROVE  Step
<1> DEFINE used == (Taken(Actors) \cap Requests) \ returned'
           lost == returned' \cap Requests
<1> USE DEF Inv
<1>1. /\ returned' = returned \cup Displaced(dir')
      /\ \A q \in Requests : dir'[q] \in kept[q]
      /\ \A a \in Actors : op'[a].done = {}
  BY DEF PowerLoss, Idle
<1>2. \A q \in Requests : ~InFlight(q)' /\ (InFlight(q) <=> q \in Taken(Actors))
  BY <1>1 DEF InFlight, Taken
<1>3. ASSUME NEW q \in Requests
      PROVE  /\ dir'[q] = {} <=> dir[q] = {}
             /\ q \notin returned' => SamePlace(q)
  <2>1. dir'[q] = {} <=> dir[q] = {}
    BY <1>1 DEF RequestIsSound, MayBe
  <2> QED
    BY <1>1, <2>1 DEF SamePlace, Displaced
<1>4. ASSUME NEW q \in lost PROVE Standing[q] # "unknown" /\ Standing'[q] = "unsettled"
  <2>1. q \in Requests /\ q \in returned'
    OBVIOUS
  <2>2. q \in returned => Standing[q] = "unsettled"
    BY <2>1 DEF Standing
  <2>3. q \notin returned => dir[q] # {}
    BY <1>1, <1>3, <2>1 DEF Displaced
  <2> QED
    BY <2>1, <2>2, <2>3, StandingByPlace DEF Standing
<1>5. ASSUME NEW q \in used PROVE Standing[q] = "approved" /\ Standing'[q] = "consumed"
  <2>1. q \in Requests /\ q \notin returned' /\ q \notin returned /\ InFlight(q)
    BY <1>1, <1>2
  <2>2. "consumed" \in dir[q]
    BY <2>1 DEF ActorIsSound, ReadIsFresh, OperationIsSound, InFlight
  <2>3. \A d \in dir[q] \ {"scratch"} : d = "consumed"
    BY <2>1, <2>2 DEF RequestIsSound, OneAnswer
  <2>4. "consumed" \in dir'[q] /\ "denied" \notin dir'[q]
    BY <1>3, <2>1, <2>2, <2>3 DEF SamePlace
  <2>5. Standing'[q] = "consumed"
    BY <1>2, <2>1, <2>4 DEF Standing, InFlight
  <2> QED
    BY <2>1, <2>2, <2>5, StandingByPlace
<1>6. ASSUME NEW q \in (Requests \ lost) \ used PROVE Standing'[q] = Standing[q]
  BY <1>2, <1>3, StandingKept
<1>7. lost \in SUBSET Requests /\ used \in SUBSET Requests
  OBVIOUS
<1> HIDE DEF lost, used
<1>8. Standing' = [q \in Requests |-> Standing'[q]]
  BY DEF Standing
<1>9. Standing' = [q \in Requests |-> IF q \in lost THEN "unsettled"
                                      ELSE IF q \in used THEN "consumed"
                                      ELSE Standing[q]]
  BY <1>4, <1>5, <1>6, <1>8
<1>10. Contract!Outage(lost, used)
  BY <1>4, <1>5, <1>9 DEF Contract!Outage
<1> QED
  BY <1>7, <1>10 DEF Step, Contract!ConsentNext

\* The remaining steps rename nothing.
LEMMA OtherStepsKeepContract ==
    ASSUME Inv, Inv',
           \/ \E a \in Actors :
                \/ \E q \in Requests, e \in Executions \cup {None}, s \in Sessions :
                     Submit(a, q, e, s)
                \/ RevocationStep(a) \/ ReadingStep(a) \/ CutShort(a)
           \/ \E w \in Workers : WorkerWaits(w)
           \/ UNCHANGED vars
    PROVE  Step
<1>1. UNCHANGED <<dir, returned>>
  BY DEF Submit, RevocationStep, Revoke, RevokeAfterSweep, StoreGenerations, RevokeExhausted,
         SyncGenerations, ReadingStep, ScanOne, AnswerUnknown, BeginScan, CutShort, WorkerWaits,
         vars, files, history
<1>2. \A b \in Actors : op'[b].done \subseteq op[b].done
  <2>1. ASSUME NEW a \in Actors,
               \/ \E q \in Requests, e \in Executions \cup {None}, s \in Sessions :
                    Submit(a, q, e, s)
               \/ RevocationStep(a) \/ ReadingStep(a) \/ CutShort(a)
        PROVE  \A b \in Actors : op'[b].done \subseteq op[b].done
    <3>1. \E o : Enter(a, o) /\ o.done \subseteq op[a].done
      <4> DEFINE Harmless(o) == o.done \subseteq op[a].done
      <4>1. Harmless(Idle)
        BY DEF Idle
      <4>2. CASE \E q \in Requests, e \in Executions \cup {None}, s \in Sessions :
                   Submit(a, q, e, s)
        <5>1. PICK q \in Requests : Enter(a, [Idle EXCEPT !.step = "submit", !.req = q])
          BY <4>2 DEF Submit
        <5>2. [Idle EXCEPT !.step = "submit", !.req = q].done = Idle.done
          BY IdleIsAnOperation DEF Operations
        <5> QED
          BY <4>1, <5>1, <5>2
      <4>3. ASSUME NEW word, NEW s, StoreGenerations(a, word, s)
            PROVE  \E o : Enter(a, o) /\ Harmless(o)
        <5>1. [Idle EXCEPT !.step = "sync", !.subject = s, !.word = word].done = Idle.done
          BY IdleIsAnOperation DEF Operations
        <5> QED
          BY <4>1, <4>3, <5>1 DEF StoreGenerations
      <4>4. CASE RevocationStep(a)
        BY <4>1, <4>3, <4>4 DEF RevocationStep, Revoke, RevokeAfterSweep, RevokeExhausted,
           SyncGenerations, Leave
      <4>5. ASSUME NEW q \in Scanned, BeginScan(a, q)
            PROVE  \E o : Enter(a, o) /\ Harmless(o)
        <5>1. [Idle EXCEPT !.step = "scan", !.req = q, !.at = 1].done = Idle.done
          BY IdleIsAnOperation DEF Operations
        <5> QED
          BY <4>1, <4>5, <5>1 DEF BeginScan
      <4>6. \A w : Harmless([op[a] EXCEPT !.at = @ + 1, !.word = w])
        BY DEF Inv, ApprovalsTypeOK, Operations
      <4>7. CASE ReadingStep(a) \/ CutShort(a)
        BY <4>1, <4>5, <4>6, <4>7 DEF ReadingStep, ScanOne, AnswerUnknown, CutShort, Leave
      <4> QED
        BY <2>1, <4>2, <4>4, <4>7
    <3> QED
      BY <3>1, DoneShrinks DEF Inv
  <2>2. CASE (\E w \in Workers : WorkerWaits(w)) \/ UNCHANGED vars
    BY <2>2 DEF WorkerWaits, vars
  <2> QED
    BY <2>1, <2>2
<1> QED
  BY <1>1, <1>2, FilesStay, NoRenameKeepsContract

\* Every step of the store is a step of the contract or none.
LEMMA ContractStep == Inv /\ Inv' /\ [Next]_vars => Step
  BY WritePendingKeepsContract, DecisionKeepsContract, RetirementKeepsContract,
     SpendingKeepsContract, PowerLossKeepsContract, OtherStepsKeepContract
     DEF Next, FilingStep

\* Nothing is filed initially.
LEMMA ContractInit == Init => Contract!ConsentInit
<1> SUFFICES ASSUME Init PROVE Standing = [q \in Requests |-> "unknown"]
  BY DEF Contract!ConsentInit
<1>1. \A a \in Actors : op[a].done = {}
  BY DEF Init, Idle
<1>2. returned = {} /\ \A q \in Requests : dir[q] = {}
  BY DEF Init
<1> QED
  BY <1>1, <1>2 DEF Standing

\* The files of the approval store implement the contract: one filing, one
\* answer, and what was refused or used up stays so, until a power loss
\* unsettles it.
THEOREM ApprovalsImplementContract == Spec => KeepsConsentContract
<1>1. Spec => []Inv
  BY ApprovalsInvariant
<1> QED
  BY <1>1, ContractInit, ContractStep, PTL
     DEF Spec, Step, KeepsConsentContract, Contract!ConsentSpec

-----------------------------------------------------------------------------
\* Counters only rise.

\* Among naturals that are bounded one is the greatest.
LEMMA GreatestIsABound ==
    ASSUME NEW n \in Nat, NEW S \in SUBSET (0 .. n), S # {}
    PROVE  Greatest(S) \in S /\ \A m \in S : m <= Greatest(S)
<1> DEFINE R == OpToRel(<, Nat)
           T == {k \in Nat : n - k \in S}
<1>1. T \subseteq Nat /\ T # {}
  <2>1. PICK m \in S : m \in 0 .. n
    OBVIOUS
  <2>2. n - m \in Nat /\ n - (n - m) = m
    BY <2>1
  <2>3. n - m \in T
    BY <2>1, <2>2
  <2> QED
    BY <2>3
<1>2. \A k, l \in Nat : <<k, l>> \in R <=> k < l
  BY DEF OpToRel
<1>3. IsWellFoundedOn(R, Nat)
  BY NatLessThanWellFounded
<1> HIDE DEF R
<1>4. PICK x \in T : \A y \in T : ~(<<y, x>> \in R)
  <2> HIDE DEF T
  <2> QED
    BY <1>1, <1>3, WFMin
<1>5. n - x \in S /\ \A m \in S : m <= n - x
  <2>1. ASSUME NEW m \in S PROVE m <= n - x
    <3>1. n - m \in Nat /\ n - (n - m) = m /\ m \in 0 .. n
      OBVIOUS
    <3>2. n - m \in T
      BY <3>1
    <3>3. ~(n - m < x)
      BY <1>2, <1>4, <3>1, <3>2
    <3> QED
      BY <3>1, <3>3
  <2> QED
    BY <2>1
<1> QED
  BY <1>5 DEF Greatest

\* What a session's counter becomes.
CurrentIn(g, s) == Greatest({g.owner, g.session[s]})

\* A revocation lets no counter fall, and raises those that it covers.
LEMMA RaisedRises ==
    ASSUME Fits(gens), NEW word \in {"owner", "session"}, NEW s \in Sessions,
           Fits(Raised(word, s)), NEW t \in Sessions
    PROVE  /\ CurrentIn(Raised(word, s), t) >= Current(t)
           /\ Covers(word, s, t) => CurrentIn(Raised(word, s), t) > Current(t)
<1>1. \A u \in Sessions : /\ gens.owner \in Nat /\ gens.session[u] \in Nat
                          /\ Current(u) \in {gens.owner, gens.session[u]}
                          /\ Current(u) >= gens.owner /\ Current(u) >= gens.session[u]
  BY CurrentIsNatural
<1>2. CASE word = "owner"
  <2> DEFINE S == {gens.owner} \cup {gens.session[u] : u \in Sessions}
             n == 1 + Greatest(S)
  <2>1. S \in SUBSET (0 .. MaxGeneration) /\ S # {}
    BY DEF Fits, Counters
  <2>2. Greatest(S) \in Nat /\ \A m \in S : m <= Greatest(S)
    <3> HIDE DEF S
    <3>1. Greatest(S) \in S /\ \A m \in S : m <= Greatest(S)
      BY <2>1, GreatestIsABound, LimitsAreNatural
    <3>2. Greatest(S) \in 0 .. MaxGeneration
      BY <2>1, <3>1
    <3> HIDE <2>1
    <3> QED
      BY <3>1, <3>2, LimitsAreNatural
  <2>3. gens.owner \in S /\ gens.session[t] \in S
    OBVIOUS
  <2>4. /\ Raised(word, s).owner = n
        /\ Raised(word, s).session = [u \in Sessions |-> 0]
    BY <1>2 DEF Raised
  <2> HIDE DEF S
  <2>5. CurrentIn(Raised(word, s), t) >= n
    <3>1. Raised(word, s).session[t] = 0
      BY <2>4
    <3> QED
      BY <2>2, <2>4, <3>1, GreaterOfTwo DEF CurrentIn
  <2>6. CurrentIn(Raised(word, s), t) \in Nat
    <3>1. Raised(word, s).session[t] = 0
      BY <2>4
    <3> QED
      BY <2>2, <2>4, <3>1, GreaterOfTwo DEF CurrentIn
  <2> QED
    BY <1>1, <2>2, <2>3, <2>5, <2>6
<1>3. CASE word = "session"
  <2>1. Raised(word, s) = [gens EXCEPT !.session[s] = 1 + Current(s)]
    BY <1>3 DEF Raised
  <2>2. gens \in [owner : Counters, session : [Sessions -> Counters]]
    BY DEF Fits
  <2>3. /\ Raised(word, s).owner = gens.owner
        /\ Raised(word, s).session[t] = IF t = s THEN 1 + Current(s) ELSE gens.session[t]
    BY <2>1, <2>2
  <2>4. CASE t = s
    <3>1. CurrentIn(Raised(word, s), t) >= 1 + Current(s) /\ CurrentIn(Raised(word, s), t) \in Nat
      <4>1. 1 + Current(s) \in Nat
        BY <1>1
      <4>2. CurrentIn(Raised(word, s), t) = Greatest({gens.owner, 1 + Current(s)})
        BY <2>3, <2>4 DEF CurrentIn
      <4> QED
        BY <1>1, <4>1, <4>2, GreaterOfTwo
    <3> QED
      BY <1>1, <2>4, <3>1
  <2>5. CASE t # s
    <3>1. CurrentIn(Raised(word, s), t) = Current(t)
      BY <2>3, <2>5 DEF CurrentIn, Current
    <3> QED
      BY <1>1, <1>3, <2>5, <3>1 DEF Covers
  <2> QED
    BY <2>4, <2>5
<1> QED
  BY <1>2, <1>3

-----------------------------------------------------------------------------
\* The invariant.

Granted(q) == rec[q].duration # "none"

\* What was granted carries a generation that its session has reached; what a
\* revocation covers, acknowledged or still to be synced, one that its session
\* has left behind.  A reader sees what the disk holds except in between.
RevocationIsSound ==
    /\ revoked \subseteq Requests
    /\ (\A a \in Actors : ~At(a, "sync")) => disk = gens
    /\ \A q \in Requests : Granted(q) => rec[q].mint <= Current(rec[q].session)
    /\ \A q \in revoked : Granted(q) /\ rec[q].mint < Current(rec[q].session)
    /\ \A a \in Actors, q \in Requests :
         At(a, "sync") /\ Granted(q) /\ Covers(op[a].word, op[a].subject, rec[q].session)
             => rec[q].mint < Current(rec[q].session)
    /\ \A a \in Actors : At(a, "spend") => op[a].req \notin revoked

\* The session of a granted request, and its generation.
LEMMA GrantedHasSession ==
    ASSUME Inv, NEW q \in Requests, Granted(q)
    PROVE  /\ rec[q].session \in Sessions /\ rec[q].mint \in Nat /\ dir[q] # {}
           /\ Current(rec[q].session) \in Nat
<1>1. dir[q] # {} /\ rec[q].session \in Sessions
  BY DEF Inv, RequestIsSound, Granted
<1>2. rec[q].mint \in Nat
  BY DEF Inv, ApprovalsTypeOK, Records
<1>3. Current(rec[q].session) \in Nat
  BY <1>1, CurrentIsNatural DEF Inv, ApprovalsTypeOK
<1> QED
  BY <1>1, <1>2, <1>3

\* Steps that neither grant, revoke nor find a grant.
LEMMA QuietKeepsRevocation ==
    ASSUME Inv, RevocationIsSound, UNCHANGED <<gens, disk, revoked>>,
           \A q \in Requests :
               \/ rec'[q].duration = "none" /\ ~Granted(q)
               \/ /\ rec'[q].duration = rec[q].duration
                  /\ rec'[q].session = rec[q].session /\ rec'[q].mint = rec[q].mint,
           \A a \in Actors : At(a, "sync") => op'[a] = op[a],
           \A a \in Actors : op'[a].step \in {"sync", "spend"} => op'[a] = op[a]
    PROVE  RevocationIsSound'
<1> USE DEF RevocationIsSound
<1>1. \A q \in Requests : Granted(q)' <=> Granted(q)
  BY DEF Granted
<1>2. ASSUME NEW q \in Requests, Granted(q)
      PROVE  /\ rec'[q].session = rec[q].session /\ rec'[q].mint = rec[q].mint
             /\ Current(rec[q].session)' = Current(rec[q].session)
  BY <1>2 DEF Current
<1>3. \A q \in Requests : Granted(q)' => rec'[q].mint <= Current(rec[q].session)'
  BY <1>1, <1>2
<1>4. \A q \in revoked' : Granted(q)' /\ rec'[q].mint < Current(rec[q].session)'
  BY <1>1, <1>2
<1>5. (\A a \in Actors : ~At(a, "sync")') => disk' = gens'
  BY DEF At
<1>6. ASSUME NEW a \in Actors, NEW q \in Requests, At(a, "sync")', Granted(q)',
             Covers(op'[a].word, op'[a].subject, rec'[q].session)
      PROVE  rec'[q].mint < Current(rec[q].session)'
  BY <1>1, <1>2, <1>6 DEF At
<1>7. \A a \in Actors : At(a, "spend")' => op'[a].req \notin revoked'
  BY DEF At
<1> QED
  BY <1>1, <1>3, <1>4, <1>5, <1>6, <1>7 DEF Granted

-----------------------------------------------------------------------------
\* The steps.

\* An approval grants at the counter that a reader sees.
LEMMA WriteApprovedKeepsRevocation ==
    ASSUME Inv, RevocationIsSound, NEW a \in Actors, WriteApproved(a)
    PROVE  RevocationIsSound'
<1> USE DEF RevocationIsSound
<1>1. PICK q \in Requests : q = op[a].req /\ rec[q].session \in Sessions
  BY DEF WriteApproved, Inv, ActorIsSound, HasItsFile, RequestIsSound, Deciding, Judging, At
<1>2. /\ UNCHANGED <<gens, disk>> /\ revoked' = revoked \ {q}
      /\ Enter(a, [op[a] EXCEPT !.step = "granted"])
      /\ rec' = [rec EXCEPT ![q].mint = Current(rec[q].session), ![q].uses = UsesOf(op[a].word),
                            ![q].duration = op[a].word]
  BY <1>1 DEF WriteApproved
<1>3. /\ \A r \in Requests \ {q} : rec'[r] = rec[r]
      /\ rec'[q].session = rec[q].session /\ rec'[q].mint = Current(rec[q].session)
  BY <1>2 DEF Inv, ApprovalsTypeOK, Records
<1>4. \A b \in Actors : ~At(b, "sync") /\ ~At(b, "spend") /\ ~At(b, "sync")' /\ ~At(b, "spend")'
  <2>1. \A b \in Actors : op[b] \in Operations /\ ~At(b, "sync") /\ ~At(b, "spend")
    BY DEF WriteApproved, Inv, ApprovalsTypeOK, At, Locked
  <2>2. op'[a].step = "granted" /\ \A b \in Actors \ {a} : op'[b] = op[b]
    BY <1>2, <2>1 DEF Enter, Inv, ApprovalsTypeOK, Operations
  <2> QED
    BY <2>1, <2>2 DEF At
<1>5. \A r \in Requests : rec'[r].session = rec[r].session
  BY <1>3
<1>6. \A r \in Requests : Current(rec[r].session)' = Current(rec[r].session)
  BY <1>2, <1>5 DEF Current
<1>7. Current(rec[q].session) \in Nat
  BY <1>1, CurrentIsNatural DEF Inv, ApprovalsTypeOK
<1>8. \A r \in Requests : Granted(r)' => rec'[r].mint <= Current(rec[r].session)'
  BY <1>3, <1>6, <1>7 DEF Granted
<1>9. \A r \in revoked' : Granted(r)' /\ rec'[r].mint < Current(rec[r].session)'
  BY <1>2, <1>3, <1>6 DEF Granted
<1> QED
  BY <1>2, <1>4, <1>8, <1>9

\* A revocation leaves what it covers behind.
LEMMA StoreKeepsRevocation ==
    ASSUME Inv, RevocationIsSound, NEW a \in Actors, NEW word \in {"owner", "session"},
           NEW s \in Sessions, StoreGenerations(a, word, s)
    PROVE  RevocationIsSound'
<1> DEFINE o == [Idle EXCEPT !.step = "sync", !.subject = s, !.word = word]
<1> USE DEF RevocationIsSound
<1>1. o \in Operations /\ o.step = "sync" /\ o.subject = s /\ o.word = word
  BY IdleIsAnOperation DEF Operations, Steps, Idle
<1>2. Enter(a, o) /\ lock = None /\ gens' = Raised(word, s) /\ Fits(Raised(word, s))
      /\ UNCHANGED <<rec, revoked>>
  BY DEF StoreGenerations, Acquire, files, history
<1> HIDE DEF o
<1>3. op'[a] = o /\ \A b \in Actors \ {a} : op'[b] = op[b]
  BY <1>1, <1>2, Entering DEF Inv
<1>4. \A b \in Actors : op[b].step \notin Locked
  BY <1>2, NamesAreDistinct DEF Inv, ApprovalsTypeOK
<1>5. At(a, "sync")' /\ \A b \in Actors : ~At(b, "spend")' /\ (b # a => ~At(b, "sync")')
  BY <1>1, <1>3, <1>4 DEF At, Locked
<1>6. ASSUME NEW q \in Requests, Granted(q)
      PROVE  /\ Current(rec[q].session)' >= Current(rec[q].session)
             /\ Covers(word, s, rec[q].session) =>
                  Current(rec[q].session)' > Current(rec[q].session)
             /\ Current(rec[q].session)' \in Nat
             /\ Current(rec[q].session) \in Nat /\ rec[q].mint \in Nat
  <2>1. /\ rec[q].session \in Sessions /\ rec[q].mint \in Nat
        /\ Current(rec[q].session) \in Nat
    BY <1>6, GrantedHasSession
  <2>2. Current(rec[q].session)' = CurrentIn(Raised(word, s), rec[q].session)
    BY <1>2 DEF Current, CurrentIn
  <2>3. CurrentIn(Raised(word, s), rec[q].session) \in Nat
    <3>1. /\ Raised(word, s).owner \in Nat
          /\ Raised(word, s).session[rec[q].session] \in Nat
      BY <1>2, <2>1, LimitsAreNatural DEF Fits, Counters
    <3> QED
      BY <3>1, GreaterOfTwo DEF CurrentIn
  <2> QED
    BY <1>2, <2>1, <2>2, <2>3, RaisedRises DEF Inv, ApprovalsTypeOK
<1>7. \A q \in Requests : Granted(q)' => rec'[q].mint <= Current(rec[q].session)'
  BY <1>2, <1>6 DEF Granted
<1>8. \A q \in revoked' : Granted(q)' /\ rec'[q].mint < Current(rec[q].session)'
  BY <1>2, <1>6 DEF Granted
<1>9. ASSUME NEW b \in Actors, NEW q \in Requests, At(b, "sync")', Granted(q)',
             Covers(op[b].word, op[b].subject, rec[q].session)'
      PROVE  (rec[q].mint < Current(rec[q].session))'
  <2>1. b = a /\ Granted(q) /\ Covers(word, s, rec[q].session)
    BY <1>1, <1>2, <1>3, <1>5, <1>9 DEF Granted, Covers
  <2> QED
    BY <1>2, <1>6, <2>1
<1> QED
  BY <1>2, <1>5, <1>7, <1>8, <1>9

\* The acknowledgement adds what the counters have left behind.
LEMMA SyncKeepsRevocation ==
    ASSUME Inv, RevocationIsSound, NEW a \in Actors, SyncGenerations(a)
    PROVE  RevocationIsSound'
<1> USE DEF RevocationIsSound
<1>1. /\ UNCHANGED <<rec, gens>> /\ disk' = gens /\ At(a, "sync")
      /\ revoked' = revoked \cup
           {q \in Requests : /\ Granted(q)
                             /\ Covers(op[a].word, op[a].subject, rec[q].session)}
  BY DEF SyncGenerations, files, Granted
<1>2. op'[a] = Idle /\ \A b \in Actors \ {a} : op'[b] = op[b]
  BY Leaving DEF SyncGenerations, Inv
<1>3. \A b \in Actors : ~At(b, "sync")' /\ ~At(b, "spend")'
  BY <1>1, <1>2 DEF Inv, ApprovalsTypeOK, At, Locked, Idle
<1>4. \A q \in Requests : Granted(q)' <=> Granted(q)
  BY <1>1 DEF Granted
<1>5. \A q \in Requests : Current(rec[q].session)' = Current(rec[q].session)
  BY <1>1 DEF Current
<1>6. \A q \in revoked' : Granted(q)' /\ rec'[q].mint < Current(rec[q].session)'
  BY <1>1, <1>4, <1>5
<1> QED
  BY <1>1, <1>3, <1>4, <1>5, <1>6

\* Whoever finds a grant finds one that nobody revoked.
LEMMA FindKeepsRevocation ==
    ASSUME Inv, RevocationIsSound, NEW a \in Actors, NEW q \in Requests,
           NEW e \in Executions \cup {None}, FindGrant(a, q, e)
    PROVE  RevocationIsSound'
<1> DEFINE o == [Idle EXCEPT !.step = "spend", !.req = q, !.uses = rec[q].uses]
<1> USE DEF RevocationIsSound
<1>1. rec[q].mint = Current(rec[q].session) /\ rec[q].uses \in 0 .. RepeatableUses
  BY DEF FindGrant, LoadGrant, Redeemable, Inv, ApprovalsTypeOK, Records
<1>2. q \notin revoked
  BY <1>1, GrantedHasSession
<1>3. o \in Operations /\ o.step = "spend" /\ o.req = q
  BY <1>1, IdleIsAnOperation DEF Operations, Steps, Idle
<1>4. Enter(a, o) /\ UNCHANGED <<rec, gens, disk, revoked>> /\ At(a, "idle")
  BY DEF FindGrant, LoadGrant, files, history
<1> HIDE DEF o
<1>5. op'[a] = o /\ \A b \in Actors \ {a} : op'[b] = op[b]
  BY <1>3, <1>4, Entering DEF Inv
<1>6. \A b \in Actors : /\ At(b, "sync")' <=> At(b, "sync")
                        /\ At(b, "sync") => op'[b] = op[b]
  BY <1>3, <1>4, <1>5 DEF At
<1>7. \A r \in Requests : /\ Granted(r)' <=> Granted(r)
                          /\ Current(rec[r].session)' = Current(rec[r].session)
  BY <1>4 DEF Granted, Current
<1>8. \A b \in Actors : At(b, "spend")' => op'[b].req \notin revoked'
  BY <1>2, <1>3, <1>4, <1>5 DEF At
<1>9. \A r \in revoked' : Granted(r)' /\ rec'[r].mint < Current(rec[r].session)'
  BY <1>4, <1>7
<1>10. \A b \in Actors, r \in Requests :
         At(b, "sync")' /\ Granted(r)' /\ Covers(op[b].word, op[b].subject, rec[r].session)'
             => rec'[r].mint < Current(rec[r].session)'
  BY <1>4, <1>6, <1>7 DEF Covers
<1> QED
  BY <1>4, <1>6, <1>7, <1>8, <1>9, <1>10

\* A step that leaves the records and the counters alone.
LEMMA RestingKeepsRevocation ==
    ASSUME Inv, RevocationIsSound, NEW a \in Actors,
           UNCHANGED <<rec, gens, disk, revoked>>,
           ~At(a, "sync"), op'[a].step \notin {"sync", "spend"},
           \A b \in Actors \ {a} : Undisturbed(b)
    PROVE  RevocationIsSound'
<1>1. \A q \in Requests :
        \/ rec'[q].duration = "none" /\ ~Granted(q)
        \/ /\ rec'[q].duration = rec[q].duration
           /\ rec'[q].session = rec[q].session /\ rec'[q].mint = rec[q].mint
  OBVIOUS
<1>2. \A b \in Actors \ {a} :
        op'[b].step = op[b].step /\ (op[b].step # "scan" => op'[b] = op[b])
  BY OthersGoOn DEF Inv
<1>3. \A b \in Actors : /\ At(b, "sync") => op'[b] = op[b]
                        /\ op'[b].step \in {"sync", "spend"} => op'[b] = op[b]
  BY <1>2 DEF At
<1> QED
  BY <1>1, <1>3, QuietKeepsRevocation

\* Whoever goes on with an operation disturbs nobody.
LEMMA EnteringDisturbsNobody ==
    ASSUME Inv, NEW a \in Actors, NEW o, Enter(a, o)
    PROVE  op'[a] = o /\ \A b \in Actors \ {a} : Undisturbed(b)
    BY DEF Inv, ApprovalsTypeOK, Enter, Undisturbed

\* Filing touches a record that was never granted.
LEMMA FilingKeepsRevocation ==
    ASSUME Inv, RevocationIsSound, NEW a \in Actors, FilingStep(a)
    PROVE  RevocationIsSound'
<1>1. ASSUME NEW q \in Requests, NEW e \in Executions \cup {None}, NEW s \in Sessions,
             Submit(a, q, e, s)
      PROVE  RevocationIsSound'
  <2> DEFINE n == IF e = None THEN 0 ELSE Current(s)
             r == [NoRecord EXCEPT !.exec = e, !.session = s, !.stamp = n]
             o == [Idle EXCEPT !.step = "submit", !.req = q]
  <2>1. At(a, "idle") /\ dir[q] = {} /\ rec' = [rec EXCEPT ![q] = r] /\ Enter(a, o)
        /\ UNCHANGED <<gens, disk, revoked>>
    BY <1>1 DEF Submit, history
  <2>2. r.duration = "none" /\ o.step = "submit"
    BY DEF NoRecord, Idle
  <2> HIDE DEF r, o
  <2>3. ~Granted(q)
    BY <2>1, GrantedHasSession
  <2>4. /\ \A p \in Requests \ {q} : rec'[p] = rec[p]
        /\ rec'[q].duration = "none"
    BY <2>1, <2>2 DEF Inv, ApprovalsTypeOK
  <2>5. op'[a] = o /\ \A b \in Actors \ {a} : op'[b] = op[b]
    BY <2>1 DEF Enter, Inv, ApprovalsTypeOK
  <2>6. \A b \in Actors : /\ At(b, "sync") => op'[b] = op[b]
                          /\ op'[b].step \in {"sync", "spend"} => op'[b] = op[b]
    BY <2>1, <2>2, <2>5 DEF At
  <2> QED
    BY <2>1, <2>3, <2>4, <2>6, QuietKeepsRevocation
<1>2. CASE WritePending(a)
  <2>1. op'[a] = Idle /\ \A b \in Actors \ {a} : Undisturbed(b)
    BY <1>2, Leaving DEF WritePending, Inv
  <2> QED
    BY <1>2, <2>1, RestingKeepsRevocation DEF WritePending, At, Idle, history
<1> QED
  BY <1>1, <1>2 DEF FilingStep

\* Decisions other than an approval only move files.
LEMMA DecisionKeepsRevocation ==
    ASSUME Inv, RevocationIsSound, NEW a \in Actors, DecisionStep(a)
    PROVE  RevocationIsSound'
<1>0. op[a] \in Operations /\ op \in [Actors -> Operations]
  BY DEF Inv, ApprovalsTypeOK
<1>1. ASSUME NEW q \in Requests, NEW word \in {"deny", "once", "repeat"}, Claim(a, q, word)
      PROVE  RevocationIsSound'
  <2>1. [Idle EXCEPT !.step = "judge", !.req = q, !.word = word].step = "judge"
    BY DEF Idle
  <2>2. op'[a].step = "judge" /\ \A b \in Actors \ {a} : Undisturbed(b)
    BY <1>1, <2>1, EnteringDisturbsNobody DEF Claim
  <2> QED
    BY <1>1, <2>2, RestingKeepsRevocation DEF Claim, At, history
<1>2. CASE JudgeDenied(a) \/ JudgeApproved(a) \/ WriteDenied(a)
  <2>1. \A step \in {"approve", "deny", "denied"} : [op[a] EXCEPT !.step = step].step = step
    BY <1>0 DEF Operations
  <2>2. \E step \in {"approve", "deny", "denied"} : Enter(a, [op[a] EXCEPT !.step = step])
    BY <1>2 DEF JudgeDenied, JudgeApproved, JudgeTo, WriteDenied
  <2>3. op'[a].step \in {"approve", "deny", "denied"} /\ \A b \in Actors \ {a} : Undisturbed(b)
    BY <2>1, <2>2, EnteringDisturbsNobody
  <2> QED
    BY <1>2, <2>3, RestingKeepsRevocation
       DEF JudgeDenied, JudgeApproved, JudgeTo, WriteDenied, At, files, history
<1>3. CASE JudgeRestored(a)
  <2>1. op'[a].step = "idle" /\ \A b \in Actors \ {a} : Undisturbed(b)
    BY <1>0, <1>3 DEF JudgeRestored, Idle, Undisturbed
  <2> QED
    BY <1>3, <2>1, RestingKeepsRevocation DEF JudgeRestored, At, history
<1>4. CASE DecisionEnds(a)
  <2>1. op'[a].step = "idle" /\ \A b \in Actors \ {a} : Undisturbed(b)
    BY <1>4, Leaving DEF DecisionEnds, Inv, Idle
  <2> QED
    BY <1>4, <2>1, RestingKeepsRevocation DEF DecisionEnds, At, history
<1> QED
  BY <1>1, <1>2, <1>3, <1>4, WriteApprovedKeepsRevocation DEF DecisionStep

\* Retiring an execution moves files, up to the revocation that follows.
LEMMA RetirementKeepsRevocation ==
    ASSUME Inv, RevocationIsSound, NEW a \in Actors, RetirementStep(a)
    PROVE  RevocationIsSound'
<1>1. op[a] \in Operations
  BY DEF Inv, ApprovalsTypeOK
<1>2. UNCHANGED <<rec, gens, disk, revoked>> /\ ~At(a, "sync")
  BY DEF RetirementStep, EndInvocation, WorkerEnds, SweepOne, SweepListed, WriteRefused,
         RefusalEnds, SweepEnds, SweepFails, ConsumeGrants, At, files, history
<1> DEFINE Goes == /\ op'[a].step \in {"sweep", "refuse", "refused", "grants", "revoke", "idle"}
                   /\ \A b \in Actors \ {a} : Undisturbed(b)
<1>3. ASSUME NEW o, Enter(a, o),
             o.step \in {"sweep", "refuse", "refused", "grants", "revoke", "idle"}
      PROVE  Goes
  BY <1>3, EnteringDisturbsNobody
<1> HIDE DEF Goes
<1>4. ASSUME NEW s \in {"refused", "grants"}, Enter(a, [op[a] EXCEPT !.step = s])
      PROVE  Goes
  <2>1. [op[a] EXCEPT !.step = s].step = s
    BY <1>1 DEF Operations
  <2> QED
    BY <1>3, <1>4, <2>1
<1>5. ASSUME RevokeNext(a) PROVE Goes
  <2> DEFINE o == [Idle EXCEPT !.step = "revoke", !.word = "session",
                               !.subject = SessionOf[op[a].subject]]
  <2>1. Enter(a, o)
    BY <1>5 DEF RevokeNext
  <2>2. o.step = "revoke"
    BY DEF Idle
  <2> QED
    BY <1>3, <2>1, <2>2
<1>6. ASSUME NEW e, BeginSweep(a, e)
      PROVE  Goes
  <2>1. PICK S \in SUBSET OpenOf(e) :
          Enter(a, [Idle EXCEPT !.step = "sweep", !.subject = e, !.todo = S])
    BY <1>6 DEF BeginSweep
  <2> DEFINE o == [Idle EXCEPT !.step = "sweep", !.subject = e, !.todo = S]
  <2>2. o.step = "sweep"
    BY DEF Idle
  <2> QED
    BY <1>3, <2>1, <2>2
<1>7. ASSUME NEW q \in Requests, SweepOne(a, q)
      PROVE  Goes
  <2>1. [op[a] EXCEPT !.step = "refuse", !.req = q, !.todo = @ \ {q}].step = "refuse"
    BY <1>1 DEF Operations
  <2>2. [op[a] EXCEPT !.todo = @ \ {q}].step = op[a].step
    BY <1>1 DEF Operations
  <2>3. op[a].step = "sweep"
    BY <1>7 DEF SweepOne, SweepListed, At
  <2>4. CASE Enter(a, [op[a] EXCEPT !.step = "refuse", !.req = q, !.todo = @ \ {q}])
    BY <1>3, <2>1, <2>4
  <2>5. CASE Enter(a, [op[a] EXCEPT !.todo = @ \ {q}])
    BY <1>3, <2>2, <2>3, <2>5
  <2> QED
    BY <1>7, <2>4, <2>5 DEF SweepOne, SweepListed
<1>8. ASSUME RefusalEnds(a) PROVE Goes
  <2>1. [op[a] EXCEPT !.step = "sweep", !.req = None].step = "sweep"
    BY <1>1 DEF Operations
  <2> QED
    BY <1>3, <1>8, <2>1 DEF RefusalEnds
<1>9. ASSUME ConsumeGrants(a) PROVE Goes
  <2>1. Idle.step = "idle"
    BY DEF Idle
  <2>2. Enter(a, Idle)
    BY <1>9 DEF ConsumeGrants, Leave
  <2> QED
    BY <1>3, <2>1, <2>2
<1>10. Goes
  <2>1. CASE SweepEnds(a) \/ SweepFails(a)
    BY <1>4, <1>5, <2>1 DEF SweepEnds, SweepFails
  <2> QED
    BY <1>4, <1>6, <1>7, <1>8, <1>9, <2>1
       DEF RetirementStep, EndInvocation, WorkerEnds, WriteRefused
<1> QED
  BY <1>2, <1>10, RestingKeepsRevocation DEF Goes

\* A revocation and its acknowledgement.
LEMMA RevocationKeepsRevocation ==
    ASSUME Inv, RevocationIsSound, NEW a \in Actors, RevocationStep(a)
    PROVE  RevocationIsSound'
<1>1. CASE RevokeAfterSweep(a)
  <2>1. op[a].subject \in Sessions /\ op[a].word \in {"owner", "session"}
    BY <1>1 DEF RevokeAfterSweep, Inv, ActorIsSound, OperationIsSound, At
  <2> QED
    BY <1>1, <2>1, StoreKeepsRevocation DEF RevokeAfterSweep
<1>2. CASE RevokeExhausted(a)
  <2>1. op'[a] = Idle /\ \A b \in Actors \ {a} : Undisturbed(b)
    BY <1>2, Leaving DEF RevokeExhausted, Inv
  <2> QED
    BY <1>2, <2>1, RestingKeepsRevocation DEF RevokeExhausted, At, Idle, files, history
<1> QED
  BY <1>1, <1>2, StoreKeepsRevocation, SyncKeepsRevocation DEF RevocationStep, Revoke

\* Spending touches the uses of a record and nothing else of it.
LEMMA SpendingKeepsRevocation ==
    ASSUME Inv, RevocationIsSound, NEW a \in Actors, SpendingStep(a)
    PROVE  RevocationIsSound'
<1>1. op \in [Actors -> Operations] /\ op[a] \in Operations
  BY DEF Inv, ApprovalsTypeOK
<1>2. CASE Spend(a)
  <2>1. op'[a] = Idle /\ \A b \in Actors \ {a} : op'[b] = op[b]
    BY <1>2, Leaving DEF Spend, Inv
  <2>2. UNCHANGED rec \/ \E left : rec' = [rec EXCEPT ![op[a].req].uses = left]
    BY <1>2 DEF Spend, SpendLast, SpendOne
  <2>3. \A q \in Requests :
          /\ rec'[q].duration = rec[q].duration
          /\ rec'[q].session = rec[q].session /\ rec'[q].mint = rec[q].mint
    <3>1. rec \in [Requests -> Records]
      BY DEF Inv, ApprovalsTypeOK
    <3>2. ASSUME NEW left, rec' = [rec EXCEPT ![op[a].req].uses = left], NEW q \in Requests
          PROVE  /\ rec'[q].duration = rec[q].duration
                 /\ rec'[q].session = rec[q].session /\ rec'[q].mint = rec[q].mint
      <4>1. rec[q] \in Records
        BY <3>1
      <4>2. rec'[q] = IF q = op[a].req THEN [rec[q] EXCEPT !.uses = left] ELSE rec[q]
        BY <3>1, <3>2
      <4> QED
        BY <4>1, <4>2 DEF Records
    <3> QED
      BY <2>2, <3>2
  <2>4. \A b \in Actors : /\ At(b, "sync") => op'[b] = op[b]
                          /\ op'[b].step \in {"sync", "spend"} => op'[b] = op[b]
    BY <1>2, <2>1 DEF Spend, At, Idle
  <2> QED
    BY <1>2, <2>3, <2>4, QuietKeepsRevocation DEF Spend
<1>3. ASSUME NEW S \in SUBSET Requests, FindSet(a, S) PROVE RevocationIsSound'
  <2>1. [Idle EXCEPT !.step = "set", !.todo = S].step = "set"
    BY DEF Idle
  <2>2. op'[a].step = "set" /\ \A b \in Actors \ {a} : Undisturbed(b)
    BY <1>3, <2>1, EnteringDisturbsNobody DEF FindSet, ListSet
  <2> QED
    BY <1>3, <2>2, RestingKeepsRevocation DEF FindSet, ListSet, At, files, history
<1>4. ASSUME NEW q \in Requests, MoveOne(a, q) \/ RollBack(a, q) PROVE RevocationIsSound'
  <2>1. PICK o : Enter(a, o) /\ o.step = op[a].step /\ o.step \in {"set", "undo"}
    <3>1. /\ [op[a] EXCEPT !.todo = @ \ {q}, !.done = @ \cup {q}].step = op[a].step
          /\ [op[a] EXCEPT !.done = @ \ {q}].step = op[a].step
      BY <1>1 DEF Operations
    <3> QED
      BY <1>4, <3>1 DEF MoveOne, RollBack, At
  <2>2. op'[a].step \in {"set", "undo"} /\ \A b \in Actors \ {a} : Undisturbed(b)
    BY <2>1, EnteringDisturbsNobody
  <2> QED
    BY <1>4, <2>2, RestingKeepsRevocation DEF MoveOne, RollBack, At, history
<1>5. CASE MoveFails(a)
  <2>1. [op[a] EXCEPT !.step = "undo", !.todo = {}].step = "undo"
    BY <1>1 DEF Operations
  <2>2. op'[a].step = "undo" /\ \A b \in Actors \ {a} : Undisturbed(b)
    BY <1>5, <2>1, EnteringDisturbsNobody DEF MoveFails
  <2> QED
    BY <1>5, <2>2, RestingKeepsRevocation DEF MoveFails, At, files, history
<1>6. CASE SetIsRolledBack(a) \/ SetIsSpent(a)
  <2>1. op'[a] = Idle /\ \A b \in Actors \ {a} : Undisturbed(b)
    BY <1>6, Leaving DEF SetIsRolledBack, SetIsSpent, SyncSet, Inv
  <2> QED
    BY <1>6, <2>1, RestingKeepsRevocation
       DEF SetIsRolledBack, SetIsSpent, SyncSet, At, Idle, history
<1> QED
  BY <1>2, <1>3, <1>4, <1>5, <1>6, FindKeepsRevocation DEF SpendingStep

\* Reading a status changes nothing.
LEMMA ReadingKeepsRevocation ==
    ASSUME Inv, RevocationIsSound, NEW a \in Actors, ReadingStep(a)
    PROVE  RevocationIsSound'
<1>1. op[a] \in Operations
  BY DEF Inv, ApprovalsTypeOK
<1>2. UNCHANGED <<rec, gens, disk, revoked>> /\ ~At(a, "sync")
  BY DEF ReadingStep, ScanOne, AnswerUnknown, FindsNothing, BeginScan, At, files, history
<1>3. PICK o : Enter(a, o) /\ o.step \in {"scan", "idle"}
  <2>1. /\ \A q : [Idle EXCEPT !.step = "scan", !.req = q, !.at = 1].step = "scan"
        /\ Idle.step = "idle"
    BY DEF Idle
  <2>2. \A w : [op[a] EXCEPT !.at = @ + 1, !.word = w].step = op[a].step
    BY <1>1 DEF Operations
  <2>3. CASE ScanOne(a)
    <3>1. At(a, "scan") /\ (Leave(a) \/ \E w : Enter(a, [op[a] EXCEPT !.at = @ + 1, !.word = w]))
      BY <2>3 DEF ScanOne
    <3> QED
      BY <2>1, <2>2, <3>1 DEF Leave, At
  <2>4. CASE AnswerUnknown(a)
    BY <2>1, <2>4 DEF AnswerUnknown, Leave
  <2>5. CASE \E q \in Scanned : BeginScan(a, q)
    BY <2>1, <2>5 DEF BeginScan
  <2> QED
    BY <2>3, <2>4, <2>5 DEF ReadingStep
<1>4. op'[a].step \in {"scan", "idle"} /\ \A b \in Actors \ {a} : Undisturbed(b)
  BY <1>3, EnteringDisturbsNobody
<1> QED
  BY <1>2, <1>4, RestingKeepsRevocation

\* A death between the rename and the sync of a revocation is excluded; any
\* other leaves what readers see and what the disk holds the same.
LEMMA DeathKeepsRevocation ==
    ASSUME Inv, RevocationIsSound, "sync" \in Uncut,
           (\E a \in Actors : CutShort(a)) \/ PowerLoss
    PROVE  RevocationIsSound'
<1>1. PICK A \in SUBSET Actors :
        /\ \A a \in A : ~At(a, "sync") /\ op'[a] = Idle
        /\ \A a \in Actors \ A : op'[a] = op[a]
        /\ rec' = Unfiled(A)
        /\ UNCHANGED <<gens, disk, revoked>>
  <2>1. ASSUME NEW a \in Actors, CutShort(a)
        PROVE  /\ ~At(a, "sync") /\ op'[a] = Idle /\ \A b \in Actors \ {a} : op'[b] = op[b]
               /\ rec' = Unfiled({a}) /\ UNCHANGED <<gens, disk, revoked>>
    BY <2>1, Leaving DEF CutShort, Inv, At, history
  <2>2. CASE PowerLoss
    <3>1. \A a \in Actors : ~At(a, "sync") /\ op'[a] = Idle
      BY <2>2 DEF PowerLoss, At
    <3>2. gens' = gens
      BY <2>2, <3>1 DEF PowerLoss, RevocationIsSound
    <3> QED
      BY <2>2, <3>1, <3>2 DEF PowerLoss, history
  <2>3. CASE \E a \in Actors : CutShort(a)
    <3>1. PICK a \in Actors : CutShort(a)
      BY <2>3
    <3> WITNESS {a} \in SUBSET Actors
    <3> QED
      BY <2>1, <3>1
  <2> QED
    BY <2>2, <2>3
<1>2. ASSUME NEW q \in Requests, rec'[q] # rec[q]
      PROVE  rec'[q].duration = "none" /\ ~Granted(q)
  <2>1. rec'[q] = NoRecord /\ dir[q] = {}
    BY <1>1, <1>2, UnfiledIsSound
  <2> QED
    BY <2>1, GrantedHasSession DEF NoRecord
<1>3. \A b \in Actors : /\ At(b, "sync") => op'[b] = op[b]
                        /\ op'[b].step \in {"sync", "spend"} => op'[b] = op[b]
  BY <1>1 DEF Idle
<1> QED
  BY <1>1, <1>2, <1>3, QuietKeepsRevocation

-----------------------------------------------------------------------------
\* Nothing is granted initially.
LEMMA RevocationInit == Init => RevocationIsSound
  BY DEF Init, RevocationIsSound, Granted, NoRecord, Idle, At

\* The invariant is inductive together with that of the files.
LEMMA RevocationStepKeeps ==
    ASSUME Inv, RevocationIsSound, "sync" \in Uncut, [Next]_vars
    PROVE  RevocationIsSound'
<1>1. ASSUME NEW a \in Actors,
             FilingStep(a) \/ DecisionStep(a) \/ RetirementStep(a) \/ RevocationStep(a)
             \/ SpendingStep(a) \/ ReadingStep(a)
      PROVE  RevocationIsSound'
  BY <1>1, FilingKeepsRevocation, DecisionKeepsRevocation, RetirementKeepsRevocation,
     RevocationKeepsRevocation, SpendingKeepsRevocation, ReadingKeepsRevocation
<1>2. CASE (\E a \in Actors : CutShort(a)) \/ PowerLoss
  BY <1>2, DeathKeepsRevocation
<1>3. CASE (\E w \in Workers : WorkerWaits(w)) \/ UNCHANGED vars
  <2>1. UNCHANGED <<rec, gens, disk, op, revoked>>
    BY <1>3 DEF WorkerWaits, vars, files, history
  <2> QED
    BY <2>1, QuietKeepsRevocation
<1> QED
  BY <1>1, <1>2, <1>3 DEF Next

\* If nobody dies between the rename of the generations file and the sync of
\* its directory, a grant that an acknowledged revocation covered is never
\* redeemable again, and nobody is about to redeem it.
THEOREM RevocationIsFinal ==
    ASSUME "sync" \in Uncut
    PROVE  Spec => []RevokedStaysDead
<1>1. Inv /\ RevocationIsSound => RevokedStaysDead
  <2> SUFFICES ASSUME Inv, RevocationIsSound, NEW q \in revoked
               PROVE  /\ \A e \in Executions \cup {None} : ~Redeemable(q, e)
                      /\ \A a \in Actors : At(a, "spend") => op[a].req # q
    BY DEF RevokedStaysDead
  <2>1. q \in Requests /\ Granted(q) /\ rec[q].mint < Current(rec[q].session)
    BY DEF RevocationIsSound
  <2>2. rec[q].mint # Current(rec[q].session)
    BY <2>1, GrantedHasSession
  <2> QED
    BY <2>2 DEF Redeemable, RevocationIsSound
<1>2. Inv /\ RevocationIsSound /\ [Next]_vars => RevocationIsSound'
  BY RevocationStepKeeps
<1> QED
  BY <1>1, <1>2, RevocationInit, ApprovalsInvariant, PTL DEF Spec

-----------------------------------------------------------------------------
\* Lookups.

Decided(q) == dir[q] \cap {"approved", "denied", "consumed"} # {}

\* What has misled a lookup.
Excused(a) == op[a].word \in {"restored", "unread"}

\* What a lookup has passed by: a request that was no longer in pending/ when
\* it looked there is claimed or decided, unless it was put back, and one that
\* was not in scratch/ either is decided.
ScanIsSound(a) ==
    At(a, "scan") =>
        /\ op[a].req \in Requests /\ dir[op[a].req] # {}
        /\ op[a].at > 1 =>
             Decided(op[a].req) \/ "scratch" \in dir[op[a].req] \/ Excused(a)
        /\ op[a].at > 5 => Decided(op[a].req) \/ Excused(a)

\* A file that was filed stays filed, and decided stays decided; who claimed
\* a request decides it, puts it back, or leaves it in scratch/.
Onwards(q) ==
    /\ dir'[q] # {}
    /\ Decided(q) => Decided(q)'
    /\ "scratch" \in dir[q] =>
         \/ "scratch" \in dir'[q] \/ Decided(q)'
         \/ \A a \in Actors : At(a, "scan") /\ op[a].req = q => op'[a].word = "restored"

\* A request whose files stay, or move on.
LEMMA StayingGoesOn ==
    ASSUME NEW q \in Requests, dir[q] # {}, dir'[q] = dir[q]
    PROVE  Onwards(q)
    BY DEF Onwards, Decided

LEMMA RenamingGoesOn ==
    ASSUME Inv, NEW q \in Requests, dir[q] # {}, NEW S, NEW from, NEW to \in Dirs,
           Rename(S, from, to) \/ dir' = Moved(S, from, to),
           from = "pending" \/ to \in {"approved", "denied", "consumed"}
    PROVE  Onwards(q)
<1>1. dir[q] \subseteq Dirs
  BY DEF Inv, ApprovalsTypeOK
<1>2. dir'[q] = dir[q] \/ dir'[q] = (dir[q] \ {from}) \cup {to}
  BY DEF Rename, Moved
<1> QED
  BY <1>1, <1>2 DEF Onwards, Decided, Dirs

LEMMA AnsweringGoesOn ==
    ASSUME Inv, NEW q \in Requests, dir[q] # {}, NEW r \in Requests, NEW to,
           Outcome(r, to) \/ dir' = [dir EXCEPT ![r] = @ \cup {to}]
    PROVE  Onwards(q)
<1>1. dir \in [Requests -> SUBSET Dirs]
  BY DEF Inv, ApprovalsTypeOK
<1>2. dir'[q] = dir[q] \/ dir'[q] = dir[q] \cup {to}
  BY <1>1 DEF Outcome
<1> QED
  BY <1>2 DEF Onwards, Decided

\* Only what was answered loses its file in scratch/.
LEMMA SettlingGoesOn ==
    ASSUME Inv, NEW q \in Requests, dir[q] # {}, NEW r \in Requests,
           NEW to \in {"approved", "denied"}, to \in dir[r], Settle(r, to)
    PROVE  Onwards(q)
<1>1. dir \in [Requests -> SUBSET Dirs]
  BY DEF Inv, ApprovalsTypeOK
<1>2. \/ dir'[q] = dir[q]
      \/ q = r /\ dir'[q] = dir[q] \ {"scratch"}
  BY <1>1 DEF Settle
<1>3. q = r => Decided(q)' \/ dir'[q] = dir[q]
  BY <1>2 DEF Decided
<1> QED
  BY <1>2, <1>3 DEF Onwards, Decided

\* Every step but a power loss takes requests onwards.
LEMMA FilesGoOn ==
    ASSUME Inv, Next, ~PowerLoss, NEW q \in Requests, dir[q] # {}
    PROVE  Onwards(q)
<1>1. ASSUME UNCHANGED dir PROVE Onwards(q)
  BY <1>1, StayingGoesOn
<1>2. ASSUME NEW a \in Actors, op[a].step \in Deciding
      PROVE  op[a].req \in Requests
  BY <1>2 DEF Inv, ActorIsSound, HasItsFile
<1>3. ASSUME NEW a \in Actors, FilingStep(a) PROVE Onwards(q)
  <2>1. CASE WritePending(a)
    <3>1. dir[op[a].req] = {} /\ dir \in [Requests -> SUBSET Dirs]
      BY <2>1 DEF WritePending, Inv, ActorIsSound, HasItsFile, ApprovalsTypeOK
    <3>2. dir'[q] = dir[q]
      BY <2>1, <3>1 DEF WritePending
    <3> QED
      BY <3>2, StayingGoesOn
  <2> QED
    BY <1>1, <1>3, <2>1 DEF FilingStep, Submit
<1>4. ASSUME NEW a \in Actors, DecisionStep(a) PROVE Onwards(q)
  <2>1. CASE JudgeRestored(a)
    <3>1. \A b \in Actors : At(b, "scan") /\ op[b].req = op[a].req => op'[b].word = "restored"
      <4>1. op \in [Actors -> Operations] /\ At(a, "judge")
        BY <2>1 DEF JudgeRestored, Inv, ApprovalsTypeOK
      <4>2. ASSUME NEW b \in Actors, At(b, "scan"), op[b].req = op[a].req
            PROVE  op'[b].word = "restored"
        <5>1. op'[b] = [op[b] EXCEPT !.word = "restored"]
          BY <2>1, <4>1, <4>2 DEF JudgeRestored, At
        <5>2. [op[b] EXCEPT !.word = "restored"].word = "restored"
          BY <4>1 DEF Operations
        <5> QED
          BY <5>1, <5>2
      <4> QED
        BY <4>2
    <3>2. op[a].req # q => dir'[q] = dir[q]
      BY <2>1 DEF JudgeRestored, Rename, Moved
    <3>3. dir'[q] = dir[q] \/ dir'[q] = (dir[q] \ {"scratch"}) \cup {"pending"}
      BY <2>1 DEF JudgeRestored, Rename, Moved
    <3> QED
      BY <3>1, <3>2, <3>3 DEF Onwards, Decided
  <2>2. CASE WriteApproved(a) \/ WriteDenied(a)
    <3>1. op[a].req \in Requests
      BY <1>2, <2>2 DEF WriteApproved, WriteDenied, At, Deciding, Judging
    <3> QED
      BY <2>2, <3>1, AnsweringGoesOn DEF WriteApproved, WriteDenied
  <2>3. CASE DecisionEnds(a)
    <3>1. /\ op[a].req \in Requests
          /\ At(a, "granted") => "approved" \in dir[op[a].req]
          /\ At(a, "denied") => "denied" \in dir[op[a].req]
      BY <1>2, <2>3 DEF DecisionEnds, At, Deciding, Inv, ActorIsSound, HasItsFile
    <3> QED
      BY <2>3, <3>1, SettlingGoesOn DEF DecisionEnds
  <2>4. CASE JudgeDenied(a) \/ JudgeApproved(a)
    BY <1>1, <2>4 DEF JudgeDenied, JudgeApproved, JudgeTo, files
  <2>5. ASSUME NEW r, NEW word, Claim(a, r, word) PROVE Onwards(q)
    BY <2>5, RenamingGoesOn DEF Claim, Dirs
  <2> QED
    BY <1>4, <2>1, <2>2, <2>3, <2>4, <2>5 DEF DecisionStep
<1>5. ASSUME NEW a \in Actors, RetirementStep(a) PROVE Onwards(q)
  <2>1. CASE WriteRefused(a)
    <3>1. op[a].req \in Requests
      BY <1>2, <2>1 DEF WriteRefused, At, Deciding, Judging
    <3> QED
      BY <2>1, <3>1, AnsweringGoesOn DEF WriteRefused
  <2>2. CASE RefusalEnds(a)
    <3>1. op[a].req \in Requests /\ "denied" \in dir[op[a].req]
      BY <1>2, <2>2 DEF RefusalEnds, At, Deciding, Inv, ActorIsSound, HasItsFile
    <3> QED
      BY <2>2, <3>1, SettlingGoesOn DEF RefusalEnds
  <2>3. ASSUME NEW r \in Requests, SweepOne(a, r) PROVE Onwards(q)
    BY <1>1, <2>3, RenamingGoesOn DEF SweepOne, SweepListed, files, Dirs
  <2>4. CASE ConsumeGrants(a)
    BY <1>1, <2>4, RenamingGoesOn DEF ConsumeGrants, RenameAndSync, Dirs
  <2> QED
    BY <1>1, <1>5, <2>1, <2>2, <2>3, <2>4
       DEF RetirementStep, EndInvocation, WorkerEnds, SweepEnds, SweepFails, files
<1>6. ASSUME NEW a \in Actors, SpendingStep(a) PROVE Onwards(q)
  <2>1. CASE Spend(a)
    <3>1. op[a].req \in Requests
      BY <2>1 DEF Spend, Inv, ActorIsSound, ReadIsFresh
    <3>2. ASSUME SpendLast(op[a].req) PROVE Onwards(q)
      BY <1>1, <3>2, RenamingGoesOn DEF SpendLast, RenameAndSync, Dirs
    <3>3. ASSUME NEW left, SpendOne(op[a].req, left) PROVE Onwards(q)
      BY <3>1, <3>3, AnsweringGoesOn DEF SpendOne
    <3> QED
      BY <2>1, <3>2, <3>3 DEF Spend
  <2>2. CASE \E r \in Requests : MoveOne(a, r) \/ RollBack(a, r)
    BY <1>1, <2>2, RenamingGoesOn DEF MoveOne, RollBack, Dirs
  <2> QED
    BY <1>1, <1>6, <2>1, <2>2
       DEF SpendingStep, FindGrant, LoadGrant, FindSet, ListSet, MoveFails, SetIsRolledBack,
           SetIsSpent, SyncSet, files
<1>7. ASSUME NEW a \in Actors, RevocationStep(a) \/ ReadingStep(a) \/ CutShort(a)
      PROVE  Onwards(q)
  BY <1>1, <1>7
     DEF RevocationStep, Revoke, RevokeAfterSweep, StoreGenerations, RevokeExhausted,
         SyncGenerations, ReadingStep, ScanOne, AnswerUnknown, BeginScan, CutShort, files
<1>8. CASE \E w \in Workers : WorkerWaits(w)
  BY <1>1, <1>8 DEF WorkerWaits, files
<1> QED
  BY <1>3, <1>4, <1>5, <1>6, <1>7, <1>8 DEF Next

\* A step of an actor that is not looking, and leaves a reader where it was.
Passes(b) == op'[b].step # "scan" /\ \A a \in Actors \ {b} : Undisturbed(a)

LEMMA EnteringPasses ==
    ASSUME Inv, NEW b \in Actors, NEW o, Enter(b, o), o.step # "scan"
    PROVE  Passes(b)
    BY EnteringDisturbsNobody DEF Passes

LEMMA LeavingPasses ==
    ASSUME Inv, NEW b \in Actors, Leave(b)
    PROVE  Passes(b)
<1>1. Idle.step # "scan"
  BY DEF Idle
<1> QED
  BY <1>1, EnteringPasses DEF Leave

\* Whoever goes on with its operation.
LEMMA GoingOnPasses ==
    ASSUME Inv, NEW b \in Actors,
           \/ \E s \in Steps \ {"scan"} : Enter(b, [op[b] EXCEPT !.step = s])
           \/ \E q : Enter(b, [op[b] EXCEPT !.step = "refuse", !.req = q, !.todo = @ \ {q}])
           \/ Enter(b, [op[b] EXCEPT !.step = "sweep", !.req = None])
           \/ Enter(b, [op[b] EXCEPT !.step = "undo", !.todo = {}])
           \/ /\ op[b].step # "scan"
              /\ \E q : \/ Enter(b, [op[b] EXCEPT !.todo = @ \ {q}])
                        \/ Enter(b, [op[b] EXCEPT !.done = @ \ {q}])
                        \/ Enter(b, [op[b] EXCEPT !.todo = @ \ {q}, !.done = @ \cup {q}])
    PROVE  Passes(b)
<1>1. op \in [Actors -> Operations] /\ op[b] \in Operations
  BY DEF Inv, ApprovalsTypeOK
<1>2. op'[b].step # "scan"
  <2>1. ASSUME NEW o, Enter(b, o) PROVE op'[b] = o
    BY <1>1, <2>1 DEF Enter
  <2>2. ASSUME NEW s \in Steps \ {"scan"}, Enter(b, [op[b] EXCEPT !.step = s])
        PROVE  op'[b].step # "scan"
    BY <1>1, <2>1, <2>2 DEF Operations
  <2>3. ASSUME NEW q,
               Enter(b, [op[b] EXCEPT !.step = "refuse", !.req = q, !.todo = @ \ {q}])
        PROVE  op'[b].step # "scan"
    BY <1>1, <2>1, <2>3 DEF Operations
  <2>4. ASSUME NEW q, op[b].step # "scan",
               \/ Enter(b, [op[b] EXCEPT !.todo = @ \ {q}])
               \/ Enter(b, [op[b] EXCEPT !.done = @ \ {q}])
               \/ Enter(b, [op[b] EXCEPT !.todo = @ \ {q}, !.done = @ \cup {q}])
        PROVE  op'[b].step # "scan"
    BY <1>1, <2>1, <2>4 DEF Operations
  <2>5. CASE \/ Enter(b, [op[b] EXCEPT !.step = "sweep", !.req = None])
             \/ Enter(b, [op[b] EXCEPT !.step = "undo", !.todo = {}])
    BY <1>1, <2>1, <2>5 DEF Operations
  <2> QED
    BY <2>2, <2>3, <2>4, <2>5
<1>3. \E o : Enter(b, o)
  OBVIOUS
<1>4. \A a \in Actors \ {b} : Undisturbed(a)
  BY <1>3, EnteringDisturbsNobody
<1> QED
  BY <1>2, <1>4 DEF Passes

\* Whoever begins an operation other than a lookup.
LEMMA BeginningPasses ==
    ASSUME Inv, NEW b \in Actors,
           \/ \E q : Enter(b, [Idle EXCEPT !.step = "submit", !.req = q])
           \/ \E q, word : Enter(b, [Idle EXCEPT !.step = "judge", !.req = q, !.word = word])
           \/ \E e, S : Enter(b, [Idle EXCEPT !.step = "sweep", !.subject = e, !.todo = S])
           \/ \E s : Enter(b, [Idle EXCEPT !.step = "revoke", !.word = "session",
                                           !.subject = s])
           \/ \E s, word : Enter(b, [Idle EXCEPT !.step = "sync", !.subject = s,
                                                 !.word = word])
           \/ \E q, n : Enter(b, [Idle EXCEPT !.step = "spend", !.req = q, !.uses = n])
           \/ \E S : Enter(b, [Idle EXCEPT !.step = "set", !.todo = S])
    PROVE  Passes(b)
<1>1. op \in [Actors -> Operations]
  BY DEF Inv, ApprovalsTypeOK
<1>2. op'[b].step # "scan"
  BY <1>1 DEF Enter, Idle
<1>3. \E o : Enter(b, o)
  OBVIOUS
<1>4. \A a \in Actors \ {b} : Undisturbed(a)
  BY <1>3, EnteringDisturbsNobody
<1> QED
  BY <1>2, <1>4 DEF Passes

\* Nobody but a reader goes on to look.
LEMMA OthersPass ==
    ASSUME Inv, NEW b \in Actors,
           FilingStep(b) \/ DecisionStep(b) \/ RetirementStep(b) \/ RevocationStep(b)
           \/ SpendingStep(b) \/ CutShort(b)
    PROVE  Passes(b)
<1>1. CASE FilingStep(b) \/ CutShort(b)
  BY <1>1, BeginningPasses, LeavingPasses DEF FilingStep, Submit, WritePending, CutShort
<1>2. CASE DecisionStep(b)
  <2>1. CASE JudgeRestored(b)
    <3>1. op \in [Actors -> Operations]
      BY DEF Inv, ApprovalsTypeOK
    <3>2. op'[b].step # "scan" /\ \A a \in Actors \ {b} : Undisturbed(a)
      BY <2>1, <3>1 DEF JudgeRestored, Undisturbed, Idle
    <3> QED
      BY <3>2 DEF Passes
  <2>2. ASSUME NEW s \in {"approve", "deny", "granted", "denied"},
               Enter(b, [op[b] EXCEPT !.step = s])
        PROVE  Passes(b)
    BY <2>2, GoingOnPasses DEF Steps
  <2>3. CASE JudgeDenied(b) \/ JudgeApproved(b) \/ WriteApproved(b) \/ WriteDenied(b)
    BY <2>2, <2>3 DEF JudgeDenied, JudgeApproved, JudgeTo, WriteApproved, WriteDenied
  <2> QED
    BY <1>2, <2>1, <2>3, BeginningPasses, LeavingPasses DEF DecisionStep, Claim, DecisionEnds
<1>3. CASE RetirementStep(b)
  <2>1. ASSUME NEW s \in {"refused", "grants"}, Enter(b, [op[b] EXCEPT !.step = s])
        PROVE  Passes(b)
    BY <2>1, GoingOnPasses DEF Steps
  <2>2. ASSUME RevokeNext(b) PROVE Passes(b)
    BY <2>2, BeginningPasses DEF RevokeNext
  <2>3. ASSUME NEW e, BeginSweep(b, e) PROVE Passes(b)
    BY <2>3, BeginningPasses DEF BeginSweep
  <2>4. ASSUME NEW q \in Requests, SweepOne(b, q) PROVE Passes(b)
    <3>1. op[b].step = "sweep"
      BY <2>4 DEF SweepOne, SweepListed, At
    <3>2. CASE Enter(b, [op[b] EXCEPT !.step = "refuse", !.req = q, !.todo = @ \ {q}])
      BY <3>2, GoingOnPasses DEF Steps
    <3>3. CASE Enter(b, [op[b] EXCEPT !.todo = @ \ {q}])
      BY <3>1, <3>3, GoingOnPasses DEF Steps
    <3> QED
      BY <2>4, <3>2, <3>3 DEF SweepOne, SweepListed
  <2>5. CASE RefusalEnds(b)
    BY <2>5, GoingOnPasses DEF RefusalEnds, Steps
  <2>6. CASE SweepEnds(b) \/ SweepFails(b)
    BY <2>1, <2>2, <2>6 DEF SweepEnds, SweepFails
  <2>7. CASE WriteRefused(b)
    BY <2>1, <2>7 DEF WriteRefused
  <2>8. CASE ConsumeGrants(b)
    BY <2>8, LeavingPasses DEF ConsumeGrants
  <2> QED
    BY <1>3, <2>3, <2>4, <2>5, <2>6, <2>7, <2>8 DEF RetirementStep, EndInvocation, WorkerEnds
<1>4. CASE RevocationStep(b)
  BY <1>4, BeginningPasses, LeavingPasses
     DEF RevocationStep, Revoke, RevokeAfterSweep, StoreGenerations, RevokeExhausted,
         SyncGenerations
<1>5. CASE SpendingStep(b)
  <2>1. ASSUME NEW q, MoveOne(b, q) PROVE Passes(b)
    <3>1. op[b].step = "set" /\ Enter(b, [op[b] EXCEPT !.todo = @ \ {q}, !.done = @ \cup {q}])
      BY <2>1 DEF MoveOne, At
    <3> QED
      BY <3>1, GoingOnPasses DEF Steps
  <2>2. ASSUME NEW q, RollBack(b, q) PROVE Passes(b)
    <3>1. op[b].step = "undo" /\ Enter(b, [op[b] EXCEPT !.done = @ \ {q}])
      BY <2>2 DEF RollBack, At
    <3> QED
      BY <3>1, GoingOnPasses DEF Steps
  <2>3. CASE MoveFails(b)
    BY <2>3, GoingOnPasses DEF MoveFails, Steps
  <2>4. CASE Spend(b) \/ SetIsRolledBack(b) \/ SetIsSpent(b)
    BY <2>4, LeavingPasses DEF Spend, SetIsRolledBack, SetIsSpent, SyncSet
  <2> QED
    BY <1>5, <2>1, <2>2, <2>3, <2>4, BeginningPasses
       DEF SpendingStep, FindGrant, FindSet, LoadGrant, ListSet
<1> QED
  BY <1>1, <1>2, <1>3, <1>4, <1>5

\* Whoever goes on looking is where it was, or told that its request was put
\* back, or has just begun, or takes its next step.
LEMMA ReaderSteps ==
    ASSUME Inv, Next, ~PowerLoss, NEW a \in Actors, op'[a].step = "scan"
    PROVE  \/ Undisturbed(a)
           \/ \E q \in Scanned : BeginScan(a, q)
           \/ ScanOne(a)
<1>1. ASSUME NEW b \in Actors, ReadingStep(b), b # a
      PROVE  Undisturbed(a)
  <2>1. \E o : Enter(b, o)
    BY <1>1 DEF ReadingStep, ScanOne, AnswerUnknown, BeginScan, Leave
  <2> QED
    BY <1>1, <2>1, EnteringDisturbsNobody
<1>2. ASSUME ReadingStep(a)
      PROVE  ScanOne(a) \/ \E q \in Scanned : BeginScan(a, q)
  <2>1. AnswerUnknown(a) => op'[a].step # "scan"
    BY LeavingPasses DEF AnswerUnknown, Passes
  <2> QED
    BY <1>2, <2>1 DEF ReadingStep
<1>3. ASSUME NEW b \in Actors, Passes(b)
      PROVE  Undisturbed(a)
  BY <1>3 DEF Passes
<1>4. CASE \E w \in Workers : WorkerWaits(w)
  BY <1>4 DEF WorkerWaits, Undisturbed
<1> QED
  BY <1>1, <1>2, <1>3, <1>4, OthersPass DEF Next

ScansAreSound == \A a \in Actors : ScanIsSound(a)

\* A reader that another actor's step leaves where it was.
LEMMA UndisturbedScanIsSound ==
    ASSUME Inv, Next, ~PowerLoss, NEW a \in Actors, ScanIsSound(a), Undisturbed(a),
           op'[a].step = "scan"
    PROVE  ScanIsSound(a)'
<1>1. /\ At(a, "scan") /\ op'[a].req = op[a].req /\ op'[a].at = op[a].at
      /\ op'[a].word = op[a].word \/ op'[a].word = "restored"
  BY DEF Inv, ApprovalsTypeOK, Operations, Undisturbed, At
<1>2. Excused(a) => Excused(a)'
  BY <1>1 DEF Excused
<1>3. Onwards(op[a].req)
  BY <1>1, FilesGoOn DEF ScanIsSound
<1>4. "scratch" \in dir[op[a].req] =>
        "scratch" \in dir'[op[a].req] \/ Decided(op[a].req)' \/ Excused(a)'
  BY <1>1, <1>3 DEF Onwards, Excused
<1> QED
  BY <1>1, <1>2, <1>3, <1>4 DEF ScanIsSound, Onwards, Decided

\* The next step of a lookup.
LEMMA NextLookIsSound ==
    ASSUME Inv, NEW a \in Actors, ScanIsSound(a), ScanOne(a), op'[a].step = "scan"
    PROVE  ScanIsSound(a)'
<1> DEFINE q == op[a].req
<1>1. op[a] \in Operations /\ op \in [Actors -> Operations]
  BY DEF Inv, ApprovalsTypeOK
<1>2. /\ At(a, "scan") /\ ~FindsNothing(a) /\ dir' = dir
      /\ Leave(a) \/ Enter(a, [op[a] EXCEPT !.at = @ + 1,
                                            !.word = IF FoundAt(op[a]) THEN "unread" ELSE @])
  BY DEF ScanOne, files
<1>3. op'[a] = [op[a] EXCEPT !.at = @ + 1,
                             !.word = IF FoundAt(op[a]) THEN "unread" ELSE @]
  BY <1>1, <1>2 DEF Leave, Enter, Idle
<1>4. /\ op'[a].req = q /\ op'[a].at = op[a].at + 1 /\ op[a].at \in Nat
      /\ op'[a].word = IF FoundAt(op[a]) THEN "unread" ELSE op[a].word
  BY <1>1, <1>3 DEF Operations
<1>5. op[a].at \in 0 .. 5
  BY <1>1, <1>2 DEF FindsNothing, Operations, ScanOrder
<1>6. /\ q \in Requests /\ dir[q] # {} /\ dir[q] \subseteq Dirs
      /\ op[a].at > 1 => Decided(q) \/ "scratch" \in dir[q] \/ Excused(a)
  BY <1>2 DEF ScanIsSound, Inv, ApprovalsTypeOK
<1>7. CASE FoundAt(op[a])
  BY <1>2, <1>4, <1>6, <1>7 DEF ScanIsSound, Excused
<1>8. CASE ~FoundAt(op[a])
  <2>1. Excused(a) => Excused(a)'
    BY <1>4, <1>8 DEF Excused
  <2>2. op[a].at = 1 => Decided(q) \/ "scratch" \in dir[q]
    <3>1. op[a].at = 1 => "pending" \notin dir[q]
      BY <1>8 DEF FoundAt, ScanOrder
    <3> QED
      BY <1>6, <3>1 DEF Decided, Dirs
  <2>3. op[a].at = 5 => "scratch" \notin dir[q]
    BY <1>8 DEF FoundAt, ScanOrder
  <2>4. op'[a].at > 1 => Decided(q) \/ "scratch" \in dir[q] \/ Excused(a)'
    BY <1>4, <1>5, <1>6, <2>1, <2>2
  <2>5. op'[a].at > 5 => Decided(q) \/ Excused(a)'
    BY <1>4, <1>5, <1>6, <2>1, <2>3
  <2> QED
    BY <1>2, <1>4, <1>6, <2>4, <2>5 DEF ScanIsSound, Decided
<1> QED
  BY <1>7, <1>8

\* Lookups stay sound.
LEMMA ScansStaySound == Inv /\ ScansAreSound /\ [Next]_vars => ScansAreSound'
<1> SUFFICES ASSUME Inv, ScansAreSound, [Next]_vars, NEW a \in Actors, op'[a].step = "scan"
             PROVE  ScanIsSound(a)'
  BY DEF ScansAreSound, ScanIsSound, At
<1>1. CASE UNCHANGED vars
  BY <1>1 DEF vars, files, ScansAreSound, ScanIsSound, Decided, Excused, At
<1>2. CASE PowerLoss
  BY <1>2 DEF PowerLoss, Idle
<1>3. ASSUME NEW q \in Scanned, BeginScan(a, q)
      PROVE  ScanIsSound(a)'
  <2>1. op'[a].req = q /\ op'[a].at = 1 /\ dir' = dir /\ q \in Requests /\ dir[q] # {}
    BY <1>3, ScansAreOfRequests DEF BeginScan, Enter, Idle, files, Inv, ApprovalsTypeOK
  <2> QED
    BY <2>1 DEF ScanIsSound
<1> QED
  BY <1>1, <1>2, <1>3, ReaderSteps, UndisturbedScanIsSound, NextLookIsSound DEF ScansAreSound

\* A status lookup, which passes the five directories without the lock, finds
\* nothing only if the request was decided or put back while it went on, or a
\* file of it could not be read.
THEOREM LookupsMissNoOpenRequest == Spec => []UnknownMeansDecided
<1>1. Init => ScansAreSound
  BY DEF Init, Idle, ScansAreSound, ScanIsSound, At
<1>2. Inv /\ ScansAreSound => UnknownMeansDecided
  <2> SUFFICES ASSUME Inv, ScansAreSound, NEW a \in Actors, FindsNothing(a)
               PROVE  Decided(op[a].req) \/ Excused(a)
    BY DEF UnknownMeansDecided, Decided, Excused
  <2>1. At(a, "scan") /\ op[a].at > 5
    BY DEF FindsNothing, ScanOrder
  <2> QED
    BY <2>1 DEF ScansAreSound, ScanIsSound
<1> QED
  BY <1>1, <1>2, ScansStaySound, ApprovalsInvariant, PTL DEF Spec

=============================================================================
