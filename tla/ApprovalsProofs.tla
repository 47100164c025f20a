-------------------------- MODULE ApprovalsProofs --------------------------
(***************************************************************************)
(* Theorems about Approvals.tla for every number of requests, actors and   *)
(* executions.  The inductive invariant says who works on which file:      *)
(* a request being filed has no file yet, one being decided or refused is  *)
(* in scratch/ and nobody else's, and what a spender read is still there.  *)
(* It also bounds what a power loss can bring back: never no file at all,  *)
(* and a grant only with a budget that its redemptions have not used.      *)
(***************************************************************************)
EXTENDS Approvals, WellFoundedInduction, TLAPS

Judging == {"judge", "approve", "deny", "refuse"}
Deciding == Judging \cup {"granted", "denied", "refused"}
Owning == Deciding \cup {"submit"}
Retiring == {"sweep", "refuse", "refused", "grants"}

\* A request that is being filed has no file yet, and one that is being
\* decided or refused is in scratch/, alone until the answer is written.
HasItsFile(a) ==
    /\ At(a, "submit") =>
         /\ op[a].req \in Requests /\ dir[op[a].req] = {}
         /\ rec[op[a].req].session \in Sessions
    /\ op[a].step \in Deciding =>
         /\ op[a].req \in Requests
         /\ "scratch" \in dir[op[a].req] /\ "pending" \notin dir[op[a].req]
    /\ op[a].step \in Judging => dir[op[a].req] = {"scratch"} \/ op[a].req \in returned
    /\ At(a, "granted") => "approved" \in dir[op[a].req]
    /\ At(a, "denied") \/ At(a, "refused") => "denied" \in dir[op[a].req]

\* What a spender read under the lock is still so.
ReadIsFresh(a) ==
    /\ At(a, "spend") =>
         /\ op[a].req \in Requests /\ "approved" \in dir[op[a].req]
         /\ op[a].uses = rec[op[a].req].uses /\ op[a].uses > 0
    /\ op[a].step \in {"set", "undo"} =>
         /\ \A q \in op[a].todo : "approved" \in dir[q]
         /\ \A q \in op[a].done : "consumed" \in dir[q] /\ "approved" \notin dir[q]
         /\ \A q \in op[a].todo \cup op[a].done : rec[q].exec = None /\ rec[q].uses > 0

\* What an operation remembers between its steps.
OperationIsSound(a) ==
    /\ At(a, "judge") => op[a].word \in {"deny", "once", "repeat"}
    /\ At(a, "approve") => op[a].word \in {"once", "repeat"}
                           /\ rec[op[a].req].exec \notin cleared
    /\ op[a].step \in Retiring =>
         op[a].subject \in Workers \/ op[a].subject \in Locals \cap marked
    /\ At(a, "grants") => op[a].subject \in Locals
    /\ op[a].step \in {"revoke", "sync"} =>
         op[a].subject \in Sessions /\ op[a].word \in {"owner", "session"}
    /\ op[a].done # {} => op[a].step \in {"set", "undo"}

ActorIsSound(a) == HasItsFile(a) /\ ReadIsFresh(a) /\ OperationIsSound(a)

InFlight(q) == \E a \in Actors : q \in op[a].done
Filing(q) == \E a \in Actors : At(a, "submit") /\ op[a].req = q

\* Where request q may be found after a power loss: K, when it is in F now.
MayBe(K, F) ==
    /\ F \in K /\ K \subseteq SUBSET Dirs
    /\ F = {} => K = {{}}
    /\ F # {} => {} \notin K

\* The grant of request q can be found in approved/, now or after a power loss.
Armed(q) == \E k \in kept[q] : "approved" \in k

OneAnswer(q) ==
    /\ \A d, e \in dir[q] \ {"scratch"} : d = e
    /\ "pending" \in dir[q] => "scratch" \notin dir[q]

Budgeted(q) ==
    /\ redeemed[q] <= UsesOf(rec[q].duration)
    /\ Armed(q) \/ InFlight(q) => redeemed[q] + rec[q].uses <= UsesOf(rec[q].duration)

NotRetired(q) ==
    "approved" \in dir[q] => rec[q].exec \notin cleared \/ q \in unread \cup returned

Accounted(q) ==
    "consumed" \in dir[q] =>
        \/ redeemed[q] > 0
        \/ rec[q].exec \in marked
        \/ InFlight(q)
        \/ q \in wasted \cup returned

RequestIsSound(q) ==
    /\ q \in returned \/ OneAnswer(q)
    /\ MayBe(kept[q], dir[q])
    /\ dir[q] = {} => /\ rec[q].duration = "none" /\ redeemed[q] = 0
                      /\ rec[q] = NoRecord \/ Filing(q)
    /\ dir[q] # {} => rec[q].session \in Sessions
    /\ Budgeted(q)
    /\ NotRetired(q)
    /\ Accounted(q)

\* No two actors file or decide the same request.
NobodyShares ==
    \A a, b \in Actors :
        a # b /\ op[a].step \in Owning /\ op[b].step \in Owning => op[a].req # op[b].req

Inv ==
    /\ ApprovalsTypeOK
    /\ \A a \in Actors : ActorIsSound(a)
    /\ \A q \in Requests : RequestIsSound(q)
    /\ NobodyShares
    /\ cleared \subseteq marked

-----------------------------------------------------------------------------
\* Steps of one actor that touch the files of S only.

\* Actor b files, decides or refuses request q; or it spends its grant.
Owns(b, q) == op[b].step \in Owning /\ op[b].req = q
Uses(b, q) ==
    \/ At(b, "spend") /\ op[b].req = q
    \/ op[b].step \in {"set", "undo"} /\ q \in op[b].todo \cup op[b].done

\* The grant of request q stays as it is.
SameGrant(q) == rec'[q] = rec[q] /\ dir'[q] \cap Both = dir[q] \cap Both

\* Only the grant of request q changes, which actor b refuses outside the lock.
SameQuestion(b, q) ==
    /\ op[b].step \notin Locked /\ q \in returned /\ dir[q] # {}
    /\ dir'[q] \ Both = dir[q] \ Both

\* At most a reader's word changes.
Undisturbed(b) ==
    op'[b] = op[b] \/ (At(b, "scan") /\ op'[b] = [op[b] EXCEPT !.word = "restored"])

\* A sync, of whatever directory, leaves fewer places to request q.
Settles(q) == MayBe(kept[q], dir[q])' /\ (Armed(q)' => Armed(q))

\* The types of what actor a changes in its step.
StepTypes(a) ==
    /\ op' \in [Actors -> Operations] /\ \A b \in Actors \ {a} : Undisturbed(b)
    /\ \/ lock' = lock
       \/ lock = None /\ lock' = a
       \/ lock = a /\ lock' = None
    /\ op'[a].step \in Locked <=> lock' = a
    /\ dir' \in [Requests -> SUBSET Dirs] /\ kept' \in [Requests -> SUBSET SUBSET Dirs]
    /\ rec' \in [Requests -> Records] /\ redeemed' \in [Requests -> Nat]
    /\ Fits(gens') /\ Fits(disk') /\ outages' = outages
    /\ marked \subseteq marked' /\ marked' \subseteq Locals
    /\ gone' \subseteq Executions /\ held' \subseteq Workers

\* What actor a changes disturbs nobody.
StepApart(a, S) ==
    /\ \A q \in Requests \ S :
         dir'[q] = dir[q] /\ rec'[q] = rec[q] /\ redeemed'[q] = redeemed[q] /\ Settles(q)
    /\ \A q \in S, b \in Actors \ {a} :
         (Owns(b, q) => SameQuestion(b, q)) /\ (Uses(b, q) => SameGrant(q))
    /\ op'[a].done \ S = op[a].done \ S
    /\ At(a, "submit") => op[a].req \in S
    /\ op'[a].step \in Owning =>
         \A b \in Actors \ {a} : op[b].step \in Owning => op[b].req # op'[a].req
    /\ cleared' = cleared \/ (lock = None /\ cleared' \subseteq marked')
    /\ unread \subseteq unread' /\ wasted \subseteq wasted' /\ returned' = returned
    /\ \A q \in Requests \ S : NotRetired(q)'

StepIsSound(a, S) ==
    /\ StepTypes(a) /\ StepApart(a, S)
    /\ ActorIsSound(a)'
    /\ \A q \in S : RequestIsSound(q)'

\* What a step of another actor leaves of an operation.
LEMMA OthersGoOn ==
    ASSUME ApprovalsTypeOK, NEW b \in Actors, Undisturbed(b)
    PROVE  /\ op'[b].step = op[b].step /\ op'[b].done = op[b].done
           /\ op'[b].req = op[b].req
           /\ op[b].step # "scan" => op'[b] = op[b]
<1>1. op[b] \in Operations
  BY DEF ApprovalsTypeOK
<1> QED
  BY <1>1 DEF Undisturbed, Operations, At

\* Such a step keeps the invariant.
LEMMA StepKeepsInv ==
    ASSUME Inv, NEW a \in Actors, NEW S \in SUBSET Requests, StepIsSound(a, S)
    PROVE  Inv'
<1> USE DEF Inv, StepIsSound
<1>0. ASSUME NEW b \in Actors \ {a}
      PROVE  /\ op'[b].step = op[b].step /\ op'[b].done = op[b].done
             /\ op'[b].req = op[b].req
             /\ op[b].step # "scan" => op'[b] = op[b]
  BY OthersGoOn DEF StepTypes
<1>3. ASSUME NEW q \in Requests \ S PROVE RequestIsSound(q)'
  <2>1. /\ dir'[q] = dir[q] /\ rec'[q] = rec[q] /\ redeemed'[q] = redeemed[q]
        /\ MayBe(kept[q], dir[q])' /\ (Armed(q)' => Armed(q)) /\ NotRetired(q)'
    BY DEF StepApart, Settles
  <2>2. InFlight(q)' <=> InFlight(q)
    BY <1>0 DEF StepApart, InFlight
  <2>3. Filing(q) => Filing(q)'
    BY <1>0 DEF StepApart, Filing, At
  <2>4. marked \subseteq marked' /\ wasted \subseteq wasted' /\ returned' = returned
    BY DEF StepApart, StepTypes
  <2>5. RequestIsSound(q)
    OBVIOUS
  <2> HIDE DEF Inv, StepIsSound
  <2>6. (q \in returned \/ OneAnswer(q))'
    BY <2>1, <2>4, <2>5 DEF RequestIsSound, OneAnswer
  <2>7. Budgeted(q)'
    BY <2>1, <2>2, <2>5 DEF RequestIsSound, Budgeted
  <2>8. Accounted(q)'
    BY <2>1, <2>2, <2>4, <2>5 DEF RequestIsSound, Accounted
  <2> QED
    BY <2>1, <2>3, <2>5, <2>6, <2>7, <2>8 DEF RequestIsSound
<1>1. ApprovalsTypeOK'
  <2>1. \A b \in Actors : op'[b].step \in Locked <=> lock' = b
    BY <1>0, NamesAreDistinct DEF ApprovalsTypeOK, StepTypes
  <2>2. \A q \in Requests : MayBe(kept[q], dir[q])'
    BY <1>3 DEF RequestIsSound
  <2> QED
    BY <2>1, <2>2 DEF ApprovalsTypeOK, StepTypes, MayBe
<1>2. ASSUME NEW b \in Actors, b # a PROVE ActorIsSound(b)'
  <2>1. /\ op'[b].step = op[b].step /\ op'[b].done = op[b].done
        /\ op[b].step # "scan" => op'[b] = op[b]
        /\ op[b] \in Operations
    BY <1>0, <1>2 DEF ApprovalsTypeOK
  <2>2. \A q \in Requests : Owns(b, q) =>
          (dir'[q] = dir[q] /\ rec'[q] = rec[q]) \/ SameQuestion(b, q)
    BY <1>2 DEF StepApart
  <2>3. ASSUME NEW q \in Requests, Uses(b, q)
        PROVE  rec'[q] = rec[q] /\ dir'[q] \cap Both = dir[q] \cap Both
    BY <1>2, <2>3 DEF StepApart, SameGrant
  <2>4. HasItsFile(b)'
    <3> DEFINE q == op[b].req
    <3>1. HasItsFile(b) /\ op'[b].req = q /\ returned' = returned
      BY <1>0, <1>2 DEF ActorIsSound, StepApart
    <3>2. CASE op[b].step \notin Owning
      BY <2>1, <3>2 DEF HasItsFile, Owning, Deciding, Judging, At
    <3>3. CASE op[b].step \in Owning
      <4>1. q \in Requests /\ Owns(b, q)
        BY <3>1, <3>3 DEF HasItsFile, Owns, Owning, At
      <4>2. CASE dir'[q] = dir[q] /\ rec'[q] = rec[q]
        BY <2>1, <3>1, <4>2 DEF HasItsFile, At
      <4>3. CASE SameQuestion(b, q)
        <5>1. ~At(b, "submit") /\ ~At(b, "granted") /\ q \in returned
          BY <3>1, <4>3 DEF SameQuestion, HasItsFile, At, Locked
        <5>2. \A d \in {"scratch", "pending", "denied"} : d \in dir'[q] <=> d \in dir[q]
          BY <4>3 DEF SameQuestion, Both
        <5> QED
          BY <2>1, <3>1, <5>1, <5>2 DEF HasItsFile, At
      <4> QED
        BY <2>2, <4>1, <4>2, <4>3
    <3> QED
      BY <3>2, <3>3
  <2>5. ReadIsFresh(b)'
    BY <2>1, <2>3 DEF ActorIsSound, ReadIsFresh, Uses, Operations, At, Both
  <2>6. At(b, "approve") => rec'[op[b].req].exec \notin cleared'
    <3>1. At(b, "approve") => lock = b /\ op[b].req \in Requests /\ Owns(b, op[b].req)
      BY DEF ApprovalsTypeOK, At, Locked, ActorIsSound, HasItsFile, Deciding, Judging,
             Owning, Owns
    <3>2. At(b, "approve") => ~SameQuestion(b, op[b].req)
      BY DEF SameQuestion, At, Locked
    <3> QED
      BY <2>2, <3>1, <3>2, NamesAreDistinct DEF StepApart, ActorIsSound, OperationIsSound
  <2>7. OperationIsSound(b)'
    BY <2>1, <2>6 DEF ActorIsSound, OperationIsSound, StepTypes, At, Retiring
  <2> QED
    BY <2>4, <2>5, <2>7 DEF ActorIsSound
<1>4. NobodyShares'
  BY <1>0 DEF NobodyShares, StepApart
<1>5. cleared' \subseteq marked'
  BY DEF StepApart, StepTypes
<1> QED
  BY <1>1, <1>2, <1>3, <1>4, <1>5

-----------------------------------------------------------------------------
\* Where a power loss can find the files.

\* Files that stay where they are.
LEMMA StayingSettles ==
    ASSUME Inv, NEW q \in Requests, dir'[q] = dir[q], kept'[q] = kept[q]
    PROVE  Settles(q)
    BY DEF Inv, RequestIsSound, Settles, Armed, MayBe

\* A rename brings no request to a place but the new one.
LEMMA RenameDrifts ==
    ASSUME Inv, NEW S \in SUBSET Requests, NEW from \in Dirs, NEW to \in Dirs,
           \A q \in S : from \in dir[q], Rename(S, from, to)
    PROVE  /\ dir' \in [Requests -> SUBSET Dirs] /\ kept' \in [Requests -> SUBSET SUBSET Dirs]
           /\ \A q \in S : dir'[q] = (dir[q] \ {from}) \cup {to}
           /\ \A q \in Requests \ S : dir'[q] = dir[q] /\ Settles(q)
           /\ \A q \in Requests : MayBe(kept'[q], dir'[q])
           /\ \A q \in Requests : Armed(q)' => Armed(q) \/ (q \in S /\ to = "approved")
<1>1. dir \in [Requests -> SUBSET Dirs] /\ kept \in [Requests -> SUBSET SUBSET Dirs]
  BY DEF Inv, ApprovalsTypeOK
<1>2. /\ dir' \in [Requests -> SUBSET Dirs] /\ kept' \in [Requests -> SUBSET SUBSET Dirs]
      /\ \A q \in S : dir'[q] = (dir[q] \ {from}) \cup {to}
      /\ \A q \in Requests \ S : dir'[q] = dir[q] /\ kept'[q] = kept[q]
  BY <1>1 DEF Rename, Moved, Drifting
<1>3. \A q \in Requests \ S : Settles(q)
  BY <1>2, StayingSettles
<1>4. ASSUME NEW q \in S
      PROVE  kept'[q] = kept[q] \cup {k \cup {to} : k \in kept[q]}
                                \cup {(k \ {from}) \cup {to} : k \in kept[q]}
  BY DEF Rename, Drifting
<1>5. ASSUME NEW q \in S
      PROVE  MayBe(kept'[q], dir'[q]) /\ (Armed(q)' => Armed(q) \/ to = "approved")
  <2>1. MayBe(kept[q], dir[q]) /\ dir[q] # {}
    BY DEF Inv, RequestIsSound
  <2>2. {} \notin kept'[q] /\ dir'[q] \in kept'[q] /\ dir'[q] # {}
    <3>1. \A k \in kept'[q] : k \in kept[q] \/ to \in k
      BY <1>4
    <3>2. dir'[q] = (dir[q] \ {from}) \cup {to} /\ dir[q] \in kept[q]
      BY <1>2, <2>1 DEF MayBe
    <3> QED
      BY <1>4, <2>1, <3>1, <3>2 DEF MayBe
  <2>3. \A k \in kept'[q] : \E j \in kept[q] : k \subseteq j \cup {to}
    BY <1>4
  <2>4. Armed(q)' => Armed(q) \/ to = "approved"
    BY <2>3 DEF Armed
  <2> QED
    BY <1>2, <2>2, <2>4 DEF MayBe
<1>6. \A q \in Requests \ S : MayBe(kept'[q], dir'[q]) /\ (Armed(q)' => Armed(q))
  BY <1>3 DEF Settles
<1> QED
  BY <1>2, <1>3, <1>5, <1>6

\* A grant that is consumed is not found elsewhere than before or in consumed/.
LEMMA ConsumingDrifts ==
    ASSUME Inv, NEW S \in SUBSET Requests, \A q \in S : "approved" \in dir[q],
           Rename(S, "approved", "consumed")
    PROVE  /\ dir' \in [Requests -> SUBSET Dirs] /\ kept' \in [Requests -> SUBSET SUBSET Dirs]
           /\ \A q \in S : dir'[q] = (dir[q] \ {"approved"}) \cup {"consumed"}
           /\ \A q \in Requests \ S : dir'[q] = dir[q] /\ Settles(q)
           /\ \A q \in Requests : MayBe(kept'[q], dir'[q]) /\ (Armed(q)' => Armed(q))
  BY RenameDrifts DEF Dirs

\* A sync leaves out places, and a directory without a file of the request.
LEMMA SyncLeavesOut ==
    ASSUME NEW K \in [Requests -> SUBSET SUBSET Dirs], NEW F \in [Requests -> SUBSET Dirs],
           NEW D \in SUBSET Dirs, \A q \in Requests : MayBe(K[q], F[q])
    PROVE  /\ Synced(K, F, D) \in [Requests -> SUBSET SUBSET Dirs]
           /\ \A q \in Requests : MayBe(Synced(K, F, D)[q], F[q])
           /\ \A q \in Requests : \A k \in Synced(K, F, D)[q] : \A d \in k :
                IF d \in D THEN d \in F[q] ELSE \E j \in K[q] : d \in j
           /\ \A q \in Requests : \A k \in Synced(K, F, D)[q] : F[q] \cap D \subseteq k
<1>1. \A q \in Requests : Synced(K, F, D)[q] =
        {F[q]} \cup ({(k \ D) \cup (F[q] \cap D) : k \in K[q]} \ {{}})
  BY DEF Synced
<1>2. ASSUME NEW q \in Requests, NEW k, k \in Synced(K, F, D)[q]
      PROVE  \E j \in K[q] : k = (j \ D) \cup (F[q] \cap D)
  <2>1. F[q] = (F[q] \ D) \cup (F[q] \cap D) /\ F[q] \in K[q]
    BY DEF MayBe
  <2> QED
    BY <1>1, <1>2, <2>1
<1>3. Synced(K, F, D) \in [Requests -> SUBSET SUBSET Dirs]
  <2>1. Synced(K, F, D) = [q \in Requests |-> Synced(K, F, D)[q]]
    BY DEF Synced
  <2>2. ASSUME NEW q \in Requests, NEW k \in Synced(K, F, D)[q] PROVE k \in SUBSET Dirs
    BY <1>2
  <2> QED
    BY <2>1, <2>2
<1>4. ASSUME NEW q \in Requests PROVE MayBe(Synced(K, F, D)[q], F[q])
  <2>1. F[q] \in Synced(K, F, D)[q] /\ Synced(K, F, D)[q] \subseteq SUBSET Dirs
    BY <1>1, <1>3
  <2>2. CASE F[q] = {}
    <3>1. \A k \in Synced(K, F, D)[q] : k = {}
      BY <1>2, <2>2 DEF MayBe
    <3> QED
      BY <2>1, <2>2, <3>1 DEF MayBe
  <2>3. CASE F[q] # {}
    BY <1>1, <2>1, <2>3 DEF MayBe
  <2> QED BY <2>2, <2>3
<1> QED
  BY <1>2, <1>3, <1>4

\* A sync while the files stay where they are.
LEMMA SyncSettles ==
    ASSUME Inv, NEW D \in SUBSET Dirs, kept' = Synced(kept, dir', D), dir' = dir
    PROVE  /\ kept' \in [Requests -> SUBSET SUBSET Dirs]
           /\ \A q \in Requests : Settles(q)
           /\ \A q \in Requests : "approved" \in D \ dir[q] => ~Armed(q)'
<1>1. /\ kept \in [Requests -> SUBSET SUBSET Dirs] /\ dir \in [Requests -> SUBSET Dirs]
      /\ \A q \in Requests : MayBe(kept[q], dir[q])
  BY DEF Inv, ApprovalsTypeOK, RequestIsSound
<1>2. /\ kept' \in [Requests -> SUBSET SUBSET Dirs]
      /\ \A q \in Requests : MayBe(kept'[q], dir[q])
      /\ \A q \in Requests : \A k \in kept'[q] : \A d \in k :
           IF d \in D THEN d \in dir[q] ELSE \E j \in kept[q] : d \in j
  BY <1>1, SyncLeavesOut
<1>3. ASSUME NEW q \in Requests PROVE Settles(q) /\ ("approved" \in D \ dir[q] => ~Armed(q)')
  <2>1. dir[q] \in kept[q] /\ MayBe(kept'[q], dir'[q])
    BY <1>1, <1>2 DEF MayBe
  <2> QED
    BY <1>2, <2>1 DEF Settles, Armed
<1> QED
  BY <1>2, <1>3

\* What a spender or a retirement has consumed and synced is consumed for good.
LEMMA RenameAndSyncDisarms ==
    ASSUME Inv, NEW S \in SUBSET Requests, \A q \in S : "approved" \in dir[q],
           RenameAndSync(S)
    PROVE  /\ dir' \in [Requests -> SUBSET Dirs] /\ kept' \in [Requests -> SUBSET SUBSET Dirs]
           /\ \A q \in S : /\ dir'[q] = (dir[q] \ {"approved"}) \cup {"consumed"}
                           /\ ~Armed(q)'
           /\ \A q \in Requests \ S : dir'[q] = dir[q] /\ Settles(q)
           /\ \A q \in Requests : MayBe(kept'[q], dir'[q])
<1> DEFINE K == Drifting(S, "approved", "consumed")
<1>1. dir \in [Requests -> SUBSET Dirs] /\ kept \in [Requests -> SUBSET SUBSET Dirs]
  BY DEF Inv, ApprovalsTypeOK
<1>2. /\ dir' \in [Requests -> SUBSET Dirs]
      /\ \A q \in S : dir'[q] = (dir[q] \ {"approved"}) \cup {"consumed"}
      /\ \A q \in Requests \ S : dir'[q] = dir[q]
  BY <1>1 DEF RenameAndSync, Moved, Dirs
<1>3. K \in [Requests -> SUBSET SUBSET Dirs] /\ \A q \in Requests \ S : K[q] = kept[q]
  BY <1>1 DEF Drifting, Dirs
<1>4. \A q \in S : K[q] = kept[q] \cup {k \cup {"consumed"} : k \in kept[q]}
                            \cup {(k \ {"approved"}) \cup {"consumed"} : k \in kept[q]}
  BY DEF Drifting
<1>5. kept' = Synced(K, dir', Both) /\ Both \in SUBSET Dirs
  BY DEF RenameAndSync, Both, Dirs
<1> HIDE DEF K
<1>6. \A q \in Requests : MayBe(K[q], dir'[q])
  <2>1. ASSUME NEW q \in Requests \ S PROVE MayBe(K[q], dir'[q])
    BY <1>2, <1>3 DEF Inv, RequestIsSound
  <2>2. ASSUME NEW q \in S PROVE MayBe(K[q], dir'[q])
    <3>1. MayBe(kept[q], dir[q]) /\ dir[q] # {}
      BY DEF Inv, RequestIsSound
    <3>2. dir'[q] \in K[q] /\ {} \notin K[q] /\ dir'[q] # {}
      BY <1>2, <1>4, <3>1 DEF MayBe
    <3> QED
      BY <1>3, <3>2 DEF MayBe
  <2> QED BY <2>1, <2>2
<1>7. /\ kept' \in [Requests -> SUBSET SUBSET Dirs]
      /\ \A q \in Requests : MayBe(kept'[q], dir'[q])
      /\ \A q \in Requests : \A k \in kept'[q] : \A d \in k :
           IF d \in Both THEN d \in dir'[q] ELSE \E j \in K[q] : d \in j
  BY <1>2, <1>3, <1>5, <1>6, SyncLeavesOut
<1>8. \A q \in Requests : Armed(q)' => "approved" \in dir'[q]
  BY <1>7 DEF Armed, Both
<1>9. \A q \in S : ~Armed(q)'
  BY <1>2, <1>8
<1>10. ASSUME NEW q \in Requests \ S PROVE Settles(q)
  <2>1. dir[q] \in kept[q]
    BY DEF Inv, RequestIsSound, MayBe
  <2> QED
    BY <1>2, <1>7, <1>8, <2>1 DEF Settles, Armed
<1> QED
  BY <1>2, <1>7, <1>9, <1>10

\* The file step that writes an answer, or a grant with fewer uses.
LEMMA OutcomeDrifts ==
    ASSUME Inv, NEW q \in Requests, dir[q] # {}, NEW to \in Dirs, Outcome(q, to)
    PROVE  /\ dir' \in [Requests -> SUBSET Dirs] /\ kept' \in [Requests -> SUBSET SUBSET Dirs]
           /\ dir'[q] = dir[q] \cup {to} /\ MayBe(kept'[q], dir'[q])
           /\ \A r \in Requests \ {q} : dir'[r] = dir[r] /\ Settles(r)
           /\ Armed(q)' => Armed(q) \/ to = "approved"
<1>1. dir \in [Requests -> SUBSET Dirs] /\ kept \in [Requests -> SUBSET SUBSET Dirs]
  BY DEF Inv, ApprovalsTypeOK
<1>2. /\ dir' \in [Requests -> SUBSET Dirs] /\ dir'[q] = dir[q] \cup {to}
      /\ kept'[q] = kept[q] \cup {k \cup {to} : k \in kept[q]}
      /\ \A r \in Requests \ {q} : dir'[r] = dir[r] /\ kept'[r] = kept[r]
  BY <1>1 DEF Outcome
<1>3. kept' \in [Requests -> SUBSET SUBSET Dirs]
  BY <1>1 DEF Outcome
<1>4. \A r \in Requests \ {q} : Settles(r)
  BY <1>2, StayingSettles
<1>5. MayBe(kept[q], dir[q])
  BY DEF Inv, RequestIsSound
<1>6. MayBe(kept'[q], dir'[q])
  BY <1>2, <1>3, <1>5 DEF MayBe
<1>7. Armed(q)' => Armed(q) \/ to = "approved"
  BY <1>2 DEF Armed
<1> QED
  BY <1>2, <1>3, <1>4, <1>6, <1>7

\* The end of a decision: its directory is synced, and the scratch file may go.
LEMMA SettleSettles ==
    ASSUME Inv, NEW q \in Requests, NEW to \in Dirs \ {"scratch"}, to \in dir[q], Settle(q, to)
    PROVE  /\ dir' \in [Requests -> SUBSET Dirs] /\ kept' \in [Requests -> SUBSET SUBSET Dirs]
           /\ dir'[q] = dir[q] \/ dir'[q] = dir[q] \ {"scratch"}
           /\ MayBe(kept'[q], dir'[q])
           /\ \A r \in Requests \ {q} : dir'[r] = dir[r]
           /\ \A r \in Requests : Settles(r)
<1> DEFINE K == Synced(kept, dir, {to})
<1>1. /\ dir \in [Requests -> SUBSET Dirs] /\ kept \in [Requests -> SUBSET SUBSET Dirs]
      /\ \A r \in Requests : MayBe(kept[r], dir[r])
  BY DEF Inv, ApprovalsTypeOK, RequestIsSound
<1>2. /\ K \in [Requests -> SUBSET SUBSET Dirs]
      /\ \A r \in Requests : MayBe(K[r], dir[r])
      /\ \A r \in Requests : \A k \in K[r] : \A d \in k :
           IF d \in {to} THEN d \in dir[r] ELSE \E j \in kept[r] : d \in j
      /\ \A k \in K[q] : to \in k
  BY <1>1, SyncLeavesOut
<1>3. \A r \in Requests : \A k \in K[r] : "approved" \in k => Armed(r)
  <2>1. \A r \in Requests : dir[r] \in kept[r]
    BY <1>1 DEF MayBe
  <2> QED
    BY <1>2, <2>1 DEF Armed
<1>4. \/ dir' = dir /\ kept' = K
      \/ /\ dir' = [dir EXCEPT ![q] = @ \ {"scratch"}]
         /\ kept' = [K EXCEPT ![q] = @ \cup {k \ {"scratch"} : k \in @}]
  BY DEF Settle
<1> HIDE DEF K
<1>5. /\ dir' \in [Requests -> SUBSET Dirs]
      /\ dir'[q] = dir[q] \/ dir'[q] = dir[q] \ {"scratch"}
      /\ \A r \in Requests \ {q} : dir'[r] = dir[r] /\ kept'[r] = K[r]
  BY <1>1, <1>2, <1>4
<1>6. \A r \in Requests \ {q} : Settles(r)
  <2>1. \A r \in Requests \ {q} : Armed(r)' => Armed(r)
    BY <1>3, <1>5 DEF Armed
  <2> QED
    BY <1>2, <1>5, <2>1 DEF Settles
<1>7. CASE dir' = dir /\ kept' = K
  <2>1. MayBe(kept'[q], dir'[q]) /\ (Armed(q)' => Armed(q))
    BY <1>2, <1>3, <1>7 DEF Armed
  <2> QED
    BY <1>2, <1>5, <1>6, <1>7, <2>1 DEF Settles
<1>8. CASE /\ dir' = [dir EXCEPT ![q] = @ \ {"scratch"}]
           /\ kept' = [K EXCEPT ![q] = @ \cup {k \ {"scratch"} : k \in @}]
  <2>1. kept'[q] = K[q] \cup {k \ {"scratch"} : k \in K[q]} /\ dir'[q] = dir[q] \ {"scratch"}
    BY <1>1, <1>2, <1>8
  <2>2. kept' \in [Requests -> SUBSET SUBSET Dirs]
    BY <1>2, <1>8
  <2>3. \A k \in kept'[q] : k # {}
    BY <1>2, <2>1
  <2>4. dir'[q] \in kept'[q]
    BY <1>2, <2>1 DEF MayBe
  <2>5. MayBe(kept'[q], dir'[q])
    BY <2>2, <2>3, <2>4 DEF MayBe
  <2>6. Armed(q)' => Armed(q)
    BY <1>3, <2>1 DEF Armed
  <2> QED
    BY <1>5, <1>6, <2>2, <2>5, <2>6 DEF Settles
<1> QED
  BY <1>4, <1>7, <1>8

-----------------------------------------------------------------------------
\* The greater of two numbers.
LEMMA GreaterOfTwo ==
    ASSUME NEW m \in Nat, NEW n \in Nat
    PROVE  Greatest({m, n}) \in {m, n} /\ Greatest({m, n}) >= m /\ Greatest({m, n}) >= n
<1>1. \E k \in {m, n} : \A l \in {m, n} : l <= k
  <2>1. CASE m <= n
    <3>1. \A l \in {m, n} : l <= n BY <2>1
    <3> QED BY <3>1
  <2>2. CASE ~(m <= n)
    <3>1. \A l \in {m, n} : l <= m BY <2>2
    <3> QED BY <3>1
  <2> QED BY <2>1, <2>2
<1> QED
  BY <1>1 DEF Greatest

\* Generations are natural numbers, whatever the session.
LEMMA CurrentIsNatural ==
    ASSUME Fits(gens), NEW s \in Sessions
    PROVE  /\ gens.owner \in Nat /\ gens.session[s] \in Nat
           /\ Current(s) \in {gens.owner, gens.session[s]}
           /\ Current(s) >= gens.owner /\ Current(s) >= gens.session[s]
<1>1. gens.owner \in Nat /\ gens.session[s] \in Nat
  BY LimitsAreNatural DEF Fits, Counters
<1> QED
  BY <1>1, GreaterOfTwo DEF Current

-----------------------------------------------------------------------------
\* The operation of the actor that steps.

\* An actor that begins or goes on with an operation changes no other's.
LEMMA Entering ==
    ASSUME ApprovalsTypeOK, NEW a \in Actors, NEW o \in Operations, Enter(a, o)
    PROVE  /\ op' \in [Actors -> Operations] /\ op'[a] = o
           /\ \A b \in Actors \ {a} : op'[b] = op[b]
           /\ \A b \in Actors \ {a} : Undisturbed(b)
    BY DEF ApprovalsTypeOK, Enter, Undisturbed

\* An idle actor's operation is one.
LEMMA IdleIsAnOperation == Idle \in Operations
  BY LimitsAreNatural DEF Idle, Operations, Steps, ScanOrder

\* An actor that is done relies on nothing.
LEMMA IdleIsSound ==
    ASSUME NEW a \in Actors, op'[a] = Idle
    PROVE  /\ op'[a].step \notin Locked \cup Owning /\ op'[a].done = {}
           /\ ActorIsSound(a)'
    BY DEF Idle, ActorIsSound, HasItsFile, ReadIsFresh, OperationIsSound, At,
           Judging, Deciding, Owning, Retiring, Locked

\* Its step back to idle.
LEMMA Leaving ==
    ASSUME ApprovalsTypeOK, NEW a \in Actors, Leave(a)
    PROVE  /\ op' \in [Actors -> Operations] /\ op'[a] = Idle
           /\ \A b \in Actors \ {a} : op'[b] = op[b]
           /\ \A b \in Actors \ {a} : Undisturbed(b)
           /\ op'[a].step \notin Locked \cup Owning /\ op'[a].done = {}
           /\ ActorIsSound(a)'
<1>1. /\ op' \in [Actors -> Operations] /\ op'[a] = Idle
      /\ \A b \in Actors \ {a} : op'[b] = op[b]
      /\ \A b \in Actors \ {a} : Undisturbed(b)
  BY IdleIsAnOperation, Entering DEF Leave
<1> QED
  BY <1>1, IdleIsSound

\* A request that stays as it is holds no retired grant.
LEMMA StaysUnretired ==
    ASSUME Inv, NEW q \in Requests, dir'[q] = dir[q], rec'[q] = rec[q], cleared' = cleared,
           unread \subseteq unread', returned' = returned
    PROVE  NotRetired(q)'
    BY DEF Inv, RequestIsSound, NotRetired

\* Nobody else files or decides a request that is open, or that one files or
\* decides oneself.
LEMMA NobodyElse ==
    ASSUME Inv, NEW a \in Actors, NEW q \in Requests, "pending" \in dir[q] \/ Owns(a, q)
    PROVE  \A b \in Actors \ {a} : ~Owns(b, q)
    BY DEF Inv, ActorIsSound, HasItsFile, Owns, Owning, Deciding, NobodyShares, At

\* Only the holder of the lock spends.
LEMMA NobodySpends ==
    ASSUME Inv, NEW a \in Actors, lock \in {a, None}
    PROVE  \A b \in Actors \ {a} :
             op[b].step \notin Locked /\ op[b].done = {} /\ \A q \in Requests : ~Uses(b, q)
<1>1. \A b \in Actors \ {a} : op[b].step \notin Locked
  BY NamesAreDistinct DEF Inv, ApprovalsTypeOK
<1> QED
  BY <1>1 DEF Inv, ActorIsSound, OperationIsSound, Uses, At, Locked

\* A step under the lock, or while nobody holds it, that changes grants only.
LEMMA OnlyGrants ==
    ASSUME Inv, NEW a \in Actors, lock \in {a, None}, NEW q \in Requests,
           dir[q] \cap Both # {}, dir'[q] \ Both = dir[q] \ Both
    PROVE  \A b \in Actors \ {a} :
             (Owns(b, q) => SameQuestion(b, q)) /\ (Uses(b, q) => SameGrant(q))
<1> SUFFICES ASSUME NEW b \in Actors \ {a}
             PROVE  (Owns(b, q) => SameQuestion(b, q)) /\ (Uses(b, q) => SameGrant(q))
  OBVIOUS
<1>1. op[b].step \notin Locked /\ ~Uses(b, q)
  BY NobodySpends
<1>2. ASSUME Owns(b, q) PROVE SameQuestion(b, q)
  <2>1. op[b].req = q /\ HasItsFile(b) /\ (q \in returned \/ OneAnswer(q))
    BY <1>2 DEF Owns, Inv, ActorIsSound, RequestIsSound
  <2>2. op[b].step \in {"submit", "refuse", "refused"}
    BY <1>1, <1>2 DEF Owns, Owning, Deciding, Judging, Locked
  <2>3. q \in returned
    BY <2>1, <2>2 DEF HasItsFile, OneAnswer, Both, Judging, At
  <2> QED
    BY <1>1, <2>3 DEF SameQuestion
<1> QED
  BY <1>1, <1>2

\* A step that leaves the grant of a request alone.
LEMMA SameGrantIsSound ==
    ASSUME Inv, NEW q \in Requests, SameGrant(q), UNCHANGED <<marked, history>>,
           dir[q] # {}, dir'[q] # {}, MayBe(kept'[q], dir'[q]), Armed(q)' => Armed(q),
           InFlight(q)' <=> InFlight(q), q \in returned \/ OneAnswer(q)'
    PROVE  RequestIsSound(q)'
<1>1. /\ rec'[q] = rec[q] /\ redeemed'[q] = redeemed[q]
      /\ cleared' = cleared /\ unread' = unread /\ wasted' = wasted /\ returned' = returned
      /\ marked' = marked
      /\ "approved" \in dir'[q] <=> "approved" \in dir[q]
      /\ "consumed" \in dir'[q] <=> "consumed" \in dir[q]
  BY DEF SameGrant, Both, history
<1>2. RequestIsSound(q)
  BY DEF Inv
<1>3. Budgeted(q)'
  BY <1>1, <1>2 DEF RequestIsSound, Budgeted
<1>4. NotRetired(q)' /\ Accounted(q)'
  BY <1>1, <1>2 DEF RequestIsSound, NotRetired, Accounted
<1> QED
  BY <1>1, <1>2, <1>3, <1>4 DEF RequestIsSound

\* A file step of a decision or a refusal: of a request that is open, or of
\* one's own, and not of its grant.
LEMMA FileStepKeepsInv ==
    ASSUME Inv, NEW a \in Actors, NEW q \in Requests, NEW o \in Operations,
           op' \in [Actors -> Operations], op'[a] = o, \A b \in Actors \ {a} : Undisturbed(b),
           \/ lock' = lock
           \/ lock = None /\ lock' = a
           \/ lock = a /\ lock' = None,
           o.step \in Locked <=> lock' = a,
           UNCHANGED <<rec, gens, disk, world, history>>,
           dir' \in [Requests -> SUBSET Dirs], kept' \in [Requests -> SUBSET SUBSET Dirs],
           \A r \in Requests \ {q} : dir'[r] = dir[r] /\ Settles(r),
           dir[q] # {}, dir'[q] # {}, dir'[q] \cap Both = dir[q] \cap Both,
           MayBe(kept'[q], dir'[q]), Armed(q)' => Armed(q), q \in returned \/ OneAnswer(q)',
           "pending" \in dir[q] \/ Owns(a, q), ~At(a, "submit"),
           op[a].done = {}, o.done = {}, o.step \in Owning => o.req = q, ActorIsSound(a)'
    PROVE  Inv'
<1>1. /\ UNCHANGED <<gens, disk, marked, gone, held, outages>>
      /\ UNCHANGED <<redeemed, cleared, unread, wasted, returned>>
  BY DEF world, history
<1>2. StepTypes(a)
  BY <1>1 DEF StepTypes, Inv, ApprovalsTypeOK, Fits
<1>3. \A b \in Actors \ {a} : ~Owns(b, q)
  BY NobodyElse
<1>4. SameGrant(q)
  BY DEF SameGrant
<1>5. StepApart(a, {q})
  <2>1. \A r \in Requests \ {q} : NotRetired(r)'
    BY <1>1, StaysUnretired
  <2>2. o.step \in Owning =>
          \A b \in Actors \ {a} : op[b].step \in Owning => op[b].req # o.req
    BY <1>3 DEF Owns
  <2> QED
    BY <1>1, <1>3, <1>4, <2>1, <2>2 DEF StepApart
<1>6. \A b \in Actors : op'[b].done = op[b].done
  BY OthersGoOn DEF Inv
<1>7. RequestIsSound(q)'
  <2>1. InFlight(q)' <=> InFlight(q)
    BY <1>6 DEF InFlight
  <2> QED
    BY <1>1, <1>4, <2>1, SameGrantIsSound
<1> QED
  BY <1>2, <1>5, <1>7, StepKeepsInv DEF StepIsSound

\* A step that changes no file.
LEMMA FreeStepKeepsInv ==
    ASSUME Inv, NEW a \in Actors, NEW o \in Operations, Enter(a, o),
           \/ lock' = lock
           \/ lock = None /\ lock' = a
           \/ lock = a /\ lock' = None,
           o.step \in Locked <=> lock' = a,
           UNCHANGED <<files, redeemed, cleared, unread, returned, outages>>,
           Fits(gens'), Fits(disk'), wasted \subseteq wasted',
           marked \subseteq marked', marked' \subseteq Locals,
           gone' \subseteq Executions, held' \subseteq Workers,
           o.done = op[a].done, ~At(a, "submit"),
           o.step \in Owning => op[a].step \in Owning /\ o.req = op[a].req,
           ActorIsSound(a)'
    PROVE  Inv'
<1>1. /\ op' \in [Actors -> Operations] /\ op'[a] = o
      /\ \A b \in Actors \ {a} : op'[b] = op[b]
      /\ \A b \in Actors \ {a} : Undisturbed(b)
  BY Entering DEF Inv
<1>2. UNCHANGED <<dir, kept, rec>>
  BY DEF files
<1>3. StepTypes(a)
  BY <1>1, <1>2 DEF StepTypes, Inv, ApprovalsTypeOK
<1>4. StepApart(a, {})
  <2>1. \A q \in Requests : NotRetired(q)' /\ Settles(q)
    BY <1>2, StaysUnretired, StayingSettles
  <2>2. o.step \in Owning =>
          \A b \in Actors \ {a} : op[b].step \in Owning => op[b].req # o.req
    BY DEF Inv, NobodyShares
  <2> QED
    BY <1>1, <1>2, <2>1, <2>2 DEF StepApart
<1> QED
  BY <1>3, <1>4, StepKeepsInv DEF StepIsSound

-----------------------------------------------------------------------------
\* Filing.

\* A request is filed under an id that nobody works on.
LEMMA SubmitKeepsInv ==
    ASSUME Inv, NEW a \in Actors, NEW q \in Requests, NEW e \in Executions \cup {None},
           NEW s \in Sessions, Submit(a, q, e, s)
    PROVE  Inv'
<1> DEFINE n == IF e = None THEN 0 ELSE Current(s)
           o == [Idle EXCEPT !.step = "submit", !.req = q]
           r == [NoRecord EXCEPT !.exec = e, !.session = s, !.stamp = n]
<1> USE DEF Inv
<1>1. o \in Operations /\ o.step = "submit" /\ o.req = q /\ o.done = {}
  BY IdleIsAnOperation DEF Operations, Steps, Idle
<1>2. r \in Records /\ r.session = s /\ r.duration = "none" /\ r.uses = 0
  <2>1. n \in Nat
    BY CurrentIsNatural DEF ApprovalsTypeOK
  <2> HIDE DEF n
  <2>2. NoRecord \in Records /\ NoRecord.duration = "none" /\ NoRecord.uses = 0
    BY LimitsAreNatural DEF NoRecord, Records
  <2> QED
    BY <2>1, <2>2 DEF Records
<1>3. Enter(a, o) /\ rec' = [rec EXCEPT ![q] = r]
  BY DEF Submit
<1> HIDE DEF o, r
<1>4. /\ op' \in [Actors -> Operations] /\ op'[a] = o
      /\ \A b \in Actors \ {a} : op'[b] = op[b]
      /\ \A b \in Actors \ {a} : Undisturbed(b)
      /\ rec' \in [Requests -> Records] /\ rec'[q] = r
      /\ \A p \in Requests \ {q} : rec'[p] = rec[p]
  BY <1>1, <1>2, <1>3, Entering DEF ApprovalsTypeOK
<1>5. /\ UNCHANGED <<dir, kept, gens, disk, lock, marked, gone, held, outages>>
      /\ UNCHANGED <<redeemed, cleared, unread, wasted, returned>>
      /\ dir[q] = {} /\ \A b \in Actors : op[b].req # q
      /\ At(a, "idle")
  BY DEF Submit, world, history
<1>6. StepTypes(a)
  BY <1>1, <1>4, <1>5, NamesAreDistinct DEF StepTypes, ApprovalsTypeOK, Fits, At, Locked
<1>7. op[a].done = {}
  BY <1>5 DEF ActorIsSound, OperationIsSound, At
<1>8. \A b \in Actors : ~Owns(b, q) /\ ~Uses(b, q)
  BY <1>5 DEF ActorIsSound, ReadIsFresh, Owns, Uses
<1>9. StepApart(a, {q})
  <2>1. \A p \in Requests \ {q} : NotRetired(p)' /\ Settles(p)
    BY <1>4, <1>5, StaysUnretired, StayingSettles
  <2> QED
    BY <1>1, <1>4, <1>5, <1>7, <1>8, <2>1 DEF StepApart, At
<1>10. ActorIsSound(a)'
  BY <1>1, <1>2, <1>4, <1>5
     DEF ActorIsSound, HasItsFile, ReadIsFresh, OperationIsSound, At, Judging, Deciding, Retiring
<1>11. RequestIsSound(q)'
  <2>1. redeemed[q] = 0 /\ MayBe(kept[q], dir[q])
    BY <1>5 DEF RequestIsSound
  <2>2. Filing(q)'
    BY <1>1, <1>4 DEF Filing, At
  <2>3. Budgeted(q)'
    BY <1>2, <1>4, <1>5, <2>1, LimitsAreNatural DEF Budgeted, UsesOf
  <2> QED
    BY <1>2, <1>4, <1>5, <2>1, <2>2, <2>3
       DEF RequestIsSound, OneAnswer, NotRetired, Accounted
<1> QED
  BY <1>6, <1>9, <1>10, <1>11, StepKeepsInv DEF StepIsSound

\* A file that appears in pending/ is on the disk when its filing returns.
LEMMA FileAppears ==
    ASSUME Inv, NEW a \in Actors, NEW q \in Requests, q = op[a].req, dir[q] = {},
           WritePending(a)
    PROVE  /\ dir' \in [Requests -> SUBSET Dirs] /\ kept' \in [Requests -> SUBSET SUBSET Dirs]
           /\ dir'[q] = {"pending"} /\ kept'[q] = {{"pending"}}
           /\ \A r \in Requests \ {q} : dir'[r] = dir[r] /\ Settles(r)
<1> DEFINE D == {"pending"}
           K == [kept EXCEPT ![q] = {D}]
<1>1. /\ kept \in [Requests -> SUBSET SUBSET Dirs] /\ dir \in [Requests -> SUBSET Dirs]
      /\ \A r \in Requests : MayBe(kept[r], dir[r])
  BY DEF Inv, ApprovalsTypeOK, RequestIsSound
<1>2. /\ dir' \in [Requests -> SUBSET Dirs] /\ dir'[q] = D
      /\ D \in SUBSET Dirs /\ "approved" \notin D
      /\ \A r \in Requests \ {q} : dir'[r] = dir[r]
  BY <1>1 DEF WritePending, Dirs
<1>3. K \in [Requests -> SUBSET SUBSET Dirs] /\ K[q] = {D}
      /\ \A r \in Requests \ {q} : K[r] = kept[r]
  BY <1>1 DEF Dirs
<1>4. \A r \in Requests : MayBe(K[r], dir'[r])
  BY <1>1, <1>2, <1>3 DEF MayBe
<1>5. kept[q] = {{}}
  BY <1>1 DEF MayBe
<1>6. kept'[q] = {D}
  <2>1. kept'[q] = {D} \cup ({(k \ D) \cup (D \cap D) : k \in kept[q]} \ {{}})
    BY <1>2 DEF WritePending, Synced
  <2>2. \A k \in kept[q] : (k \ D) \cup (D \cap D) = D
    BY <1>5
  <2> QED
    BY <2>1, <2>2
<1>7. \A r \in Requests \ {q} : kept'[r] = Synced(K, dir', D)[r]
  BY <1>3 DEF WritePending, Synced
<1> HIDE DEF K, D
<1>8. /\ Synced(K, dir', D) \in [Requests -> SUBSET SUBSET Dirs]
      /\ \A r \in Requests : MayBe(Synced(K, dir', D)[r], dir'[r])
      /\ \A r \in Requests : \A k \in Synced(K, dir', D)[r] : \A d \in k :
           IF d \in D THEN d \in dir'[r] ELSE \E j \in K[r] : d \in j
  BY <1>2, <1>3, <1>4, SyncLeavesOut
<1>9. kept' \in [Requests -> SUBSET SUBSET Dirs]
  <2>1. kept' = [r \in Requests |-> kept'[r]]
    BY DEF WritePending, Synced
  <2>2. \A r \in Requests : kept'[r] \in SUBSET SUBSET Dirs
    BY <1>2, <1>6, <1>7, <1>8
  <2> QED
    BY <2>1, <2>2
<1>10. ASSUME NEW r \in Requests \ {q} PROVE Settles(r)
  <2>1. Armed(r)' => Armed(r)
    BY <1>2, <1>3, <1>7, <1>8 DEF Armed
  <2> QED
    BY <1>7, <1>8, <2>1 DEF Settles
<1> QED
  BY <1>2, <1>6, <1>9, <1>10 DEF D

\* The request that appears in pending/ has a session and no other file.
LEMMA WritePendingKeepsInv ==
    ASSUME Inv, NEW a \in Actors, WritePending(a)
    PROVE  Inv'
<1> USE DEF Inv
<1>1. PICK q \in Requests : q = op[a].req /\ dir[q] = {} /\ rec[q].session \in Sessions
  BY DEF WritePending, ActorIsSound, HasItsFile
<1>2. /\ op' \in [Actors -> Operations] /\ op'[a] = Idle
      /\ \A b \in Actors \ {a} : op'[b] = op[b]
      /\ \A b \in Actors \ {a} : Undisturbed(b)
      /\ op'[a].step \notin Locked \cup Owning /\ op'[a].done = {}
      /\ ActorIsSound(a)'
  BY Leaving DEF WritePending
<1>3. /\ dir' \in [Requests -> SUBSET Dirs] /\ kept' \in [Requests -> SUBSET SUBSET Dirs]
      /\ dir'[q] = {"pending"} /\ kept'[q] = {{"pending"}}
      /\ \A r \in Requests \ {q} : dir'[r] = dir[r] /\ Settles(r)
  BY <1>1, FileAppears
<1>4. /\ UNCHANGED <<rec, gens, disk, lock, marked, gone, held, outages>>
      /\ UNCHANGED <<redeemed, cleared, unread, wasted, returned>>
      /\ At(a, "submit")
  BY DEF WritePending, world, history
<1>5. StepTypes(a)
  BY <1>2, <1>3, <1>4, NamesAreDistinct DEF StepTypes, ApprovalsTypeOK, Fits, At, Locked
<1>6. \A b \in Actors \ {a} : ~Owns(b, q) /\ ~Uses(b, q)
  BY <1>1, <1>4, NobodyElse DEF Owns, Uses, At, Owning, ActorIsSound, ReadIsFresh
<1>7. StepApart(a, {q})
  <2>1. \A r \in Requests \ {q} : NotRetired(r)'
    BY <1>3, <1>4, StaysUnretired
  <2>2. op[a].done = {}
    BY <1>4 DEF ActorIsSound, OperationIsSound, At
  <2> QED
    BY <1>1, <1>2, <1>3, <1>4, <1>6, <2>1, <2>2 DEF StepApart
<1>8. RequestIsSound(q)'
  <2>1. rec[q].duration = "none" /\ redeemed[q] = 0
    BY <1>1 DEF RequestIsSound
  <2>2. MayBe(kept'[q], dir'[q]) /\ ~Armed(q)'
    BY <1>3 DEF MayBe, Armed, Dirs
  <2>3. ~InFlight(q)'
    BY <1>1, <1>2 DEF InFlight, ActorIsSound, ReadIsFresh, OperationIsSound
  <2>4. Budgeted(q)'
    BY <1>4, <2>1, <2>2, <2>3, LimitsAreNatural DEF Budgeted, UsesOf
  <2> QED
    BY <1>1, <1>3, <1>4, <2>2, <2>4 DEF RequestIsSound, OneAnswer, NotRetired, Accounted
<1> QED
  BY <1>1, <1>2, <1>5, <1>7, <1>8, StepKeepsInv DEF StepIsSound

-----------------------------------------------------------------------------
\* Decisions.

\* The rename that takes an open request out of pending/.
LEMMA TakingIsSound ==
    ASSUME Inv, NEW q \in Requests, "pending" \in dir[q], Rename({q}, "pending", "scratch")
    PROVE  /\ dir' \in [Requests -> SUBSET Dirs] /\ kept' \in [Requests -> SUBSET SUBSET Dirs]
           /\ dir[q] # {} /\ "scratch" \in dir'[q] /\ "pending" \notin dir'[q]
           /\ dir'[q] = {"scratch"} \/ q \in returned
           /\ dir'[q] \cap Both = dir[q] \cap Both
           /\ \A r \in Requests \ {q} : dir'[r] = dir[r] /\ Settles(r)
           /\ MayBe(kept'[q], dir'[q]) /\ (Armed(q)' => Armed(q))
           /\ q \in returned \/ OneAnswer(q)'
<1>1. /\ dir' \in [Requests -> SUBSET Dirs] /\ kept' \in [Requests -> SUBSET SUBSET Dirs]
      /\ dir'[q] = (dir[q] \ {"pending"}) \cup {"scratch"}
      /\ \A r \in Requests \ {q} : dir'[r] = dir[r] /\ Settles(r)
      /\ MayBe(kept'[q], dir'[q]) /\ (Armed(q)' => Armed(q))
  BY RenameDrifts DEF Dirs
<1>2. dir'[q] = {"scratch"} \/ q \in returned
  <2>1. q \in returned \/ OneAnswer(q)
    BY DEF Inv, RequestIsSound
  <2> QED
    BY <1>1, <2>1 DEF OneAnswer
<1>3. q \in returned \/ OneAnswer(q)'
  BY <1>2 DEF OneAnswer
<1> QED
  BY <1>1, <1>2, <1>3 DEF Both

\* Whoever renames the file out of pending/ owns the request.
LEMMA ClaimKeepsInv ==
    ASSUME Inv, NEW a \in Actors, NEW q \in Requests, NEW word \in {"deny", "once", "repeat"},
           Claim(a, q, word)
    PROVE  Inv'
<1> DEFINE o == [Idle EXCEPT !.step = "judge", !.req = q, !.word = word]
<1> USE DEF Inv
<1>1. o \in Operations /\ o.step = "judge" /\ o.req = q /\ o.done = {} /\ o.word = word
  BY IdleIsAnOperation DEF Operations, Steps, Idle
<1>2. Enter(a, o) /\ UNCHANGED <<rec, gens, disk, world, history>> /\ At(a, "idle")
      /\ lock = None /\ lock' = a /\ "pending" \in dir[q]
  BY DEF Claim, Acquire
<1> HIDE DEF o
<1>3. /\ op' \in [Actors -> Operations] /\ op'[a] = o
      /\ \A b \in Actors \ {a} : Undisturbed(b)
  BY <1>1, <1>2, Entering
<1>4. /\ dir' \in [Requests -> SUBSET Dirs] /\ kept' \in [Requests -> SUBSET SUBSET Dirs]
      /\ dir[q] # {} /\ "scratch" \in dir'[q] /\ "pending" \notin dir'[q]
      /\ dir'[q] = {"scratch"} \/ q \in returned
      /\ dir'[q] \cap Both = dir[q] \cap Both
      /\ \A r \in Requests \ {q} : dir'[r] = dir[r] /\ Settles(r)
      /\ MayBe(kept'[q], dir'[q]) /\ (Armed(q)' => Armed(q))
      /\ q \in returned \/ OneAnswer(q)'
  BY <1>2, TakingIsSound DEF Claim
<1>5. ActorIsSound(a)'
  BY <1>1, <1>2, <1>3, <1>4
     DEF ActorIsSound, HasItsFile, ReadIsFresh, OperationIsSound, At, Judging, Deciding,
         Retiring, history
<1>6. op[a].done = {}
  BY <1>2 DEF ActorIsSound, OperationIsSound, At
<1> HIDE DEF Inv
<1> QED
  BY <1>1, <1>2, <1>3, <1>4, <1>5, <1>6, FileStepKeepsInv DEF At, Locked

\* A judgement holds until the outcome is written: nobody retires the
\* execution to the end while the lock is held.
LEMMA JudgeKeepsInv ==
    ASSUME Inv, NEW a \in Actors, JudgeDenied(a) \/ JudgeApproved(a)
    PROVE  Inv'
<1> USE DEF Inv
<1>1. PICK step \in {"deny", "approve"} :
        /\ At(a, "judge") /\ JudgeTo(a, step)
        /\ step = "approve" => /\ op[a].word # "deny"
                               /\ CanStillBeGranted(rec[op[a].req])
  BY DEF JudgeDenied, JudgeApproved
<1> DEFINE o == [op[a] EXCEPT !.step = step]
<1>2. op[a] \in Operations /\ lock = a
  BY <1>1 DEF ApprovalsTypeOK, At, Locked
<1>3. /\ o \in Operations /\ o.step = step /\ o.req = op[a].req
      /\ o.done = op[a].done /\ o.word = op[a].word
  BY <1>2 DEF Operations, Steps
<1>4. Enter(a, o)
  BY <1>1 DEF JudgeTo
<1> HIDE DEF o
<1>5. op'[a] = o
  BY <1>3, <1>4, Entering
<1>6. /\ UNCHANGED <<files, dir, rec, gens, disk, lock, marked, gone, held, outages>>
      /\ UNCHANGED <<redeemed, cleared, unread, wasted, returned>>
  BY <1>1 DEF JudgeTo, files, world, history
<1>7. ActorIsSound(a)'
  <2>1. /\ op[a].req \in Requests /\ "scratch" \in dir[op[a].req]
        /\ "pending" \notin dir[op[a].req]
        /\ dir[op[a].req] = {"scratch"} \/ op[a].req \in returned
    BY <1>1 DEF ActorIsSound, HasItsFile, Judging, Deciding, At
  <2>2. step = "approve" => rec[op[a].req].exec \notin cleared
    <3>1. rec[op[a].req].exec \in Executions \cup {None}
      BY <2>1 DEF ApprovalsTypeOK, Records
    <3> QED
      BY <1>1, <3>1, NamesAreDistinct DEF CanStillBeGranted, ApprovalsTypeOK, Executions
  <2>3. op[a].word \in {"deny", "once", "repeat"} /\ op[a].done = {}
    BY <1>1 DEF ActorIsSound, OperationIsSound, At
  <2> QED
    BY <1>1, <1>3, <1>5, <1>6, <2>1, <2>2, <2>3
       DEF ActorIsSound, HasItsFile, ReadIsFresh, OperationIsSound, At, Judging, Deciding, Retiring
<1>8. Fits(gens') /\ Fits(disk') /\ o.step \in Locked /\ op[a].step \in Owning
  BY <1>1, <1>3, <1>6 DEF ApprovalsTypeOK, Fits, Locked, Owning, Deciding, Judging, At
<1>9. marked' \subseteq Locals /\ gone' \subseteq Executions /\ held' \subseteq Workers
  BY <1>6 DEF ApprovalsTypeOK
<1> QED
  BY <1>1, <1>2, <1>3, <1>4, <1>6, <1>7, <1>8, <1>9, FreeStepKeepsInv DEF At

\* A request that is put back is open again and nobody's; its readers are told.
LEMMA JudgeRestoredKeepsInv ==
    ASSUME Inv, NEW a \in Actors, JudgeRestored(a)
    PROVE  Inv'
<1> USE DEF Inv
<1>1. PICK q \in Requests :
        /\ q = op[a].req /\ "scratch" \in dir[q] /\ "pending" \notin dir[q]
        /\ dir[q] = {"scratch"} \/ q \in returned
  BY DEF JudgeRestored, ActorIsSound, HasItsFile, Judging, Deciding, At
<1>2. /\ Rename({q}, "scratch", "pending") /\ At(a, "judge")
      /\ UNCHANGED <<rec, gens, disk, world, history>>
      /\ op' = [b \in Actors |->
                  IF b = a THEN Idle
                  ELSE IF At(b, "scan") /\ op[b].req = q
                  THEN [op[b] EXCEPT !.word = "restored"] ELSE op[b]]
  BY <1>1 DEF JudgeRestored
<1>3. lock = a /\ lock' = None
  BY <1>2 DEF JudgeRestored, Release, ApprovalsTypeOK, At, Locked
<1>4. /\ op' \in [Actors -> Operations] /\ op'[a] = Idle
      /\ \A b \in Actors \ {a} : Undisturbed(b)
  <2>0. op \in [Actors -> Operations]
    BY DEF ApprovalsTypeOK
  <2> HIDE DEF Inv
  <2>1. \A o \in Operations : [o EXCEPT !.word = "restored"] \in Operations
    BY DEF Operations
  <2>2. /\ op' \in [Actors -> Operations] /\ op'[a] = Idle
    <3>1. \A b \in Actors : (IF b = a THEN Idle
                            ELSE IF At(b, "scan") /\ op[b].req = q
                            THEN [op[b] EXCEPT !.word = "restored"] ELSE op[b]) \in Operations
      BY <2>0, <2>1, IdleIsAnOperation
    <3> QED
      BY <1>2, <3>1
  <2>3. \A b \in Actors \ {a} : Undisturbed(b)
    BY <1>2 DEF Undisturbed
  <2> QED
    BY <2>2, <2>3
<1>5. ActorIsSound(a)' /\ Idle.step \notin Locked \cup Owning /\ Idle.done = {}
  BY <1>4, IdleIsSound
<1>6. /\ dir' \in [Requests -> SUBSET Dirs] /\ kept' \in [Requests -> SUBSET SUBSET Dirs]
      /\ dir'[q] = (dir[q] \ {"scratch"}) \cup {"pending"}
      /\ \A r \in Requests \ {q} : dir'[r] = dir[r] /\ Settles(r)
      /\ MayBe(kept'[q], dir'[q]) /\ (Armed(q)' => Armed(q))
  BY <1>1, <1>2, RenameDrifts DEF Dirs
<1>7. q \in returned \/ OneAnswer(q)'
  BY <1>1, <1>6 DEF OneAnswer
<1>8. dir'[q] \cap Both = dir[q] \cap Both
  BY <1>6 DEF Both
<1>9. op[a].done = {} /\ Owns(a, q)
  BY <1>1, <1>2
     DEF ActorIsSound, OperationIsSound, Owns, Owning, Deciding, Judging, At
<1> HIDE DEF Inv
<1>10. Idle \in Operations /\ a # None /\ ~At(a, "submit") /\ dir[q] # {} /\ dir'[q] # {}
  BY <1>1, <1>2, <1>6, IdleIsAnOperation, NamesAreDistinct DEF At
<1> QED
  BY <1>2, <1>3, <1>4, <1>5, <1>6, <1>7, <1>8, <1>9, <1>10, FileStepKeepsInv

\* A grant starts with the uses its duration allows, none of them redeemed.
LEMMA WriteApprovedKeepsInv ==
    ASSUME Inv, NEW a \in Actors, WriteApproved(a)
    PROVE  Inv'
<1> DEFINE o == [op[a] EXCEPT !.step = "granted"]
<1> USE DEF Inv
<1>1. PICK q \in Requests :
        /\ q = op[a].req /\ "scratch" \in dir[q] /\ "pending" \notin dir[q]
        /\ dir[q] = {"scratch"} \/ q \in returned
  BY DEF WriteApproved, ActorIsSound, HasItsFile, Judging, Deciding, At
<1>2. /\ At(a, "approve") /\ op[a] \in Operations /\ lock = a /\ op[a].done = {}
      /\ op[a].word \in {"once", "repeat"} /\ rec[q].exec \notin cleared
  BY <1>1 DEF WriteApproved, ApprovalsTypeOK, ActorIsSound, OperationIsSound, At, Locked
<1>3. o \in Operations /\ o.step = "granted" /\ o.req = q /\ o.done = {}
  BY <1>1, <1>2 DEF Operations, Steps
<1>4. Enter(a, o)
  BY DEF WriteApproved
<1> HIDE DEF o
<1>5. /\ op' \in [Actors -> Operations] /\ op'[a] = o
      /\ \A b \in Actors \ {a} : op'[b] = op[b]
      /\ \A b \in Actors \ {a} : Undisturbed(b)
  BY <1>3, <1>4, Entering
<1>6. /\ dir' \in [Requests -> SUBSET Dirs] /\ kept' \in [Requests -> SUBSET SUBSET Dirs]
      /\ dir'[q] = dir[q] \cup {"approved"} /\ MayBe(kept'[q], dir'[q])
      /\ \A r \in Requests \ {q} : dir'[r] = dir[r] /\ Settles(r)
  <2>1. Outcome(q, "approved") /\ dir[q] # {} /\ "approved" \in Dirs
    BY <1>1 DEF WriteApproved, Dirs
  <2> HIDE DEF Inv
  <2> QED
    BY <2>1, OutcomeDrifts
<1>7. /\ rec' \in [Requests -> Records]
      /\ \A r \in Requests \ {q} : rec'[r] = rec[r]
      /\ rec'[q].exec = rec[q].exec /\ rec'[q].session = rec[q].session
      /\ rec'[q].duration = op[a].word /\ rec'[q].uses = UsesOf(op[a].word)
      /\ rec[q].session \in Sessions
  <2>1. rec[q].session \in Sessions /\ Fits(gens)
    BY <1>1 DEF RequestIsSound, ApprovalsTypeOK
  <2>2. Current(rec[q].session) \in Nat
    <3> HIDE DEF Inv
    <3> QED
      BY <2>1, CurrentIsNatural
  <2>3. UsesOf(op[a].word) \in 0 .. RepeatableUses
    BY LimitsAreNatural DEF UsesOf
  <2> DEFINE r == [rec[q] EXCEPT !.mint = Current(rec[q].session),
                                 !.uses = UsesOf(op[a].word), !.duration = op[a].word]
  <2>4. rec' = [rec EXCEPT ![q] = r] /\ rec[q] \in Records
    BY <1>1 DEF WriteApproved, ApprovalsTypeOK
  <2>5. /\ r \in Records /\ r.exec = rec[q].exec /\ r.session = rec[q].session
        /\ r.duration = op[a].word /\ r.uses = UsesOf(op[a].word)
    <3> HIDE DEF Inv
    <3> QED
      BY <1>2, <2>2, <2>3, <2>4 DEF Records
  <2> HIDE DEF r
  <2> QED
    BY <2>1, <2>4, <2>5 DEF ApprovalsTypeOK
<1>8. /\ UNCHANGED <<gens, disk, lock, marked, gone, held, outages>>
      /\ UNCHANGED <<cleared, unread, wasted, returned>>
      /\ redeemed' = [redeemed EXCEPT ![q] = 0]
  BY <1>1 DEF WriteApproved, world
<1>9. StepTypes(a)
  BY <1>2, <1>3, <1>5, <1>6, <1>7, <1>8 DEF StepTypes, ApprovalsTypeOK, Fits, Locked
<1>10. \A b \in Actors \ {a} : ~Owns(b, q) /\ ~Uses(b, q)
  <2>1. Owns(a, q) /\ lock \in {a, None}
    BY <1>1, <1>2 DEF Owns, Owning, Deciding, Judging, At
  <2> QED
    BY <2>1, NobodyElse, NobodySpends
<1>11. StepApart(a, {q})
  <2>1. \A r \in Requests \ {q} : NotRetired(r)'
    BY <1>6, <1>7, <1>8, StaysUnretired
  <2>2. \A r \in Requests \ {q} : redeemed'[r] = redeemed[r]
    BY <1>8 DEF ApprovalsTypeOK
  <2>3. \A b \in Actors \ {a} : op[b].step \in Owning => op[b].req # o.req
    BY <1>3, <1>10 DEF Owns
  <2> QED
    BY <1>2, <1>3, <1>5, <1>6, <1>7, <1>8, <1>10, <2>1, <2>2, <2>3 DEF StepApart, At
<1>12. ActorIsSound(a)'
  BY <1>1, <1>2, <1>3, <1>5, <1>6, <1>8
     DEF ActorIsSound, HasItsFile, ReadIsFresh, OperationIsSound, At, Judging, Deciding, Retiring
<1>13. RequestIsSound(q)'
  <2>1. redeemed'[q] = 0 /\ UsesOf(op[a].word) \in Nat
    BY <1>8, LimitsAreNatural DEF ApprovalsTypeOK, UsesOf
  <2>2. q \in returned \/ OneAnswer(q)'
    BY <1>1, <1>6 DEF OneAnswer
  <2>3. Budgeted(q)'
    BY <1>7, <2>1 DEF Budgeted
  <2>4. NotRetired(q)' /\ Accounted(q)'
    BY <1>1, <1>2, <1>6, <1>7, <1>8 DEF NotRetired, Accounted
  <2> QED
    BY <1>6, <1>7, <1>8, <2>2, <2>3, <2>4 DEF RequestIsSound
<1> QED
  BY <1>9, <1>11, <1>12, <1>13, StepKeepsInv DEF StepIsSound

\* A denial stands beside the scratch file until its directory is synced.
LEMMA RefusingIsSound ==
    ASSUME Inv, NEW q \in Requests, "scratch" \in dir[q], "pending" \notin dir[q],
           dir[q] = {"scratch"} \/ q \in returned, Outcome(q, "denied")
    PROVE  /\ dir' \in [Requests -> SUBSET Dirs] /\ kept' \in [Requests -> SUBSET SUBSET Dirs]
           /\ dir'[q] = dir[q] \cup {"denied"} /\ dir'[q] \cap Both = dir[q] \cap Both
           /\ \A r \in Requests \ {q} : dir'[r] = dir[r] /\ Settles(r)
           /\ MayBe(kept'[q], dir'[q]) /\ (Armed(q)' => Armed(q))
           /\ q \in returned \/ OneAnswer(q)'
<1>1. /\ dir' \in [Requests -> SUBSET Dirs] /\ kept' \in [Requests -> SUBSET SUBSET Dirs]
      /\ dir'[q] = dir[q] \cup {"denied"} /\ MayBe(kept'[q], dir'[q])
      /\ \A r \in Requests \ {q} : dir'[r] = dir[r] /\ Settles(r)
      /\ Armed(q)' => Armed(q)
  BY OutcomeDrifts DEF Dirs
<1> QED
  BY <1>1 DEF Both, OneAnswer

\* The reviewer writes it.
LEMMA WriteDeniedKeepsInv ==
    ASSUME Inv, NEW a \in Actors, WriteDenied(a)
    PROVE  Inv'
<1> DEFINE o == [op[a] EXCEPT !.step = "denied"]
<1> USE DEF Inv
<1>1. PICK q \in Requests :
        /\ q = op[a].req /\ "scratch" \in dir[q] /\ "pending" \notin dir[q]
        /\ dir[q] = {"scratch"} \/ q \in returned
  BY DEF WriteDenied, ActorIsSound, HasItsFile, Judging, Deciding, At
<1>2. /\ At(a, "deny") /\ op[a] \in Operations /\ lock = a /\ op[a].done = {}
      /\ UNCHANGED <<rec, gens, disk, lock, world, history>>
  BY DEF WriteDenied, ApprovalsTypeOK, ActorIsSound, OperationIsSound, At, Locked
<1>3. o \in Operations /\ o.step = "denied" /\ o.req = q /\ o.done = {}
  BY <1>1, <1>2 DEF Operations, Steps
<1>4. Enter(a, o)
  BY DEF WriteDenied
<1> HIDE DEF o
<1>5. /\ op' \in [Actors -> Operations] /\ op'[a] = o
      /\ \A b \in Actors \ {a} : Undisturbed(b)
  BY <1>3, <1>4, Entering
<1>6. /\ dir' \in [Requests -> SUBSET Dirs] /\ kept' \in [Requests -> SUBSET SUBSET Dirs]
      /\ dir'[q] = dir[q] \cup {"denied"} /\ dir'[q] \cap Both = dir[q] \cap Both
      /\ \A r \in Requests \ {q} : dir'[r] = dir[r] /\ Settles(r)
      /\ MayBe(kept'[q], dir'[q]) /\ (Armed(q)' => Armed(q))
      /\ q \in returned \/ OneAnswer(q)'
  BY <1>1, RefusingIsSound DEF WriteDenied
<1>7. ActorIsSound(a)'
  BY <1>1, <1>2, <1>3, <1>5, <1>6
     DEF ActorIsSound, HasItsFile, ReadIsFresh, OperationIsSound, At, Judging, Deciding, Retiring
<1>8. Owns(a, q) /\ ~At(a, "submit") /\ o.step \in Locked
  BY <1>1, <1>2, <1>3 DEF Owns, Owning, Deciding, Judging, At, Locked
<1> HIDE DEF Inv
<1> QED
  BY <1>1, <1>2, <1>3, <1>5, <1>6, <1>7, <1>8, FileStepKeepsInv

\* The end of a decision leaves the answer, and at most a file in scratch/.
LEMMA SettlingIsSound ==
    ASSUME Inv, NEW q \in Requests, NEW to \in {"approved", "denied"}, to \in dir[q],
           "pending" \notin dir[q], Settle(q, to)
    PROVE  /\ dir' \in [Requests -> SUBSET Dirs] /\ kept' \in [Requests -> SUBSET SUBSET Dirs]
           /\ dir[q] # {} /\ dir'[q] # {} /\ dir'[q] \cap Both = dir[q] \cap Both
           /\ \A r \in Requests \ {q} : dir'[r] = dir[r] /\ Settles(r)
           /\ MayBe(kept'[q], dir'[q]) /\ (Armed(q)' => Armed(q))
           /\ q \in returned \/ OneAnswer(q)'
<1>1. to \in Dirs \ {"scratch"}
  BY DEF Dirs
<1>2. /\ dir' \in [Requests -> SUBSET Dirs] /\ kept' \in [Requests -> SUBSET SUBSET Dirs]
      /\ dir'[q] = dir[q] \/ dir'[q] = dir[q] \ {"scratch"}
      /\ MayBe(kept'[q], dir'[q])
      /\ \A r \in Requests \ {q} : dir'[r] = dir[r]
      /\ \A r \in Requests : Settles(r)
  BY <1>1, SettleSettles
<1>3. q \in returned \/ OneAnswer(q)
  BY DEF Inv, RequestIsSound
<1>4. q \in returned \/ OneAnswer(q)'
  BY <1>2, <1>3 DEF OneAnswer
<1> QED
  BY <1>1, <1>2, <1>4 DEF Both, Settles

\* The reviewer's decision ends.
LEMMA DecisionEndsKeepsInv ==
    ASSUME Inv, NEW a \in Actors, DecisionEnds(a)
    PROVE  Inv'
<1> USE DEF Inv
<1>1. PICK to \in {"approved", "denied"} :
        /\ Settle(op[a].req, to)
        /\ to = "approved" => At(a, "granted")
        /\ to = "denied" => At(a, "denied")
  BY DEF DecisionEnds
<1>2. PICK q \in Requests : q = op[a].req /\ to \in dir[q] /\ "pending" \notin dir[q]
  BY <1>1 DEF ActorIsSound, HasItsFile, Deciding, At
<1>3. /\ op[a].done = {} /\ lock = a /\ lock' = None /\ Owns(a, q) /\ ~At(a, "submit")
      /\ UNCHANGED <<rec, gens, disk, world, history>>
  BY <1>1, <1>2 DEF DecisionEnds, Release, ApprovalsTypeOK, ActorIsSound, OperationIsSound,
     Owns, Owning, Deciding, At, Locked
<1>4. /\ op' \in [Actors -> Operations] /\ op'[a] = Idle
      /\ \A b \in Actors \ {a} : Undisturbed(b)
      /\ Idle.step \notin Locked \cup Owning /\ Idle.done = {}
      /\ ActorIsSound(a)'
  BY Leaving DEF DecisionEnds
<1>5. /\ dir' \in [Requests -> SUBSET Dirs] /\ kept' \in [Requests -> SUBSET SUBSET Dirs]
      /\ dir[q] # {} /\ dir'[q] # {} /\ dir'[q] \cap Both = dir[q] \cap Both
      /\ \A r \in Requests \ {q} : dir'[r] = dir[r] /\ Settles(r)
      /\ MayBe(kept'[q], dir'[q]) /\ (Armed(q)' => Armed(q))
      /\ q \in returned \/ OneAnswer(q)'
  BY <1>1, <1>2, SettlingIsSound
<1> HIDE DEF Inv
<1> QED
  BY <1>3, <1>4, <1>5, IdleIsAnOperation, NamesAreDistinct, FileStepKeepsInv

-----------------------------------------------------------------------------
\* Retirement.

\* A finished execution begins its sweep.
LEMMA SweepBeginsKeepsInv ==
    ASSUME Inv, NEW a \in Actors, NEW e \in Executions,
           EndInvocation(a, e) \/ WorkerEnds(a, e), EndInvocation(a, e) => e \in Locals,
           WorkerEnds(a, e) => e \in Workers
    PROVE  Inv'
<1> USE DEF Inv
<1>1. PICK S \in SUBSET OpenOf(e) :
        Enter(a, [Idle EXCEPT !.step = "sweep", !.subject = e, !.todo = S])
  BY DEF EndInvocation, WorkerEnds, BeginSweep
<1> DEFINE o == [Idle EXCEPT !.step = "sweep", !.subject = e, !.todo = S]
<1>2. /\ o \in Operations /\ o.step = "sweep" /\ o.subject = e
      /\ o.done = {}
  BY IdleIsAnOperation DEF OpenOf, Operations, Steps, Idle
<1>3. Enter(a, o) /\ At(a, "idle") /\ lock' = lock
  BY <1>1 DEF EndInvocation, WorkerEnds
<1> HIDE DEF o
<1>4. op'[a] = o
  BY <1>2, <1>3, Entering
<1>5. e \in Workers \/ e \in Locals \cap marked'
  BY DEF EndInvocation, WorkerEnds
<1>6. ActorIsSound(a)'
  BY <1>2, <1>4, <1>5
     DEF ActorIsSound, HasItsFile, ReadIsFresh, OperationIsSound, At, Judging, Deciding, Retiring
<1>7. /\ UNCHANGED <<files, gens, disk, outages>>
      /\ UNCHANGED <<redeemed, cleared, unread, wasted, returned>>
      /\ marked \subseteq marked' /\ marked' \subseteq Locals
      /\ gone' \subseteq Executions /\ held' \subseteq Workers
  BY DEF EndInvocation, WorkerEnds, ApprovalsTypeOK, Executions, history
<1>8. op[a].done = {} /\ lock # a /\ o.step \notin Locked \cup Owning
  BY <1>2, <1>3 DEF ActorIsSound, OperationIsSound, ApprovalsTypeOK, At, Locked, Owning,
     Deciding, Judging
<1>9. Fits(gens') /\ Fits(disk')
  BY <1>7 DEF ApprovalsTypeOK, Fits
<1> QED
  BY <1>2, <1>3, <1>6, <1>7, <1>8, <1>9, FreeStepKeepsInv DEF At

\* A sweep owns what it renamed, and passes over what others claimed.
LEMMA SweepOneKeepsInv ==
    ASSUME Inv, NEW a \in Actors, NEW q \in Requests, SweepOne(a, q)
    PROVE  Inv'
<1> USE DEF Inv
<1>0. /\ op[a] \in Operations /\ At(a, "sweep") /\ op[a].done = {} /\ lock # a
      /\ op[a].subject \in Workers \/ op[a].subject \in Locals \cap marked
  BY DEF SweepOne, SweepListed, ApprovalsTypeOK, ActorIsSound, OperationIsSound, At,
     Retiring, Locked
<1>1. CASE "pending" \in dir[q]
  <2> DEFINE o == [op[a] EXCEPT !.step = "refuse", !.req = q, !.todo = @ \ {q}]
  <2>1. /\ o \in Operations /\ o.step = "refuse" /\ o.req = q /\ o.done = {}
        /\ o.subject = op[a].subject
    BY <1>0 DEF Operations, Steps
  <2>2. Enter(a, o) /\ UNCHANGED <<rec, gens, disk, lock, world, history>>
    BY <1>1 DEF SweepOne, SweepListed
  <2> HIDE DEF o
  <2>3. /\ op' \in [Actors -> Operations] /\ op'[a] = o
        /\ \A b \in Actors \ {a} : Undisturbed(b)
    BY <2>1, <2>2, Entering
  <2>4. /\ dir' \in [Requests -> SUBSET Dirs] /\ kept' \in [Requests -> SUBSET SUBSET Dirs]
        /\ dir[q] # {} /\ "scratch" \in dir'[q] /\ "pending" \notin dir'[q]
        /\ dir'[q] = {"scratch"} \/ q \in returned
        /\ dir'[q] \cap Both = dir[q] \cap Both
        /\ \A r \in Requests \ {q} : dir'[r] = dir[r] /\ Settles(r)
        /\ MayBe(kept'[q], dir'[q]) /\ (Armed(q)' => Armed(q))
        /\ q \in returned \/ OneAnswer(q)'
    BY <1>1, TakingIsSound DEF SweepOne, SweepListed
  <2>5. ActorIsSound(a)'
    <3>1. marked' = marked /\ returned' = returned
      BY <2>2 DEF world, history
    <3> QED
      BY <1>0, <2>1, <2>3, <2>4, <3>1
         DEF ActorIsSound, HasItsFile, ReadIsFresh, OperationIsSound, At, Judging, Deciding,
             Retiring
  <2>6. o.step \notin Locked /\ ~At(a, "submit") /\ dir'[q] # {}
    BY <1>0, <2>1, <2>4 DEF At, Locked
  <2> HIDE DEF Inv
  <2> QED
    BY <1>0, <1>1, <2>1, <2>2, <2>3, <2>4, <2>5, <2>6, FileStepKeepsInv
<1>2. CASE "pending" \notin dir[q]
  <2> DEFINE o == [op[a] EXCEPT !.todo = @ \ {q}]
  <2>1. /\ o \in Operations /\ o.step = "sweep" /\ o.done = {}
        /\ o.subject = op[a].subject
    BY <1>0 DEF Operations, At
  <2>2. Enter(a, o) /\ UNCHANGED <<files, gens, disk, lock, world, history>>
    BY <1>2 DEF SweepOne
  <2> HIDE DEF o
  <2>3. op'[a] = o
    BY <2>1, <2>2, Entering
  <2>4. ActorIsSound(a)'
    BY <1>0, <2>1, <2>2, <2>3
       DEF ActorIsSound, HasItsFile, ReadIsFresh, OperationIsSound, At, Judging, Deciding,
           Retiring, world
  <2>5. o.step \notin Locked \cup Owning
    BY <2>1 DEF Locked, Owning, Deciding, Judging
  <2>6. Fits(gens') /\ Fits(disk')
    BY <2>2 DEF ApprovalsTypeOK, Fits
  <2> QED
    BY <1>0, <2>1, <2>2, <2>4, <2>5, <2>6, FreeStepKeepsInv
       DEF At, world, ApprovalsTypeOK, history
<1> QED
  BY <1>1, <1>2

\* A swept request is denied like any other.
LEMMA WriteRefusedKeepsInv ==
    ASSUME Inv, NEW a \in Actors, WriteRefused(a)
    PROVE  Inv'
<1> DEFINE o == [op[a] EXCEPT !.step = "refused"]
<1> USE DEF Inv
<1>0. /\ op[a] \in Operations /\ At(a, "refuse") /\ op[a].done = {} /\ lock # a
      /\ op[a].subject \in Workers \/ op[a].subject \in Locals \cap marked
      /\ UNCHANGED <<rec, gens, disk, lock, world, history>>
  BY DEF WriteRefused, ApprovalsTypeOK, ActorIsSound, OperationIsSound, At, Retiring, Locked
<1>1. PICK q \in Requests :
        /\ q = op[a].req /\ "scratch" \in dir[q] /\ "pending" \notin dir[q]
        /\ dir[q] = {"scratch"} \/ q \in returned
  BY <1>0 DEF ActorIsSound, HasItsFile, Judging, Deciding, At
<1>2. /\ o \in Operations /\ o.step = "refused" /\ o.req = q /\ o.done = {}
      /\ o.subject = op[a].subject
  BY <1>0, <1>1 DEF Operations, Steps
<1>3. Enter(a, o)
  BY DEF WriteRefused
<1> HIDE DEF o
<1>4. /\ op' \in [Actors -> Operations] /\ op'[a] = o
      /\ \A b \in Actors \ {a} : Undisturbed(b)
  BY <1>2, <1>3, Entering
<1>5. /\ dir' \in [Requests -> SUBSET Dirs] /\ kept' \in [Requests -> SUBSET SUBSET Dirs]
      /\ dir'[q] = dir[q] \cup {"denied"} /\ dir'[q] \cap Both = dir[q] \cap Both
      /\ \A r \in Requests \ {q} : dir'[r] = dir[r] /\ Settles(r)
      /\ MayBe(kept'[q], dir'[q]) /\ (Armed(q)' => Armed(q))
      /\ q \in returned \/ OneAnswer(q)'
  BY <1>1, RefusingIsSound DEF WriteRefused
<1>6. ActorIsSound(a)'
  BY <1>0, <1>1, <1>2, <1>4, <1>5
     DEF ActorIsSound, HasItsFile, ReadIsFresh, OperationIsSound, At, Judging, Deciding,
         Retiring, world
<1>7. Owns(a, q) /\ ~At(a, "submit") /\ o.step \notin Locked
  BY <1>0, <1>1, <1>2 DEF Owns, Owning, Deciding, Judging, At, Locked
<1> HIDE DEF Inv
<1> QED
  BY <1>0, <1>1, <1>2, <1>4, <1>5, <1>6, <1>7, FileStepKeepsInv

\* The refusal ends, and the sweep goes on.
LEMMA RefusalEndsKeepsInv ==
    ASSUME Inv, NEW a \in Actors, RefusalEnds(a)
    PROVE  Inv'
<1> DEFINE o == [op[a] EXCEPT !.step = "sweep", !.req = None]
<1> USE DEF Inv
<1>0. /\ op[a] \in Operations /\ At(a, "refused") /\ op[a].done = {} /\ lock # a
      /\ op[a].subject \in Workers \/ op[a].subject \in Locals \cap marked
      /\ UNCHANGED <<rec, gens, disk, lock, world, history>>
  BY DEF RefusalEnds, ApprovalsTypeOK, ActorIsSound, OperationIsSound, At, Retiring, Locked
<1>1. PICK q \in Requests : q = op[a].req /\ "denied" \in dir[q] /\ "pending" \notin dir[q]
  BY <1>0 DEF ActorIsSound, HasItsFile, Deciding, At
<1>2. o \in Operations /\ o.step = "sweep" /\ o.done = {} /\ o.subject = op[a].subject
  BY <1>0 DEF Operations, Steps
<1>3. Enter(a, o)
  BY DEF RefusalEnds
<1> HIDE DEF o
<1>4. /\ op' \in [Actors -> Operations] /\ op'[a] = o
      /\ \A b \in Actors \ {a} : Undisturbed(b)
  BY <1>2, <1>3, Entering
<1>5. /\ dir' \in [Requests -> SUBSET Dirs] /\ kept' \in [Requests -> SUBSET SUBSET Dirs]
      /\ dir[q] # {} /\ dir'[q] # {} /\ dir'[q] \cap Both = dir[q] \cap Both
      /\ \A r \in Requests \ {q} : dir'[r] = dir[r] /\ Settles(r)
      /\ MayBe(kept'[q], dir'[q]) /\ (Armed(q)' => Armed(q))
      /\ q \in returned \/ OneAnswer(q)'
  BY <1>1, SettlingIsSound DEF RefusalEnds
<1>6. ActorIsSound(a)'
  BY <1>0, <1>2, <1>4
     DEF ActorIsSound, HasItsFile, ReadIsFresh, OperationIsSound, At, Judging, Deciding,
         Retiring, world
<1>7. Owns(a, q) /\ ~At(a, "submit") /\ o.step \notin Locked \cup Owning
  BY <1>0, <1>1, <1>2 DEF Owns, Owning, Deciding, Judging, At, Locked
<1> HIDE DEF Inv
<1> QED
  BY <1>0, <1>2, <1>4, <1>5, <1>6, <1>7, FileStepKeepsInv

\* The sweep ends, by itself or by an error.
LEMMA SweepEndsKeepsInv ==
    ASSUME Inv, NEW a \in Actors, SweepEnds(a) \/ SweepFails(a)
    PROVE  Inv'
<1> USE DEF Inv
<1>1. /\ op[a] \in Operations /\ op[a].step \in {"sweep", "refuse", "refused"}
      /\ op[a].done = {} /\ lock # a
      /\ op[a].subject \in Workers \/ op[a].subject \in Locals \cap marked
  BY DEF SweepEnds, SweepFails, ApprovalsTypeOK, ActorIsSound, OperationIsSound, At,
     Retiring, Locked
<1>2. UNCHANGED <<files, gens, disk, lock, world, history>>
  BY DEF SweepEnds, SweepFails
<1>3. \E o \in Operations :
        /\ Enter(a, o) /\ o.done = {}
        /\ \/ o.step = "grants" /\ o.subject = op[a].subject /\ o.subject \in Locals
           \/ o.step = "revoke" /\ o.word = "session" /\ o.subject \in Sessions
  <2>1. CASE op[a].subject \in Locals
    <3> DEFINE o == [op[a] EXCEPT !.step = "grants"]
    <3>1. /\ o \in Operations /\ o.step = "grants" /\ o.done = {}
          /\ o.subject = op[a].subject
      BY <1>1 DEF Operations, Steps
    <3>2. Enter(a, o)
      BY <2>1, NamesAreDistinct DEF SweepEnds, SweepFails
    <3> QED
      BY <2>1, <3>1, <3>2
  <2>2. CASE op[a].subject \notin Locals
    <3> DEFINE o == [Idle EXCEPT !.step = "revoke", !.word = "session",
                                 !.subject = SessionOf[op[a].subject]]
    <3>1. SessionOf[op[a].subject] \in Sessions
      BY <1>1, <2>2, ExecutionsHaveSessions DEF Executions
    <3>2. /\ o \in Operations /\ o.step = "revoke" /\ o.done = {} /\ o.word = "session"
          /\ o.subject \in Sessions
      BY <3>1, IdleIsAnOperation DEF Operations, Steps, Idle
    <3>3. Enter(a, o)
      BY <2>2 DEF SweepEnds, SweepFails, RevokeNext
    <3> QED
      BY <3>2, <3>3
  <2> QED BY <2>1, <2>2
<1>4. PICK o \in Operations :
        /\ Enter(a, o) /\ o.done = {}
        /\ \/ o.step = "grants" /\ o.subject = op[a].subject /\ o.subject \in Locals
           \/ o.step = "revoke" /\ o.word = "session" /\ o.subject \in Sessions
  BY <1>3
<1>5. op'[a] = o
  BY <1>4, Entering
<1>6. ActorIsSound(a)'
  BY <1>1, <1>2, <1>4, <1>5, NamesAreDistinct
     DEF ActorIsSound, HasItsFile, ReadIsFresh, OperationIsSound, At, Judging, Deciding,
         Retiring, world
<1>7. o.step \notin Locked \cup Owning /\ Fits(gens') /\ Fits(disk')
  BY <1>2, <1>4 DEF Locked, Owning, Deciding, Judging, ApprovalsTypeOK, Fits
<1> QED
  BY <1>1, <1>2, <1>4, <1>6, <1>7, FreeStepKeepsInv DEF At, world, ApprovalsTypeOK, history

\* A step that changes grants disturbs nobody.
LEMMA GrantStepIsApart ==
    ASSUME Inv, NEW a \in Actors, NEW S \in SUBSET Requests, lock \in {a, None},
           op' \in [Actors -> Operations], \A b \in Actors \ {a} : Undisturbed(b),
           lock' = lock \/ lock' = None, op'[a].step \in Locked <=> lock' = a,
           op'[a].step \notin Owning, ~At(a, "submit"),
           dir' \in [Requests -> SUBSET Dirs], kept' \in [Requests -> SUBSET SUBSET Dirs],
           rec' \in [Requests -> Records], redeemed' \in [Requests -> Nat],
           UNCHANGED <<gens, disk, world, returned>>,
           \A q \in S : dir[q] \cap Both # {} /\ dir'[q] \ Both = dir[q] \ Both,
           \A q \in Requests \ S :
             /\ dir'[q] = dir[q] /\ rec'[q] = rec[q] /\ redeemed'[q] = redeemed[q]
             /\ Settles(q) /\ NotRetired(q)',
           op'[a].done \ S = op[a].done \ S,
           cleared' = cleared \/ (lock = None /\ cleared' \subseteq marked'),
           unread \subseteq unread', wasted \subseteq wasted'
    PROVE  StepTypes(a) /\ StepApart(a, S)
<1>1. UNCHANGED <<marked, gone, held, outages>>
  BY DEF world
<1>2. StepTypes(a)
  BY <1>1, NamesAreDistinct DEF StepTypes, Inv, ApprovalsTypeOK, Fits
<1>3. \A q \in S, b \in Actors \ {a} :
        (Owns(b, q) => SameQuestion(b, q)) /\ (Uses(b, q) => SameGrant(q))
  <2>1. SUFFICES ASSUME NEW q \in S
                 PROVE  \A b \in Actors \ {a} :
                          (Owns(b, q) => SameQuestion(b, q)) /\ (Uses(b, q) => SameGrant(q))
    OBVIOUS
  <2>2. q \in Requests /\ dir[q] \cap Both # {} /\ dir'[q] \ Both = dir[q] \ Both
    OBVIOUS
  <2> QED
    BY <2>2, OnlyGrants
<1> QED
  BY <1>2, <1>3 DEF StepApart, At

\* Nobody is spending or deciding while an invocation's grants are consumed.
LEMMA ConsumeGrantsKeepsInv ==
    ASSUME Inv, NEW a \in Actors, ConsumeGrants(a)
    PROVE  Inv'
<1> DEFINE e == op[a].subject
<1> USE DEF Inv
<1>1. /\ e \in Locals \cap marked /\ lock = None /\ At(a, "grants") /\ op[a].done = {}
      /\ UNCHANGED <<rec, gens, disk, lock, world, redeemed, wasted, returned>>
  BY NamesAreDistinct DEF ConsumeGrants, ActorIsSound, OperationIsSound, Retiring, At
<1>2. /\ op' \in [Actors -> Operations] /\ op'[a] = Idle
      /\ \A b \in Actors \ {a} : op'[b] = op[b]
      /\ \A b \in Actors \ {a} : Undisturbed(b)
      /\ op'[a].step \notin Locked \cup Owning /\ op'[a].done = {}
      /\ ActorIsSound(a)'
  BY Leaving DEF ConsumeGrants
<1>3. PICK S \in SUBSET GrantsOf(e) :
        \/ /\ Rename(S, "approved", "consumed")
           /\ UNCHANGED <<cleared, unread>>
        \/ /\ IF S = {} THEN UNCHANGED <<dir, kept>> ELSE RenameAndSync(S)
           /\ cleared' = cleared \cup {e}
           /\ unread' = unread \cup (GrantsOf(e) \ S)
  BY DEF ConsumeGrants
<1>4. S \in SUBSET Requests /\ \A q \in S : "approved" \in dir[q] /\ rec[q].exec = e
  BY DEF GrantsOf
<1>5. /\ dir' \in [Requests -> SUBSET Dirs] /\ kept' \in [Requests -> SUBSET SUBSET Dirs]
      /\ \A q \in S : dir'[q] = (dir[q] \ {"approved"}) \cup {"consumed"}
      /\ \A q \in S : Armed(q)' => Armed(q)
      /\ \A q \in S : MayBe(kept'[q], dir'[q])
      /\ \A q \in Requests \ S : dir'[q] = dir[q] /\ Settles(q)
  <2> HIDE DEF Inv
  <2>1. CASE Rename(S, "approved", "consumed")
    BY <1>4, <2>1, ConsumingDrifts
  <2>2. CASE S # {} /\ RenameAndSync(S)
    BY <1>4, <2>2, RenameAndSyncDisarms
  <2>3. CASE S = {} /\ UNCHANGED <<dir, kept>>
    BY <2>3, StayingSettles DEF Inv, ApprovalsTypeOK
  <2> QED
    BY <1>3, <2>1, <2>2, <2>3
<1>6. /\ cleared \subseteq cleared' /\ unread \subseteq unread'
      /\ cleared' = cleared \/ cleared' \subseteq marked'
  BY <1>1, <1>3 DEF world
<1>7. ASSUME NEW q \in Requests \ S PROVE NotRetired(q)'
  <2>1. NotRetired(q)
    BY DEF RequestIsSound
  <2>2. dir'[q] = dir[q] /\ rec'[q] = rec[q] /\ returned' = returned
    BY <1>1, <1>5
  <2>3. cleared' = cleared \/ (cleared' = cleared \cup {e}
                               /\ unread' = unread \cup (GrantsOf(e) \ S))
    BY <1>3
  <2>4. "approved" \in dir[q] /\ rec[q].exec = e => q \in GrantsOf(e) \ S
    BY DEF GrantsOf
  <2> HIDE DEF Inv, e
  <2> QED
    BY <1>6, <2>1, <2>2, <2>3, <2>4 DEF NotRetired
<1>8. StepTypes(a) /\ StepApart(a, S)
  <2>1. \A q \in S : dir[q] \cap Both # {} /\ dir'[q] \ Both = dir[q] \ Both
    BY <1>4, <1>5 DEF Both
  <2>2. rec' \in [Requests -> Records] /\ redeemed' \in [Requests -> Nat]
    BY <1>1 DEF ApprovalsTypeOK
  <2>3. \A q \in Requests : rec'[q] = rec[q] /\ redeemed'[q] = redeemed[q]
    BY <1>1
  <2>4. UNCHANGED <<gens, disk, world, returned>> /\ wasted \subseteq wasted'
        /\ lock' = None /\ ~At(a, "submit")
    BY <1>1 DEF At
  <2>5. \A q \in Requests \ S :
          /\ dir'[q] = dir[q] /\ rec'[q] = rec[q] /\ redeemed'[q] = redeemed[q]
          /\ Settles(q) /\ NotRetired(q)'
    BY <1>5, <1>7, <2>3
  <2>6. /\ lock \in {a, None} /\ (lock' = lock \/ lock' = None)
        /\ op'[a].step \in Locked <=> lock' = a
        /\ op'[a].step \notin Owning /\ op'[a].done \ S = op[a].done \ S
    BY <1>1, <1>2, <2>4, NamesAreDistinct
  <2>7. cleared' = cleared \/ (lock = None /\ cleared' \subseteq marked')
    BY <1>1, <1>6
  <2>8. S \in SUBSET Requests /\ dir' \in [Requests -> SUBSET Dirs]
        /\ kept' \in [Requests -> SUBSET SUBSET Dirs] /\ unread \subseteq unread'
    BY <1>4, <1>5, <1>6
  <2>9. op' \in [Actors -> Operations] /\ \A b \in Actors \ {a} : Undisturbed(b)
    BY <1>2
  <2> HIDE DEF Inv, e
  <2> QED
    BY <2>1, <2>2, <2>4, <2>5, <2>6, <2>7, <2>8, <2>9, GrantStepIsApart
<1>9. ASSUME NEW q \in S PROVE RequestIsSound(q)'
  <2>1. q \in Requests /\ RequestIsSound(q) /\ "approved" \in dir[q] /\ rec[q].exec \in marked
    BY <1>1, <1>4
  <2>2. "approved" \notin dir'[q] /\ dir'[q] # {} /\ dir[q] # {}
    BY <1>5, <2>1
  <2>3. q \in returned \/ OneAnswer(q)'
    BY <1>5, <2>1 DEF RequestIsSound, OneAnswer
  <2>4. ~InFlight(q)'
    BY <1>1, <1>2, NobodySpends DEF InFlight
  <2>5. rec' = rec /\ redeemed' = redeemed /\ returned' = returned /\ marked' = marked
    BY <1>1 DEF world
  <2> HIDE DEF Inv
  <2>6. Budgeted(q)'
    BY <1>5, <2>1, <2>4, <2>5 DEF RequestIsSound, Budgeted
  <2>7. NotRetired(q)' /\ Accounted(q)'
    BY <2>1, <2>2, <2>5 DEF NotRetired, Accounted
  <2> QED
    BY <1>5, <2>1, <2>2, <2>3, <2>5, <2>6, <2>7 DEF RequestIsSound
<1> QED
  BY <1>2, <1>4, <1>8, <1>9, StepKeepsInv DEF StepIsSound

-----------------------------------------------------------------------------
\* Revocation.

\* A revocation touches no file of a request.
LEMMA StoreGenerationsKeepsInv ==
    ASSUME Inv, NEW a \in Actors, NEW word \in {"owner", "session"}, NEW s \in Sessions,
           StoreGenerations(a, word, s), op[a].step \in {"idle", "revoke"}
    PROVE  Inv'
<1> DEFINE o == [Idle EXCEPT !.step = "sync", !.subject = s, !.word = word]
<1> USE DEF Inv
<1>1. /\ o \in Operations /\ o.step = "sync" /\ o.subject = s /\ o.word = word
      /\ o.done = {}
  BY IdleIsAnOperation DEF Operations, Steps, Idle
<1>2. Enter(a, o)
  BY DEF StoreGenerations
<1> HIDE DEF o
<1>3. op'[a] = o
  BY <1>1, <1>2, Entering
<1>4. /\ UNCHANGED <<files, disk, marked, gone, held, outages>>
      /\ UNCHANGED <<redeemed, cleared, unread, wasted, returned>>
  BY DEF StoreGenerations, world, history
<1>5. Fits(gens') /\ Fits(disk') /\ lock = None /\ lock' = a
  BY <1>4 DEF StoreGenerations, Acquire, ApprovalsTypeOK, Fits
<1>6. ActorIsSound(a)'
  BY <1>1, <1>3
     DEF ActorIsSound, HasItsFile, ReadIsFresh, OperationIsSound, At, Judging, Deciding, Retiring
<1>7. op[a].done = {} /\ o.step \in Locked /\ o.step \notin Owning /\ ~At(a, "submit")
  BY <1>1 DEF ActorIsSound, OperationIsSound, At, Locked, Owning, Deciding, Judging
<1> QED
  BY <1>1, <1>2, <1>4, <1>5, <1>6, <1>7, FreeStepKeepsInv DEF ApprovalsTypeOK

\* An operation that ends without having changed a file of a request.
LEMMA EndingKeepsInv ==
    ASSUME Inv, NEW a \in Actors, Leave(a),
           lock' = IF lock = a THEN None ELSE lock, ~At(a, "submit"), op[a].done = {},
           UNCHANGED <<files, gens, world, redeemed, cleared, unread, wasted, returned>>,
           Fits(disk')
    PROVE  Inv'
<1>1. op'[a] = Idle /\ ActorIsSound(a)' /\ Idle.step \notin Locked \cup Owning /\ Idle.done = {}
  BY Leaving DEF Inv
<1>2. Fits(gens') /\ Enter(a, Idle) /\ Idle \in Operations /\ a # None
  BY IdleIsAnOperation, NamesAreDistinct DEF Inv, ApprovalsTypeOK, Fits, Leave
<1>3. /\ UNCHANGED <<files, redeemed, cleared, unread, returned, outages>>
      /\ marked' = marked /\ gone' = gone /\ held' = held
  BY DEF world
<1> QED
  BY <1>1, <1>2, <1>3, FreeStepKeepsInv DEF Inv, ApprovalsTypeOK

\* A revocation, refused or acknowledged, keeps the invariant.
LEMMA RevocationKeepsInv ==
    ASSUME Inv, NEW a \in Actors, RevocationStep(a)
    PROVE  Inv'
<1>1. CASE \E word \in {"owner", "session"}, s \in Sessions : Revoke(a, word, s)
  BY <1>1, StoreGenerationsKeepsInv DEF Revoke, At
<1>2. CASE RevokeAfterSweep(a)
  <2>1. op[a].subject \in Sessions /\ op[a].word \in {"owner", "session"}
    BY <1>2 DEF RevokeAfterSweep, Inv, ActorIsSound, OperationIsSound, At
  <2> QED
    BY <1>2, <2>1, StoreGenerationsKeepsInv DEF RevokeAfterSweep, At
<1>3. CASE RevokeExhausted(a) \/ SyncGenerations(a)
  <2>1. op[a].step \in {"revoke", "sync"}
    BY <1>3 DEF RevokeExhausted, SyncGenerations, At
  <2>2. ~At(a, "submit") /\ op[a].done = {}
    BY <2>1 DEF At, Inv, ActorIsSound, OperationIsSound
  <2>3. Leave(a) /\ lock' = IF lock = a THEN None ELSE lock
    BY <1>3, NamesAreDistinct DEF RevokeExhausted, SyncGenerations, Release
  <2>4. UNCHANGED <<files, gens, world, redeemed, cleared, unread, wasted, returned>>
    BY <1>3 DEF RevokeExhausted, SyncGenerations, history
  <2>5. Fits(disk')
    BY <1>3 DEF RevokeExhausted, SyncGenerations, Inv, ApprovalsTypeOK, Fits
  <2> QED
    BY <2>2, <2>3, <2>4, <2>5, EndingKeepsInv
<1> QED
  BY <1>1, <1>2, <1>3 DEF RevocationStep

-----------------------------------------------------------------------------
\* Spending.

\* A spender reads the uses of a grant under the lock.
LEMMA FindGrantKeepsInv ==
    ASSUME Inv, NEW a \in Actors, NEW q \in Requests, NEW e \in Executions \cup {None},
           FindGrant(a, q, e)
    PROVE  Inv'
<1> DEFINE o == [Idle EXCEPT !.step = "spend", !.req = q, !.uses = rec[q].uses]
<1> USE DEF Inv
<1>1. rec[q].uses \in 0 .. RepeatableUses /\ rec[q].uses > 0 /\ "approved" \in dir[q]
  BY DEF FindGrant, LoadGrant, Redeemable, ApprovalsTypeOK, Records
<1>2. /\ o \in Operations /\ o.step = "spend" /\ o.req = q /\ o.uses = rec[q].uses
      /\ o.done = {}
  BY <1>1, IdleIsAnOperation DEF Operations, Steps, Idle
<1>3. Enter(a, o)
  BY DEF FindGrant, LoadGrant
<1> HIDE DEF o
<1>4. op'[a] = o
  BY <1>2, <1>3, Entering
<1>5. /\ UNCHANGED <<files, gens, disk, world, history>> /\ lock = None /\ lock' = a
      /\ op[a].done = {} /\ ~At(a, "submit")
  BY DEF FindGrant, LoadGrant, Acquire, At, ActorIsSound, OperationIsSound
<1>6. ActorIsSound(a)'
  BY <1>1, <1>2, <1>4, <1>5
     DEF ActorIsSound, HasItsFile, ReadIsFresh, OperationIsSound, At, Judging, Deciding,
         Retiring, files
<1>7. o.step \in Locked /\ o.step \notin Owning /\ Fits(gens') /\ Fits(disk')
  BY <1>2, <1>5 DEF Locked, Owning, Deciding, Judging, ApprovalsTypeOK, Fits
<1> QED
  BY <1>2, <1>3, <1>5, <1>6, <1>7, FreeStepKeepsInv DEF world, history, ApprovalsTypeOK

\* A set is listed under the lock, so its grants stay where they are.
LEMMA FindSetKeepsInv ==
    ASSUME Inv, NEW a \in Actors, NEW S \in SUBSET Requests, FindSet(a, S)
    PROVE  Inv'
<1> DEFINE o == [Idle EXCEPT !.step = "set", !.todo = S]
<1> USE DEF Inv
<1>1. \A q \in S : "approved" \in dir[q] /\ rec[q].exec = None /\ rec[q].uses > 0
  BY DEF FindSet, ListSet, Redeemable
<1>2. o \in Operations /\ o.step = "set" /\ o.todo = S /\ o.done = {}
  BY IdleIsAnOperation DEF Operations, Steps, Idle
<1>3. Enter(a, o)
  BY DEF FindSet, ListSet
<1> HIDE DEF o
<1>4. op'[a] = o
  BY <1>2, <1>3, Entering
<1>5. /\ UNCHANGED <<files, gens, disk, world, history>> /\ lock = None /\ lock' = a
      /\ op[a].done = {} /\ ~At(a, "submit")
  BY DEF FindSet, ListSet, Acquire, At, ActorIsSound, OperationIsSound
<1>6. ActorIsSound(a)'
  BY <1>1, <1>2, <1>4, <1>5
     DEF ActorIsSound, HasItsFile, ReadIsFresh, OperationIsSound, At, Judging, Deciding,
         Retiring, files
<1>7. o.step \in Locked /\ o.step \notin Owning /\ Fits(gens') /\ Fits(disk')
  BY <1>2, <1>5 DEF Locked, Owning, Deciding, Judging, ApprovalsTypeOK, Fits
<1> QED
  BY <1>2, <1>3, <1>5, <1>6, <1>7, FreeStepKeepsInv DEF world, history, ApprovalsTypeOK

\* A use is reported at most once and counted down or consumed with it.
LEMMA SpendKeepsInv ==
    ASSUME Inv, NEW a \in Actors, Spend(a)
    PROVE  Inv'
<1> USE DEF Inv
<1>1. PICK q \in Requests : /\ q = op[a].req /\ "approved" \in dir[q]
                            /\ op[a].uses = rec[q].uses /\ op[a].uses > 0
  BY DEF Spend, ActorIsSound, ReadIsFresh
<1>2. /\ op' \in [Actors -> Operations] /\ op'[a] = Idle
      /\ \A b \in Actors \ {a} : op'[b] = op[b]
      /\ \A b \in Actors \ {a} : Undisturbed(b)
      /\ op'[a].step \notin Locked \cup Owning /\ op'[a].done = {}
      /\ ActorIsSound(a)'
  BY Leaving DEF Spend
<1>3. /\ UNCHANGED <<gens, disk, world, revoked, cleared, unread, returned>>
      /\ lock = a /\ lock' = None /\ op[a].done = {} /\ ~At(a, "submit")
  BY DEF Spend, Release, ApprovalsTypeOK, At, Locked, ActorIsSound, OperationIsSound
<1>4. PICK left \in {0, op[a].uses - 1} :
        IF left = 0 THEN SpendLast(q) ELSE SpendOne(q, left)
  BY <1>1 DEF Spend
<1>5. /\ rec[q] \in Records /\ redeemed[q] \in Nat /\ rec[q].uses \in Nat
      /\ redeemed[q] + rec[q].uses <= UsesOf(rec[q].duration)
      /\ UsesOf(rec[q].duration) \in Nat
      /\ rec[q].session \in Sessions /\ NotRetired(q)
      /\ q \in returned \/ OneAnswer(q)
  <2>1. RequestIsSound(q) /\ rec[q] \in Records /\ redeemed[q] \in Nat
    BY DEF ApprovalsTypeOK
  <2>2. Armed(q)
    BY <1>1, <2>1 DEF RequestIsSound, MayBe, Armed
  <2> QED
    BY <1>1, <2>1, <2>2, LimitsAreNatural DEF RequestIsSound, Budgeted, UsesOf, Records
<1>6. ~InFlight(q)'
  BY <1>2, <1>3, NobodySpends DEF InFlight
<1> HIDE DEF Inv
<1>7. SUFFICES
        /\ dir' \in [Requests -> SUBSET Dirs] /\ kept' \in [Requests -> SUBSET SUBSET Dirs]
        /\ rec' \in [Requests -> Records] /\ redeemed' \in [Requests -> Nat]
        /\ dir'[q] \ Both = dir[q] \ Both /\ wasted \subseteq wasted'
        /\ \A r \in Requests \ {q} :
             dir'[r] = dir[r] /\ rec'[r] = rec[r] /\ redeemed'[r] = redeemed[r] /\ Settles(r)
        /\ RequestIsSound(q)'
  <2>1. \A r \in Requests \ {q} : NotRetired(r)'
    BY <1>3, <1>7, StaysUnretired
  <2>2. dir[q] \cap Both # {}
    BY <1>1 DEF Both
  <2>3. StepTypes(a) /\ StepApart(a, {q})
    BY <1>2, <1>3, <1>7, <2>1, <2>2, NamesAreDistinct, GrantStepIsApart
  <2> QED
    BY <1>2, <1>7, <2>3, StepKeepsInv DEF StepIsSound
<1>8. rec \in [Requests -> Records] /\ redeemed \in [Requests -> Nat]
      /\ dir \in [Requests -> SUBSET Dirs]
  BY DEF Inv, ApprovalsTypeOK
<1>9. CASE left = 0 /\ RenameAndSync({q}) /\ Report(q) /\ UNCHANGED rec
  <2>1. /\ dir' \in [Requests -> SUBSET Dirs] /\ kept' \in [Requests -> SUBSET SUBSET Dirs]
        /\ dir'[q] = (dir[q] \ {"approved"}) \cup {"consumed"} /\ ~Armed(q)'
        /\ \A r \in Requests \ {q} : dir'[r] = dir[r] /\ Settles(r)
        /\ MayBe(kept'[q], dir'[q])
    BY <1>1, <1>9, RenameAndSyncDisarms
  <2>2. /\ redeemed' \in [Requests -> Nat] /\ redeemed'[q] = redeemed[q] + 1
        /\ \A r \in Requests \ {q} : redeemed'[r] = redeemed[r] /\ wasted' = wasted
        /\ rec' = rec /\ wasted' = wasted
    BY <1>8, <1>9 DEF Report
  <2>3. q \in returned \/ OneAnswer(q)'
    BY <1>1, <1>5, <2>1 DEF OneAnswer
  <2>4. Budgeted(q)'
    BY <1>1, <1>5, <1>6, <2>1, <2>2 DEF Budgeted
  <2>5. NotRetired(q)' /\ Accounted(q)'
    BY <1>5, <2>1, <2>2 DEF NotRetired, Accounted
  <2>6. RequestIsSound(q)'
    BY <1>3, <1>5, <2>1, <2>2, <2>3, <2>4, <2>5 DEF RequestIsSound
  <2> QED
    BY <1>8, <2>1, <2>2, <2>6 DEF Both
<1>10. CASE /\ left = 0 /\ Rename({q}, "approved", "consumed")
            /\ wasted' = wasted \cup {q} /\ UNCHANGED <<rec, redeemed>>
  <2>1. /\ dir' \in [Requests -> SUBSET Dirs] /\ kept' \in [Requests -> SUBSET SUBSET Dirs]
        /\ dir'[q] = (dir[q] \ {"approved"}) \cup {"consumed"}
        /\ \A r \in Requests \ {q} : dir'[r] = dir[r] /\ Settles(r)
        /\ MayBe(kept'[q], dir'[q])
    BY <1>1, <1>10, ConsumingDrifts
  <2>2. q \in returned \/ OneAnswer(q)'
    BY <1>1, <1>5, <2>1 DEF OneAnswer
  <2>3. Budgeted(q)'
    BY <1>5, <1>10 DEF Budgeted
  <2>4. NotRetired(q)' /\ Accounted(q)'
    BY <1>10, <2>1 DEF NotRetired, Accounted
  <2>5. RequestIsSound(q)'
    BY <1>3, <1>5, <1>10, <2>1, <2>2, <2>3, <2>4 DEF RequestIsSound
  <2> QED
    BY <1>8, <1>10, <2>1, <2>5 DEF Both
<1>11. ASSUME left # 0
       PROVE  /\ left = rec[q].uses - 1 /\ left \in 0 .. RepeatableUses
              /\ rec' \in [Requests -> Records]
              /\ \A r \in Requests \ {q} : rec'[r] = rec[r]
              /\ rec'[q].uses = left /\ rec'[q].exec = rec[q].exec
              /\ rec'[q].session = rec[q].session /\ rec'[q].duration = rec[q].duration
  <2>1. rec' = [rec EXCEPT ![q].uses = left]
    BY <1>4, <1>11 DEF SpendOne
  <2>2. left = rec[q].uses - 1 /\ left \in 0 .. RepeatableUses
    BY <1>1, <1>5, <1>11, LimitsAreNatural DEF Records
  <2>3. /\ rec' \in [Requests -> Records] /\ rec'[q] = [rec[q] EXCEPT !.uses = left]
        /\ \A r \in Requests \ {q} : rec'[r] = rec[r]
    BY <1>5, <1>8, <2>1, <2>2 DEF Records
  <2> QED
    BY <1>5, <2>2, <2>3 DEF Records
<1>12. CASE left # 0 /\ Outcome(q, "approved") /\ UNCHANGED <<redeemed, wasted>>
  <2>1. /\ dir' \in [Requests -> SUBSET Dirs] /\ kept' \in [Requests -> SUBSET SUBSET Dirs]
        /\ dir'[q] = dir[q] \cup {"approved"} /\ MayBe(kept'[q], dir'[q])
        /\ \A r \in Requests \ {q} : dir'[r] = dir[r] /\ Settles(r)
    BY <1>1, <1>12, OutcomeDrifts DEF Dirs
  <2>2. dir'[q] = dir[q]
    BY <1>1, <2>1
  <2>3. RequestIsSound(q)'
    <3>1. Budgeted(q)'
      BY <1>5, <1>11, <1>12 DEF Budgeted
    <3>2. RequestIsSound(q)
      BY DEF Inv
    <3>3. NotRetired(q)' /\ Accounted(q)'
      BY <1>3, <1>5, <1>6, <1>11, <1>12, <2>2, <3>2, NobodySpends
         DEF NotRetired, Accounted, RequestIsSound, InFlight, world
    <3> QED
      BY <1>1, <1>3, <1>5, <1>11, <1>12, <2>1, <2>2, <3>1, <3>3 DEF RequestIsSound, OneAnswer
  <2> QED
    BY <1>8, <1>11, <1>12, <2>1, <2>2, <2>3
<1>13. CASE /\ left # 0 /\ Report(q)
            /\ dir' = [dir EXCEPT ![q] = @ \cup {"approved"}]
            /\ kept' = Synced(kept, dir', {"approved"})
  <2>1. dir' = dir
    <3>1. dir[q] \cup {"approved"} = dir[q]
      BY <1>1
    <3> QED
      BY <1>8, <1>13, <3>1
  <2>2. /\ kept' \in [Requests -> SUBSET SUBSET Dirs] /\ \A r \in Requests : Settles(r)
    BY <1>13, <2>1, SyncSettles DEF Dirs
  <2>3. /\ redeemed' \in [Requests -> Nat] /\ redeemed'[q] = redeemed[q] + 1
        /\ \A r \in Requests \ {q} : redeemed'[r] = redeemed[r]
        /\ wasted' = wasted
    BY <1>8, <1>13 DEF Report
  <2>4. RequestIsSound(q)'
    <3>1. Budgeted(q)'
      BY <1>5, <1>11, <1>13, <2>3 DEF Budgeted
    <3>2. NotRetired(q)' /\ Accounted(q)'
      BY <1>3, <1>5, <1>11, <1>13, <2>1, <2>3 DEF NotRetired, Accounted
    <3>3. MayBe(kept'[q], dir'[q])
      BY <2>2 DEF Settles
    <3> QED
      BY <1>1, <1>3, <1>5, <1>11, <1>13, <2>1, <3>1, <3>2, <3>3 DEF RequestIsSound, OneAnswer
  <2> QED
    BY <1>8, <1>11, <1>13, <2>1, <2>2, <2>3, <2>4
<1> QED
  BY <1>1, <1>4, <1>9, <1>10, <1>12, <1>13 DEF SpendLast, SpendOne

\* A grant of the set that was moved keeps its budget until the set is spent.
LEMMA MoveOneKeepsInv ==
    ASSUME Inv, NEW a \in Actors, NEW q \in Requests, MoveOne(a, q)
    PROVE  Inv'
<1> DEFINE o == [op[a] EXCEPT !.todo = @ \ {q}, !.done = @ \cup {q}]
<1> USE DEF Inv
<1>1. /\ op[a] \in Operations /\ At(a, "set") /\ q \in op[a].todo /\ "approved" \in dir[q]
      /\ lock = a /\ ReadIsFresh(a) /\ RequestIsSound(q)
      /\ UNCHANGED <<rec, gens, disk, lock, world, history>>
  BY DEF MoveOne, ApprovalsTypeOK, At, Locked, ActorIsSound
<1>2. /\ o \in Operations /\ o.step = "set"
      /\ o.todo = op[a].todo \ {q} /\ o.done = op[a].done \cup {q}
  BY <1>1 DEF Operations, At
<1>3. Enter(a, o)
  BY DEF MoveOne
<1> HIDE DEF o
<1>4. /\ op' \in [Actors -> Operations] /\ op'[a] = o
      /\ \A b \in Actors \ {a} : op'[b] = op[b]
      /\ \A b \in Actors \ {a} : Undisturbed(b)
  BY <1>1, <1>2, <1>3, Entering
<1> HIDE DEF Inv
<1>5. /\ dir' \in [Requests -> SUBSET Dirs] /\ kept' \in [Requests -> SUBSET SUBSET Dirs]
      /\ dir'[q] = (dir[q] \ {"approved"}) \cup {"consumed"}
      /\ \A r \in Requests \ {q} : dir'[r] = dir[r] /\ Settles(r)
      /\ MayBe(kept'[q], dir'[q])
  BY <1>1, ConsumingDrifts DEF MoveOne
<1>6. /\ UNCHANGED <<redeemed, cleared, unread, wasted, returned>>
  BY <1>1 DEF history
<1>7. StepTypes(a) /\ StepApart(a, {q})
  <2>1. \A r \in Requests \ {q} : NotRetired(r)'
    BY <1>1, <1>5, <1>6, StaysUnretired
  <2>2. dir[q] \cap Both # {} /\ dir'[q] \ Both = dir[q] \ Both
    BY <1>1, <1>5 DEF Both
  <2>3. rec' \in [Requests -> Records] /\ redeemed' \in [Requests -> Nat]
    BY <1>1, <1>6 DEF Inv, ApprovalsTypeOK
  <2>4. o.step \in Locked /\ o.step \notin Owning /\ ~At(a, "submit")
        /\ o.done \ {q} = op[a].done \ {q}
    BY <1>1, <1>2 DEF Locked, Owning, Deciding, Judging, At
  <2> QED
    BY <1>1, <1>4, <1>5, <1>6, <2>1, <2>2, <2>3, <2>4, GrantStepIsApart
<1>8. ActorIsSound(a)'
  <2>1. op[a].todo \subseteq Requests /\ op[a].done \subseteq Requests
    BY <1>1 DEF Operations
  <2>2. \A r \in op[a].todo \ {q} : "approved" \in dir'[r]
    BY <1>1, <1>5, <2>1 DEF ReadIsFresh, At
  <2>3. \A r \in op[a].done \cup {q} : "consumed" \in dir'[r] /\ "approved" \notin dir'[r]
    BY <1>1, <1>5, <2>1 DEF ReadIsFresh, At
  <2>4. \A r \in op[a].todo \cup op[a].done : rec'[r].exec = None /\ rec'[r].uses > 0
    BY <1>1, <2>1 DEF ReadIsFresh, At
  <2> QED
    BY <1>1, <1>2, <1>4, <2>2, <2>3, <2>4
       DEF ActorIsSound, HasItsFile, ReadIsFresh, OperationIsSound, At, Judging, Deciding,
           Retiring
<1>9. RequestIsSound(q)'
  <2>1. Armed(q)
    BY <1>1 DEF RequestIsSound, MayBe, Armed
  <2>2. InFlight(q)'
    BY <1>2, <1>4 DEF InFlight
  <2>3. Budgeted(q)'
    BY <1>1, <1>6, <2>1 DEF RequestIsSound, Budgeted
  <2>4. q \in returned \/ OneAnswer(q)'
    BY <1>1, <1>5 DEF RequestIsSound, OneAnswer
  <2>5. NotRetired(q)' /\ Accounted(q)'
    BY <1>5, <2>2 DEF NotRetired, Accounted
  <2> QED
    BY <1>1, <1>5, <1>6, <2>3, <2>4, <2>5 DEF RequestIsSound
<1> QED
  BY <1>7, <1>8, <1>9, StepKeepsInv DEF StepIsSound

\* After a rename that failed the set is only moved back.
LEMMA MoveFailsKeepsInv ==
    ASSUME Inv, NEW a \in Actors, MoveFails(a)
    PROVE  Inv'
<1> DEFINE o == [op[a] EXCEPT !.step = "undo", !.todo = {}]
<1> USE DEF Inv
<1>1. /\ op[a] \in Operations /\ At(a, "set") /\ lock = a /\ ReadIsFresh(a)
      /\ UNCHANGED <<files, gens, disk, lock, world, history>>
  BY DEF MoveFails, ApprovalsTypeOK, At, Locked, ActorIsSound
<1>2. o \in Operations /\ o.step = "undo" /\ o.todo = {} /\ o.done = op[a].done
  BY <1>1 DEF Operations, Steps
<1>3. Enter(a, o)
  BY DEF MoveFails
<1> HIDE DEF o
<1>4. op'[a] = o
  BY <1>2, <1>3, Entering
<1>5. ActorIsSound(a)'
  BY <1>1, <1>2, <1>4
     DEF ActorIsSound, HasItsFile, ReadIsFresh, OperationIsSound, At, Judging, Deciding,
         Retiring, files
<1>6. o.step \in Locked /\ o.step \notin Owning /\ ~At(a, "submit")
      /\ Fits(gens') /\ Fits(disk')
  BY <1>1, <1>2 DEF Locked, Owning, Deciding, Judging, At, ApprovalsTypeOK, Fits
<1> QED
  BY <1>1, <1>2, <1>3, <1>5, <1>6, FreeStepKeepsInv DEF world, history, ApprovalsTypeOK

\* A grant that is put back, or cannot be, has the budget it had.
LEMMA RollBackKeepsInv ==
    ASSUME Inv, NEW a \in Actors, NEW q \in Requests, RollBack(a, q)
    PROVE  Inv'
<1> DEFINE o == [op[a] EXCEPT !.done = @ \ {q}]
<1> USE DEF Inv
<1>1. /\ op[a] \in Operations /\ At(a, "undo") /\ q \in op[a].done
      /\ lock = a /\ ReadIsFresh(a) /\ RequestIsSound(q)
      /\ UNCHANGED <<rec, gens, disk, lock, world, redeemed, revoked, cleared, unread, returned>>
  BY DEF RollBack, ApprovalsTypeOK, At, Locked, ActorIsSound
<1>2. o \in Operations /\ o.step = "undo" /\ o.todo = op[a].todo /\ o.done = op[a].done \ {q}
  BY <1>1 DEF Operations, At
<1>3. Enter(a, o)
  BY DEF RollBack
<1> HIDE DEF o
<1>4. /\ op' \in [Actors -> Operations] /\ op'[a] = o
      /\ \A b \in Actors \ {a} : op'[b] = op[b]
      /\ \A b \in Actors \ {a} : Undisturbed(b)
  BY <1>1, <1>2, <1>3, Entering
<1>5. /\ "consumed" \in dir[q] /\ "approved" \notin dir[q] /\ rec[q].exec \notin cleared
      /\ op[a].done \subseteq Requests /\ op[a].todo \subseteq Requests
  BY <1>1, NamesAreDistinct DEF ReadIsFresh, At, ApprovalsTypeOK, Executions, Operations
<1> HIDE DEF Inv
<1>7. /\ dir' \in [Requests -> SUBSET Dirs] /\ kept' \in [Requests -> SUBSET SUBSET Dirs]
      /\ \A r \in Requests \ {q} : dir'[r] = dir[r] /\ Settles(r)
      /\ MayBe(kept'[q], dir'[q])
      /\ \/ dir'[q] = (dir[q] \ {"consumed"}) \cup {"approved"} /\ wasted' = wasted
         \/ dir'[q] = dir[q] /\ wasted' = wasted \cup {q}
  <2>1. CASE Rename({q}, "consumed", "approved") /\ UNCHANGED wasted
    BY <1>5, <2>1, RenameDrifts DEF Dirs
  <2>2. CASE wasted' = wasted \cup {q} /\ UNCHANGED <<dir, kept>>
    <3>1. \A r \in Requests : Settles(r)
      BY <2>2, StayingSettles
    <3> QED
      BY <2>2, <3>1 DEF Settles, Inv, ApprovalsTypeOK
  <2> QED
    BY <2>1, <2>2 DEF RollBack
<1>8. StepTypes(a) /\ StepApart(a, {q})
  <2>1. \A r \in Requests \ {q} : NotRetired(r)'
    BY <1>1, <1>7, StaysUnretired
  <2>2. dir[q] \cap Both # {} /\ dir'[q] \ Both = dir[q] \ Both
    BY <1>5, <1>7 DEF Both
  <2>3. rec' \in [Requests -> Records] /\ redeemed' \in [Requests -> Nat]
    BY <1>1 DEF Inv, ApprovalsTypeOK
  <2>4. o.step \in Locked /\ o.step \notin Owning /\ ~At(a, "submit")
        /\ o.done \ {q} = op[a].done \ {q} /\ wasted \subseteq wasted'
    BY <1>1, <1>2, <1>7 DEF Locked, Owning, Deciding, Judging, At
  <2> QED
    BY <1>1, <1>4, <1>7, <2>1, <2>2, <2>3, <2>4, GrantStepIsApart
<1>9. ActorIsSound(a)'
  <2>1. \A r \in op[a].todo : "approved" \in dir'[r]
    BY <1>1, <1>5, <1>7 DEF ReadIsFresh, At
  <2>2. \A r \in op[a].done \ {q} : "consumed" \in dir'[r] /\ "approved" \notin dir'[r]
    BY <1>1, <1>5, <1>7 DEF ReadIsFresh, At
  <2>3. \A r \in op[a].todo \cup op[a].done : rec'[r].exec = None /\ rec'[r].uses > 0
    BY <1>1 DEF ReadIsFresh, At
  <2> QED
    BY <1>1, <1>2, <1>4, <2>1, <2>2, <2>3
       DEF ActorIsSound, HasItsFile, ReadIsFresh, OperationIsSound, At, Judging, Deciding,
           Retiring
<1>10. RequestIsSound(q)'
  <2>1. InFlight(q)
    BY <1>1 DEF InFlight
  <2>2. Budgeted(q)'
    BY <1>1, <2>1 DEF RequestIsSound, Budgeted
  <2>3. q \in returned \/ OneAnswer(q)'
    BY <1>1, <1>5, <1>7 DEF RequestIsSound, OneAnswer
  <2>4. NotRetired(q)' /\ Accounted(q)'
    BY <1>1, <1>5, <1>7 DEF NotRetired, Accounted
  <2> QED
    BY <1>1, <1>5, <1>7, <2>2, <2>3, <2>4 DEF RequestIsSound
<1> QED
  BY <1>8, <1>9, <1>10, StepKeepsInv DEF StepIsSound

\* The end of a set, spent or put back: the directories are synced.
LEMMA SetEndsKeepsInv ==
    ASSUME Inv, NEW a \in Actors, SetIsRolledBack(a) \/ SetIsSpent(a)
    PROVE  Inv'
<1> DEFINE S == op[a].done
<1> USE DEF Inv
<1>1. /\ lock = a /\ lock' = None /\ op[a].step \in {"set", "undo"} /\ ReadIsFresh(a)
      /\ SyncSet(a) /\ UNCHANGED <<dir, rec, gens, disk, world, wasted>>
      /\ UNCHANGED <<cleared, unread, returned>>
  BY DEF SetIsRolledBack, SetIsSpent, SyncSet, Release, ApprovalsTypeOK, At, Locked,
     ActorIsSound, history
<1>2. /\ op' \in [Actors -> Operations] /\ op'[a] = Idle
      /\ \A b \in Actors \ {a} : op'[b] = op[b]
      /\ \A b \in Actors \ {a} : Undisturbed(b)
      /\ op'[a].step \notin Locked \cup Owning /\ op'[a].done = {}
      /\ ActorIsSound(a)'
  BY <1>1, Leaving DEF SyncSet
<1>3. S \in SUBSET Requests
  BY DEF ApprovalsTypeOK, Operations
<1>4. \A q \in S : "consumed" \in dir[q] /\ "approved" \notin dir[q] /\ rec[q].uses > 0
  BY <1>1 DEF ReadIsFresh
<1>5. redeemed' = [q \in Requests |-> redeemed[q] + (IF q \in S THEN 1 ELSE 0)]
  <2>1. CASE SetIsRolledBack(a)
    <3>1. S = {} /\ redeemed' = redeemed
      BY <2>1 DEF SetIsRolledBack, history
    <3> HIDE DEF S
    <3> QED
      BY <3>1 DEF ApprovalsTypeOK
  <2>2. CASE SetIsSpent(a)
    BY <2>2 DEF SetIsSpent
  <2> QED BY <2>1, <2>2
<1> HIDE DEF S
<1>6. /\ redeemed' \in [Requests -> Nat]
      /\ \A q \in Requests \ S : redeemed'[q] = redeemed[q]
      /\ \A q \in S : redeemed'[q] = redeemed[q] + 1
  BY <1>3, <1>5 DEF ApprovalsTypeOK
<1>7. dir' \in [Requests -> SUBSET Dirs] /\ rec' \in [Requests -> Records]
  BY <1>1 DEF ApprovalsTypeOK
<1> HIDE DEF Inv
<1>8. /\ kept' \in [Requests -> SUBSET SUBSET Dirs] /\ \A q \in Requests : Settles(q)
      /\ \A q \in Requests : "approved" \in Both \ dir[q] => ~Armed(q)'
  <2>1. kept' = Synced(kept, dir', Both) /\ Both \in SUBSET Dirs
    BY <1>1 DEF SyncSet, Both, Dirs
  <2> QED
    BY <1>1, <2>1, SyncSettles
<1>9. StepTypes(a) /\ StepApart(a, S)
  <2>1. \A r \in Requests : NotRetired(r)'
    BY <1>1, StaysUnretired
  <2>2. \A q \in S : dir[q] \cap Both # {} /\ dir'[q] \ Both = dir[q] \ Both
    BY <1>1, <1>4 DEF Both
  <2>3. ~At(a, "submit") /\ op'[a].done \ S = op[a].done \ S
    BY <1>1, <1>2 DEF At, S
  <2> QED
    BY <1>1, <1>2, <1>3, <1>6, <1>7, <1>8, <2>1, <2>2, <2>3, NamesAreDistinct, GrantStepIsApart
<1>10. ASSUME NEW q \in S PROVE RequestIsSound(q)'
  <2>1. q \in Requests /\ RequestIsSound(q) /\ InFlight(q)
    BY <1>3 DEF InFlight, S, Inv
  <2>2. /\ redeemed[q] \in Nat /\ rec[q].uses \in Nat /\ UsesOf(rec[q].duration) \in Nat
        /\ redeemed[q] + rec[q].uses <= UsesOf(rec[q].duration)
    BY <2>1, LimitsAreNatural DEF RequestIsSound, Budgeted, Inv, ApprovalsTypeOK, UsesOf, Records
  <2>3. ~Armed(q)' /\ ~InFlight(q)' /\ MayBe(kept'[q], dir'[q])
    BY <1>1, <1>2, <1>4, <1>8, <2>1, NobodySpends DEF InFlight, Both, Settles
  <2>4. Budgeted(q)'
    BY <1>1, <1>4, <1>6, <2>2, <2>3 DEF Budgeted
  <2>5. NotRetired(q)' /\ Accounted(q)'
    BY <1>1, <1>4, <1>6, <2>2 DEF NotRetired, Accounted
  <2> QED
    BY <1>1, <1>4, <2>1, <2>3, <2>4, <2>5 DEF RequestIsSound, OneAnswer
<1> QED
  BY <1>2, <1>3, <1>9, <1>10, StepKeepsInv DEF StepIsSound

\* Looking up a status changes nothing but the reader.
LEMMA ReadingKeepsInv ==
    ASSUME Inv, NEW a \in Actors, ReadingStep(a)
    PROVE  Inv'
<1> USE DEF Inv
<1>1. op[a] \in Operations /\ op[a].step \in {"idle", "scan"} /\ op[a].done = {}
      /\ ~At(a, "submit") /\ lock # a
  BY DEF ReadingStep, ScanOne, AnswerUnknown, FindsNothing, BeginScan, ApprovalsTypeOK,
     ActorIsSound, OperationIsSound, At, Locked
<1>2. UNCHANGED <<files, gens, disk, lock, world, redeemed, cleared, unread, wasted, returned>>
  BY DEF ReadingStep, ScanOne, AnswerUnknown, BeginScan, history
<1>3. Fits(gens') /\ Fits(disk')
  BY <1>2 DEF ApprovalsTypeOK, Fits
<1>4. CASE Leave(a)
  BY <1>1, <1>2, <1>3, <1>4, EndingKeepsInv
<1>5. CASE ~Leave(a)
  <2>1. Len(ScanOrder) = 5
    BY DEF ScanOrder
  <2>2. PICK o \in Operations : Enter(a, o) /\ o.step = "scan" /\ o.done = {}
    <3>1. CASE ScanOne(a)
      <4> DEFINE w == IF FoundAt(op[a]) THEN "unread" ELSE op[a].word
      <4> DEFINE o == [op[a] EXCEPT !.at = @ + 1, !.word = w]
      <4>1. Enter(a, o) /\ At(a, "scan") /\ ~(op[a].at > Len(ScanOrder))
        BY <1>5, <3>1 DEF ScanOne, FindsNothing
      <4>2. /\ op[a].at + 1 \in 0 .. Len(ScanOrder) + 1
            /\ w \in {"none", "deny", "once", "repeat", "owner", "session", "restored", "unread"}
        BY <1>1, <2>1, <4>1 DEF Operations
      <4> HIDE DEF w
      <4>3. o \in Operations /\ o.step = "scan" /\ o.done = {}
        BY <1>1, <4>1, <4>2 DEF Operations, At
      <4> QED
        BY <4>1, <4>3
    <3>2. CASE \E q \in Scanned : BeginScan(a, q)
      <4>1. PICK q \in Requests : BeginScan(a, q)
        BY <3>2, ScansAreOfRequests
      <4> DEFINE o == [Idle EXCEPT !.step = "scan", !.req = q, !.at = 1]
      <4>2. 1 \in 0 .. Len(ScanOrder) + 1
        BY <2>1
      <4>3. o \in Operations /\ o.step = "scan" /\ o.done = {}
        BY <4>2, IdleIsAnOperation DEF Operations, Steps, Idle
      <4>4. Enter(a, o)
        BY <4>1 DEF BeginScan
      <4> QED
        BY <4>3, <4>4
    <3> QED
      BY <1>5, <3>1, <3>2 DEF ReadingStep, AnswerUnknown
  <2>3. op'[a] = o
    BY <2>2, Entering
  <2>4. ActorIsSound(a)'
    BY <2>2, <2>3
       DEF ActorIsSound, HasItsFile, ReadIsFresh, OperationIsSound, At, Judging, Deciding, Retiring
  <2>5. o.step \notin Locked \cup Owning
    BY <2>2 DEF Locked, Owning, Deciding, Judging
  <2> QED
    BY <1>1, <1>2, <1>3, <2>2, <2>4, <2>5, FreeStepKeepsInv DEF world, ApprovalsTypeOK
<1> QED
  BY <1>4, <1>5


-----------------------------------------------------------------------------
\* Failures.

\* What a cut-short filing leaves is a request that was never made.
LEMMA UnfiledIsSound ==
    ASSUME Inv, NEW A \in SUBSET Actors
    PROVE  /\ Unfiled(A) \in [Requests -> Records]
           /\ \A q \in Requests :
                Unfiled(A)[q] # rec[q] =>
                  /\ Unfiled(A)[q] = NoRecord /\ dir[q] = {}
                  /\ \E a \in A : At(a, "submit") /\ op[a].req = q
<1> USE DEF Inv
<1>1. NoRecord \in Records
  BY LimitsAreNatural DEF NoRecord, Records
<1>2. Unfiled(A) \in [Requests -> Records]
  BY <1>1 DEF Unfiled, ApprovalsTypeOK
<1>3. ASSUME NEW q \in Requests, Unfiled(A)[q] # rec[q]
      PROVE  /\ Unfiled(A)[q] = NoRecord /\ dir[q] = {}
             /\ \E a \in A : At(a, "submit") /\ op[a].req = q
  BY <1>3 DEF Unfiled, ActorIsSound, HasItsFile
<1> QED
  BY <1>2, <1>3

\* A death leaves files that nobody works on, and takes back an unfinished
\* filing.  What it had moved of a set is marked as wasted.
LEMMA CutShortKeepsInv ==
    ASSUME Inv, NEW a \in Actors, CutShort(a)
    PROVE  Inv'
<1> DEFINE F == {q \in Requests : rec'[q] # rec[q]}
           S == F \cup op[a].done
<1> USE DEF Inv
<1>1. /\ op' \in [Actors -> Operations] /\ op'[a] = Idle
      /\ \A b \in Actors \ {a} : op'[b] = op[b]
      /\ \A b \in Actors \ {a} : Undisturbed(b)
      /\ op'[a].step \notin Locked \cup Owning /\ op'[a].done = {}
      /\ ActorIsSound(a)'
  BY Leaving DEF CutShort
<1>2. /\ UNCHANGED <<dir, kept, gens, disk, world, redeemed, cleared, unread, returned>>
      /\ lock' = (IF lock = a THEN None ELSE lock) /\ rec' = Unfiled({a})
      /\ wasted' = wasted \cup op[a].done
  BY DEF CutShort, Release, Taken
<1>3. op[a] \in Operations /\ op[a].done \in SUBSET Requests
  BY DEF ApprovalsTypeOK, Operations
<1>4. rec' \in [Requests -> Records]
  BY <1>2, UnfiledIsSound
<1>5. ASSUME NEW q \in F
      PROVE  /\ q \in Requests /\ rec'[q] = NoRecord /\ dir[q] = {}
             /\ At(a, "submit") /\ op[a].req = q
  BY <1>2, UnfiledIsSound
<1>6. ASSUME NEW q \in op[a].done
      PROVE  /\ q \in Requests /\ lock = a /\ "consumed" \in dir[q] /\ "approved" \notin dir[q]
             /\ q \notin F
  BY <1>3, <1>5 DEF ActorIsSound, ReadIsFresh, OperationIsSound, ApprovalsTypeOK, Locked
<1>7. At(a, "submit") => op[a].req \in F
  <2>1. At(a, "submit") => op[a].req \in Requests /\ rec[op[a].req].session \in Sessions
    BY DEF ActorIsSound, HasItsFile
  <2>2. At(a, "submit") => rec'[op[a].req] = NoRecord /\ NoRecord.session = None
    BY <1>2, <2>1 DEF Unfiled, NoRecord
  <2> QED
    BY <2>1, <2>2, NamesAreDistinct
<1>8. F \in SUBSET Requests /\ S \in SUBSET Requests
  BY <1>3
<1> HIDE DEF Inv, F
<1>9. \A q \in Requests : Settles(q)
  BY <1>2, StayingSettles
<1>10. StepTypes(a)
  BY <1>1, <1>2, <1>4, NamesAreDistinct DEF StepTypes, Inv, ApprovalsTypeOK, Fits, world
<1>11. \A q \in Requests \ S : rec'[q] = rec[q]
  BY DEF F
<1>12. StepApart(a, S)
  <2>1. ASSUME NEW q \in F, NEW b \in Actors \ {a}
        PROVE  ~Owns(b, q) /\ (Uses(b, q) => SameGrant(q))
    <3>1. Owns(a, q) /\ q \in Requests /\ dir[q] = {}
      BY <1>5 DEF Owns, At, Owning
    <3>2. ~Uses(b, q)
      <4>1. ReadIsFresh(b)
        BY DEF Inv, ActorIsSound
      <4> QED
        BY <3>1, <4>1 DEF Uses, ReadIsFresh, At
    <3> QED
      BY <3>1, <3>2, NobodyElse
  <2>2. ASSUME NEW q \in op[a].done, NEW b \in Actors \ {a}
        PROVE  (Owns(b, q) => SameQuestion(b, q)) /\ (Uses(b, q) => SameGrant(q))
    <3>1. lock \in {a, None} /\ dir[q] \cap Both # {} /\ dir'[q] \ Both = dir[q] \ Both
          /\ q \in Requests
      BY <1>2, <1>6 DEF Both
    <3> QED
      BY <3>1, OnlyGrants
  <2>3. \A q \in Requests \ S : NotRetired(q)'
    BY <1>2, <1>11, StaysUnretired
  <2>4. op'[a].done \ S = op[a].done \ S
    BY <1>1
  <2>5. At(a, "submit") => op[a].req \in S
    BY <1>7
  <2>6. \A q \in S, b \in Actors \ {a} :
          (Owns(b, q) => SameQuestion(b, q)) /\ (Uses(b, q) => SameGrant(q))
    BY <2>1, <2>2
  <2>7. wasted \subseteq wasted'
    BY <1>2
  <2> HIDE DEF S
  <2> QED
    BY <1>1, <1>2, <1>9, <1>11, <2>3, <2>4, <2>5, <2>6, <2>7 DEF StepApart
<1>13. ASSUME NEW q \in F PROVE RequestIsSound(q)'
  <2>0. NoRecord.duration = "none" /\ NoRecord.uses = 0
    BY DEF NoRecord
  <2>1. /\ q \in Requests /\ dir'[q] = {} /\ rec'[q] = NoRecord
        /\ rec'[q].duration = "none" /\ rec'[q].uses = 0
    BY <1>2, <1>5, <2>0
  <2>2. RequestIsSound(q)
    BY <2>1 DEF Inv
  <2>3. redeemed'[q] = 0 /\ MayBe(kept'[q], dir'[q])
    BY <1>2, <1>5, <2>1, <2>2 DEF RequestIsSound
  <2>4. UsesOf("none") \in Nat
    BY LimitsAreNatural DEF UsesOf
  <2>5. Budgeted(q)'
    BY <2>1, <2>3, <2>4 DEF Budgeted
  <2> QED
    BY <2>1, <2>3, <2>5 DEF RequestIsSound, OneAnswer, NotRetired, Accounted
<1>14. ASSUME NEW q \in op[a].done PROVE RequestIsSound(q)'
  <2>1. q \in Requests /\ rec'[q] = rec[q] /\ dir[q] # {} /\ "approved" \notin dir[q]
    BY <1>6 DEF F
  <2>2. RequestIsSound(q) /\ InFlight(q)
    BY <2>1 DEF Inv, InFlight
  <2>3. Budgeted(q)'
    BY <1>2, <2>1, <2>2 DEF RequestIsSound, Budgeted, Armed
  <2>4. NotRetired(q)' /\ Accounted(q)'
    BY <1>2, <2>1 DEF NotRetired, Accounted
  <2> QED
    BY <1>2, <2>1, <2>2, <2>3, <2>4 DEF RequestIsSound, OneAnswer
<1> QED
  BY <1>1, <1>8, <1>10, <1>12, <1>13, <1>14, StepKeepsInv DEF StepIsSound

\* A worker that ends waiting for approval is an event of the world.
LEMMA WorldKeepsInv ==
    ASSUME Inv, UNCHANGED <<files, gens, disk, lock, op, marked, outages, history>>,
           gone' \subseteq Executions, held' \subseteq Workers
    PROVE  Inv'
<1> USE DEF Inv
<1>1. /\ UNCHANGED <<dir, kept, rec, gens, disk, lock, op, marked, outages>>
      /\ UNCHANGED <<redeemed, cleared, unread, wasted, returned>>
  BY DEF files, history
<1>2. ApprovalsTypeOK'
  BY <1>1 DEF ApprovalsTypeOK, Fits
<1>3. \A a \in Actors : ActorIsSound(a)'
  BY <1>1 DEF ActorIsSound, HasItsFile, ReadIsFresh, OperationIsSound, At
<1>4. \A q \in Requests : RequestIsSound(q)'
  BY <1>1 DEF RequestIsSound, OneAnswer, Budgeted, Armed, InFlight, NotRetired, Accounted,
     Filing, At
<1>5. NobodyShares' /\ cleared' \subseteq marked'
  BY <1>1 DEF NobodyShares
<1> QED
  BY <1>2, <1>3, <1>4, <1>5

\* A power loss leaves nobody at work, and every request that was filed in a
\* place it may be.
LEMMA PowerLossKeepsInv ==
    ASSUME Inv, PowerLoss
    PROVE  Inv'
<1> USE DEF Inv
<1>1. /\ UNCHANGED <<disk, marked, redeemed, cleared, unread>> /\ gens' = disk
      /\ lock' = None /\ rec' = Unfiled(Actors) /\ op' = [a \in Actors |-> Idle]
      /\ outages < MaxOutages /\ outages' = outages + 1
      /\ wasted' = wasted \cup Taken(Actors) /\ returned' = returned \cup Displaced(dir')
      /\ kept' = [q \in Requests |-> {dir'[q]}]
      /\ \A q \in Requests : dir'[q] \in kept[q]
  BY DEF PowerLoss
<1>2. rec' \in [Requests -> Records]
  BY <1>1, UnfiledIsSound
<1>3. \A a \in Actors : op'[a] = Idle /\ op'[a].step = "idle" /\ op'[a].done = {}
  BY <1>1 DEF Idle
<1>4. gone' \subseteq Executions /\ held' \subseteq Workers
  <2>1. PICK W \in SUBSET Workers : held' = held \cup W
    BY DEF PowerLoss
  <2>2. \A q \in Requests : rec[q].exec \in Executions \cup {None}
    BY DEF ApprovalsTypeOK, Records
  <2> QED
    BY <2>1, <2>2 DEF PowerLoss, ApprovalsTypeOK
<1>5. dir' \in [Requests -> SUBSET Dirs] /\ kept' \in [Requests -> SUBSET SUBSET Dirs]
  <2>1. \A q \in Requests : dir'[q] \in SUBSET Dirs
    BY <1>1 DEF ApprovalsTypeOK
  <2>2. dir' \in [Requests -> UNION {kept[q] : q \in Requests}]
    BY DEF PowerLoss
  <2>3. dir' \in [Requests -> SUBSET Dirs]
    BY <2>1, <2>2
  <2> QED
    BY <1>1, <2>1, <2>3
<1>6. ApprovalsTypeOK'
  <2>1. op' \in [Actors -> Operations]
    BY <1>1, IdleIsAnOperation
  <2>2. \A a \in Actors : op'[a].step \in Locked <=> lock' = a
    BY <1>1, <1>3, NamesAreDistinct DEF Locked
  <2>3. \A q \in Requests : dir'[q] \in kept'[q]
    BY <1>1
  <2>4. outages' \in 0 .. MaxOutages
    BY <1>1, LimitsAreNatural DEF ApprovalsTypeOK
  <2>5. Fits(gens') /\ Fits(disk')
    BY <1>1 DEF ApprovalsTypeOK, Fits
  <2> QED
    BY <1>1, <1>2, <1>4, <1>5, <2>1, <2>2, <2>3, <2>4, <2>5 DEF ApprovalsTypeOK
<1>7. \A a \in Actors : ActorIsSound(a)'
  BY <1>3 DEF ActorIsSound, HasItsFile, ReadIsFresh, OperationIsSound, At, Judging, Deciding,
     Retiring
<1>8. ASSUME NEW q \in Requests PROVE RequestIsSound(q)'
  <2>1. /\ kept'[q] = {dir'[q]} /\ dir'[q] \in kept[q] /\ RequestIsSound(q)
        /\ dir'[q] \in SUBSET Dirs /\ redeemed'[q] = redeemed[q] /\ cleared' = cleared
        /\ unread' = unread /\ marked' = marked
    BY <1>1, <1>5
  <2>2. MayBe(kept'[q], dir'[q]) /\ (dir'[q] = {} <=> dir[q] = {})
    BY <2>1 DEF RequestIsSound, MayBe
  <2>3. ~InFlight(q)' /\ (Armed(q)' => Armed(q)) /\ ~Filing(q)'
    BY <1>3, <2>1 DEF InFlight, Armed, Filing, At
  <2>4. q \in returned' \/ (dir'[q] \ {"scratch"} = dir[q] \ {"scratch"}
                            /\ (dir'[q] = dir[q] \/ "pending" \notin dir'[q]))
    BY <1>1 DEF Displaced
  <2>5. returned \subseteq returned' /\ wasted \subseteq wasted'
        /\ (InFlight(q) => q \in wasted')
    BY <1>1 DEF InFlight, Taken
  <2>6. CASE rec'[q] = rec[q] /\ ~Filing(q)
    <3> HIDE DEF Inv
    <3>1. q \in returned' \/ OneAnswer(q)'
      BY <2>1, <2>4, <2>5 DEF RequestIsSound, OneAnswer
    <3>2. Budgeted(q)'
      BY <2>1, <2>3, <2>6 DEF RequestIsSound, Budgeted
    <3>3. NotRetired(q)' /\ Accounted(q)'
      <4>1. q \in returned' \/ ("approved" \in dir'[q] <=> "approved" \in dir[q])
        BY <2>4
      <4>2. q \in returned' \/ ("consumed" \in dir'[q] <=> "consumed" \in dir[q])
        BY <2>4
      <4> QED
        BY <2>1, <2>5, <2>6, <4>1, <4>2 DEF RequestIsSound, NotRetired, Accounted
    <3> QED
      BY <2>1, <2>2, <2>6, <3>1, <3>2, <3>3 DEF RequestIsSound
  <2>7. CASE rec'[q] # rec[q] \/ Filing(q)
    <3>1. rec'[q] = NoRecord /\ dir[q] = {}
      <4>1. CASE rec'[q] # rec[q]
        BY <1>1, <4>1, UnfiledIsSound
      <4>2. CASE Filing(q)
        BY <1>1, <4>2 DEF Filing, Unfiled, ActorIsSound, HasItsFile
      <4> QED
        BY <2>7, <4>1, <4>2
    <3>2. rec'[q].duration = "none" /\ rec'[q].uses = 0 /\ dir'[q] = {} /\ redeemed'[q] = 0
      BY <2>1, <2>2, <3>1 DEF RequestIsSound, NoRecord
    <3>3. UsesOf("none") \in Nat
      BY LimitsAreNatural DEF UsesOf
    <3>4. Budgeted(q)'
      BY <3>2, <3>3 DEF Budgeted
    <3> QED
      BY <2>2, <3>1, <3>2, <3>4 DEF RequestIsSound, OneAnswer, NotRetired, Accounted
  <2> QED BY <2>6, <2>7
<1>9. NobodyShares' /\ cleared' \subseteq marked'
  BY <1>1, <1>3 DEF NobodyShares, Owning, Deciding, Judging
<1> QED
  BY <1>6, <1>7, <1>8, <1>9

-----------------------------------------------------------------------------
\* The theorems.

\* The invariant holds initially.
LEMMA InvInit == Init => Inv
<1> SUFFICES ASSUME Init PROVE Inv
  OBVIOUS
<1>1. Fits(gens) /\ Fits(disk)
  BY LimitsAreNatural DEF Init, Fits, Counters
<1>2. \A a \in Actors : op[a] = Idle /\ op[a].step = "idle" /\ op[a].done = {}
  BY DEF Init, Idle
<1>3. NoRecord \in Records /\ NoRecord.duration = "none" /\ NoRecord.uses = 0
  BY LimitsAreNatural DEF NoRecord, Records
<1>4. ApprovalsTypeOK
  <2>1. op \in [Actors -> Operations] /\ rec \in [Requests -> Records]
    BY <1>3, IdleIsAnOperation DEF Init
  <2>2. \A a \in Actors : op[a].step \in Locked <=> lock = a
    BY <1>2, NamesAreDistinct DEF Init, Locked
  <2>3. outages \in 0 .. MaxOutages
    BY LimitsAreNatural DEF Init
  <2> QED
    BY <1>1, <2>1, <2>2, <2>3 DEF Init, ApprovalsTypeOK
<1>5. \A a \in Actors : ActorIsSound(a)
  BY <1>2 DEF ActorIsSound, HasItsFile, ReadIsFresh, OperationIsSound, At, Judging, Deciding,
     Retiring
<1>6. \A q \in Requests : RequestIsSound(q)
  <2>1. SUFFICES ASSUME NEW q \in Requests PROVE RequestIsSound(q)
    OBVIOUS
  <2>2. /\ dir[q] = {} /\ kept[q] = {{}} /\ redeemed[q] = 0 /\ rec[q] = NoRecord
        /\ rec[q].duration = "none" /\ rec[q].uses = 0
    BY <1>3 DEF Init
  <2>3. UsesOf("none") \in Nat
    BY LimitsAreNatural DEF UsesOf
  <2>4. Budgeted(q)
    BY <2>2, <2>3 DEF Budgeted
  <2> QED
    BY <2>2, <2>4 DEF RequestIsSound, OneAnswer, MayBe, NotRetired, Accounted
<1>7. NobodyShares /\ cleared \subseteq marked
  BY <1>2 DEF Init, NobodyShares, Owning, Deciding, Judging
<1> QED
  BY <1>4, <1>5, <1>6, <1>7 DEF Inv

\* The invariant is inductive.
LEMMA InvStep == Inv /\ [Next]_vars => Inv'
<1> SUFFICES ASSUME Inv, [Next]_vars PROVE Inv'
  OBVIOUS
<1>1. ASSUME NEW a \in Actors, FilingStep(a) PROVE Inv'
  BY <1>1, SubmitKeepsInv, WritePendingKeepsInv DEF FilingStep
<1>2. ASSUME NEW a \in Actors, DecisionStep(a) PROVE Inv'
  BY <1>2, ClaimKeepsInv, JudgeKeepsInv, JudgeRestoredKeepsInv, WriteApprovedKeepsInv,
     WriteDeniedKeepsInv, DecisionEndsKeepsInv DEF DecisionStep
<1>3. ASSUME NEW a \in Actors, RetirementStep(a) PROVE Inv'
  <2>1. CASE \E e \in Locals : EndInvocation(a, e)
    <3>1. PICK e \in Locals : EndInvocation(a, e)
      BY <2>1
    <3>2. ~WorkerEnds(a, e) \/ e \in Workers
      BY DEF WorkerEnds
    <3> QED
      BY <3>1, <3>2, SweepBeginsKeepsInv DEF Executions
  <2>2. CASE \E w \in Workers : WorkerEnds(a, w)
    <3>1. PICK w \in Workers : WorkerEnds(a, w)
      BY <2>2
    <3>2. ~EndInvocation(a, w) \/ w \in Locals
      BY DEF EndInvocation
    <3> QED
      BY <3>1, <3>2, SweepBeginsKeepsInv DEF Executions
  <2> QED
    BY <1>3, <2>1, <2>2, SweepOneKeepsInv, WriteRefusedKeepsInv, RefusalEndsKeepsInv,
       SweepEndsKeepsInv, ConsumeGrantsKeepsInv DEF RetirementStep
<1>4. ASSUME NEW a \in Actors, RevocationStep(a) PROVE Inv'
  BY <1>4, RevocationKeepsInv
<1>5. ASSUME NEW a \in Actors, SpendingStep(a) PROVE Inv'
  BY <1>5, FindGrantKeepsInv, SpendKeepsInv, FindSetKeepsInv, MoveOneKeepsInv,
     MoveFailsKeepsInv, RollBackKeepsInv, SetEndsKeepsInv DEF SpendingStep
<1>6. ASSUME NEW a \in Actors, ReadingStep(a) \/ CutShort(a) PROVE Inv'
  BY <1>6, ReadingKeepsInv, CutShortKeepsInv
<1>7. ASSUME NEW w \in Workers, WorkerWaits(w) PROVE Inv'
  BY <1>7, WorldKeepsInv DEF WorkerWaits, Inv, ApprovalsTypeOK, Executions
<1>8. CASE PowerLoss
  BY <1>8, PowerLossKeepsInv
<1>9. CASE UNCHANGED vars
  BY <1>9, WorldKeepsInv DEF vars, files, world, history, Inv, ApprovalsTypeOK
<1> QED
  BY <1>1, <1>2, <1>3, <1>4, <1>5, <1>6, <1>7, <1>8, <1>9 DEF Next

\* Every step of a reviewer, filer, sweep, spender, reader or crash keeps the
\* files, the lock and what each operation remembers in agreement.
THEOREM ApprovalsInvariant == Spec => []Inv
  BY InvInit, InvStep, PTL DEF Spec

\* Type correctness of the approval store.
THEOREM ApprovalsTypeCorrect == Spec => []ApprovalsTypeOK
<1>1. Inv => ApprovalsTypeOK
  BY DEF Inv
<1> QED
  BY <1>1, ApprovalsInvariant, PTL

\* However reviewers, sweeps and spenders race for its file, and wherever they
\* die, a request is in one place; a power loss can put it elsewhere, and loses
\* none that was filed.
THEOREM RequestsAreInOnePlace == Spec => []OnePlace
<1>1. Inv => OnePlace
  BY DEF Inv, OnePlace, RequestIsSound, OneAnswer, Filing
<1> QED
  BY <1>1, ApprovalsInvariant, PTL

\* A grant is never redeemed more often than its reviewer chose, whichever
\* renames a power loss undoes.
THEOREM BudgetIsRespected == Spec => []BudgetRespected
<1>1. Inv => BudgetRespected
  <2> SUFFICES ASSUME Inv, NEW q \in Requests
               PROVE  redeemed[q] + (IF "approved" \in dir[q] THEN rec[q].uses ELSE 0)
                        <= UsesOf(rec[q].duration)
    BY DEF BudgetRespected
  <2>1. redeemed[q] \in Nat /\ RequestIsSound(q)
    BY DEF Inv, ApprovalsTypeOK
  <2>2. "approved" \in dir[q] => Armed(q)
    BY <2>1 DEF RequestIsSound, MayBe, Armed
  <2> QED
    BY <2>1, <2>2 DEF RequestIsSound, Budgeted
<1> QED
  BY <1>1, ApprovalsInvariant, PTL

\* A retired invocation leaves no grant behind, however late the decision,
\* unless the retirement could not read it or a power loss put it back.
THEOREM RetiredHoldNoGrants == Spec => []RetiredHoldsNoGrant
<1>1. Inv => RetiredHoldsNoGrant
  BY DEF Inv, RetiredHoldsNoGrant, RequestIsSound, NotRetired, GrantsOf
<1> QED
  BY <1>1, ApprovalsInvariant, PTL

\* Consent is used up without a use only where the spender died or got an
\* error, or a power loss undid its renames.
THEOREM ConsentIsNotWasted == Spec => []NoConsentIsWasted
<1>1. Inv => NoConsentIsWasted
  BY DEF Inv, NoConsentIsWasted, RequestIsSound, Accounted, InFlight
<1> QED
  BY <1>1, ApprovalsInvariant, PTL

=============================================================================
