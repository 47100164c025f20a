--------------------------- MODULE ConsentContract ---------------------------
(***************************************************************************)
(* What the approval store promises about each request, with no files,     *)
(* locks or racing processes in sight: it is filed once, answered once, a  *)
(* refusal stands, and consent that was used up is not given again.  An    *)
(* outage may unsettle requests, whose question can come back beside their *)
(* answer; nothing more is promised of those.                              *)
(* Approvals.tla implements this, and JobStore.tla, which knows a request  *)
(* only by its status, uses it no other way.                               *)
(***************************************************************************)
CONSTANT Requests

VARIABLE standing   \* of each request, under the names of RequestStatus

Standings == {"unknown", "pending", "approved", "consumed", "denied", "unsettled"}

ConsentInit == standing = [q \in Requests |-> "unknown"]

MoveAll(S, from, to) ==
    /\ S \subseteq Requests /\ S # {}
    /\ \A q \in S : standing[q] = from
    /\ standing' = [q \in Requests |-> IF q \in S THEN to ELSE standing[q]]

File(q)    == MoveAll({q}, "unknown", "pending")
Approve(q) == MoveAll({q}, "pending", "approved")

\* A task that ends refuses every request it still has open.
Refuse(S)  == MoveAll(S, "pending", "denied")

\* One use, or the end of the execution the consent was given to.
UseUp(S)   == MoveAll(S, "approved", "consumed")

\* Everyone who was using consent dies with the outage.
Outage(lost, used) ==
    /\ \A q \in lost : standing[q] # "unknown"
    /\ \A q \in used : standing[q] = "approved"
    /\ standing' = [q \in Requests |-> IF q \in lost THEN "unsettled"
                                       ELSE IF q \in used THEN "consumed"
                                       ELSE standing[q]]

ConsentNext ==
    \/ \E q \in Requests : File(q) \/ Approve(q)
    \/ \E S \in SUBSET Requests : Refuse(S) \/ UseUp(S)
    \/ \E lost, used \in SUBSET Requests : Outage(lost, used)

ConsentSpec == ConsentInit /\ [][ConsentNext]_standing
=============================================================================
