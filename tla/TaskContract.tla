---------------------------- MODULE TaskContract ----------------------------
(***************************************************************************)
(* What the durable queue promises about one accepted task, with no files, *)
(* crashes or workers in sight.  A task is queued, active, held for        *)
(* consent, or ended.  Its work begins ("effects") at most once for its    *)
(* submission and once more for every consent that resumed it; the queue   *)
(* never offers work that already began without such a consent, and an     *)
(* ended task stays ended.  JobStore.tla implements this.                  *)
(***************************************************************************)
EXTENDS Naturals

CONSTANT Tasks

VARIABLES
    state,     \* "none", "queued", "active", "held" or "ended"
    effects,   \* how often the work of the task began
    consents   \* how often consent resumed it

contractVars == <<state, effects, consents>>

States == {"none", "queued", "active", "held", "ended"}

ContractInit ==
    /\ state = [t \in Tasks |-> "none"]
    /\ effects = [t \in Tasks |-> 0]
    /\ consents = [t \in Tasks |-> 0]

Become(t, s) == state' = [state EXCEPT ![t] = s]
Unbegun(t) == effects[t] <= consents[t]

Accept(t) ==
    /\ state[t] = "none"
    /\ Become(t, "queued")
    /\ UNCHANGED <<effects, consents>>

\* A hold that a power loss undid puts the task back where it was.
Start(t) ==
    /\ state[t] \in {"queued", "held"} /\ Unbegun(t)
    /\ Become(t, "active")
    /\ UNCHANGED <<effects, consents>>

\* Only work that has not begun since the last consent is offered again, one
\* task at a time or, after a power loss, several at once.
GiveBack(T) ==
    /\ \A t \in T : state[t] \in {"active", "held"} /\ Unbegun(t)
    /\ state' = [t \in Tasks |-> IF t \in T THEN "queued" ELSE state[t]]
    /\ UNCHANGED <<effects, consents>>

Begin(t) ==
    /\ state[t] = "active" /\ Unbegun(t)
    /\ effects' = [effects EXCEPT ![t] = @ + 1]
    /\ UNCHANGED <<state, consents>>

Hold(t) ==
    /\ state[t] \in {"active", "queued"}
    /\ Become(t, "held")
    /\ UNCHANGED <<effects, consents>>

\* Consent to a task that ended meanwhile is recorded and changes nothing.
Consent(t) ==
    /\ state[t] \in {"held", "ended"}
    /\ consents' = [consents EXCEPT ![t] = @ + 1]
    /\ UNCHANGED <<state, effects>>

End(t) ==
    /\ state[t] \in {"queued", "active", "held"}
    /\ Become(t, "ended")
    /\ UNCHANGED <<effects, consents>>

ContractNext ==
    \/ \E t \in Tasks :
          Accept(t) \/ Start(t) \/ Begin(t) \/ Hold(t) \/ Consent(t) \/ End(t)
    \/ \E T \in SUBSET Tasks : GiveBack(T)

ContractSpec == ContractInit /\ [][ContractNext]_contractVars
=============================================================================
