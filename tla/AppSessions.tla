---------------------------- MODULE AppSessions ----------------------------
(***************************************************************************)
(* The authority of one App session of the MCP kind: the row of the        *)
(* process registry, the grants that clawd's capability authority holds    *)
(* for the session, and the routes that change both                        *)
(* (core/src/clawd/app_sessions.rs, core/src/clawd/authority).             *)
(*                                                                         *)
(* The launcher, an App service host, registers a session, binds the       *)
(* worker it spawned, asks for the capabilities of one tool call at a      *)
(* time, clears them, and deregisters.  The row and the store have a lock  *)
(* each and are changed one after the other; the transitions of a session  *)
(* take a third lock, which is kept in a map as long as somebody uses it.  *)
(* Binding, the host's teardown and the denial of a package that is no     *)
(* longer trusted do not take it.                                          *)
(*                                                                         *)
(* A critical section of the store is one step.  A call stands for the     *)
(* capabilities of one authorized tool call; an MCP session has none of    *)
(* its own.  The worker has no route to the broker: what it spends is      *)
(* relayed by the launcher.  The clock is the age of the launch grant.     *)
(***************************************************************************)
EXTENDS Integers, FiniteSets

CONSTANTS
    Handlers,     \* requests the daemon handles at a time
    Calls,        \* authorized tool calls
    None,         \* no call, no process
    LaunchTTL,    \* LAUNCH_GRANT_TTL
    SessionTTL,   \* SESSION_GRANT_TTL
    CallTTL,      \* TARGET_CALL_GRANT_TTL
    BindWindow,   \* BIND_WINDOW
    MaxChildren,  \* MAX_CHILDREN
    MaxAge        \* bound: the clock stops here, and no grant expires later

ASSUME SessionTimes ==
    /\ {LaunchTTL, SessionTTL, CallTTL, BindWindow, MaxChildren, MaxAge} \subseteq Nat
    /\ SessionTTL < LaunchTTL /\ LaunchTTL =< MaxAge
ASSUME SessionNames == None \notin Calls /\ IsFiniteSet(Handlers)

VARIABLES
    row,       \* the session's row in the registry, or NoRow
    launch,    \* the launch grant: root of the session and relay grants
    indexed,   \* the grant that the session id resolves to (by_session)
    relay,     \* the launcher's right to present the indexed grant
    mapped,    \* the lock that the map of session locks holds, or 0
    tokens,    \* tool calls whose authorization was not consumed yet
    op,        \* what each handler is doing
    stage,     \* how far the launcher is
    host,      \* how far the teardown of the launcher's host is
    alive,     \* which of the launcher and its worker run
    trusted,   \* the package still verifies
    age,
    cleared,   \* history: calls that another transition replaced
    spent,     \* history: calls whose capability was exercised
    ended      \* history: how the session's authority was withdrawn

store == <<launch, indexed, relay>>
world == <<alive, trusted, age>>
past == <<cleared, spent, ended>>
vars == <<row, store, mapped, tokens, op, stage, host, world, past>>

NoRow == [state |-> "none"]
NoGrant == [kind |-> "none"]
Ids == 1..Cardinality(Handlers) + 1
Idle == [step |-> "idle"]
HeldSteps == {"swap", "derive", "remove", "retire"}
LockSteps == HeldSteps \cup {"wait", "release"}
Steps == LockSteps \cup {"idle", "install", "issue", "bind", "claim", "relay", "lookup", "spend"}

Init ==
    /\ row = NoRow /\ launch = NoGrant /\ indexed = NoGrant /\ relay = NoGrant
    /\ mapped = 0 /\ tokens = Calls /\ op = [h \in Handlers |-> Idle]
    /\ stage = "new" /\ host = "up" /\ alive = {"launcher", "worker"}
    /\ trusted = TRUE /\ age = 0
    /\ cleared = {} /\ spent = {} /\ ended = "no"

----------------------------------------------------------------------------
\* The store

\* is_live: the process a grant is bound to runs, and its time is not up.
IsLive(g) == g # NoGrant /\ g.on \in alive /\ age < g.expires

Until(ttl) == IF age + ttl < MaxAge THEN age + ttl ELSE MaxAge

LaunchGrant == [kind |-> "launch", on |-> "launcher", expires |-> LaunchTTL, children |-> 0]
RelayGrant == [kind |-> "relay", on |-> "launcher", expires |-> age + SessionTTL]

\* No decision that a request still holds names a fresh id.
FreshId ==
    CHOOSE i \in Ids : /\ \A h \in Handlers : op[h].step = "spend" => op[h].grant # i
                       /\ indexed # NoGrant => indexed.id # i
IndexedGrant(kind, caps, expires) ==
    [kind |-> kind, on |-> "worker", expires |-> expires, caps |-> caps, id |-> FreshId]
SessionGrant == IndexedGrant("session", {}, age + SessionTTL)
TargetGrant(c) == IndexedGrant("target", {c}, Until(CallTTL))

\* A child must fit into its parent as it is now: live, with room for one
\* more, and with at least as long to live.
MayAttenuate(parent, ttl) ==
    IsLive(parent) /\ parent.children < MaxChildren /\ age + ttl =< parent.expires

OneMore(parent) == [parent EXCEPT !.children = @ + 1]

\* What becomes of the launch grant when some of the others are dropped.
IsDerivedFromAny(g) == g # NoGrant
IsDerived(g) == g.kind \in {"session", "relay"}
LessNone(G) == launch
Less(G) ==
    IF launch = NoGrant THEN NoGrant
    ELSE [launch EXCEPT !.children = @ - Cardinality({g \in G : IsDerived(g)})]

RevokeIndexedOnly(why) ==
    /\ launch' = Less({indexed}) /\ indexed' = NoGrant /\ relay' = relay
    /\ ended' = IF ended = "no" THEN why ELSE ended
RevokeSession(why) ==
    /\ launch' = NoGrant /\ indexed' = NoGrant /\ relay' = NoGrant
    /\ ended' = IF ended = "no" THEN why ELSE ended

\* Dead grants go, with everything derived from them.
GoesWithProcess(g) == g # NoGrant /\ g.on \notin alive
Goes(g) == ~IsLive(g) \/ (IsDerived(g) /\ ~IsLive(launch))
Sweep ==
    /\ launch' = IF IsLive(launch) THEN Less({g \in {indexed, relay} : ~IsLive(g)}) ELSE NoGrant
    /\ indexed' = IF Goes(indexed) THEN NoGrant ELSE indexed
    /\ relay' = IF Goes(relay) THEN NoGrant ELSE relay
    /\ UNCHANGED <<row, mapped, tokens, op, stage, host, world, past>>

----------------------------------------------------------------------------
\* Requests.  A request of the launcher is admitted while its host's lease is
\* open; what was admitted runs to its end.

Admitted(h) == op[h] = Idle /\ host = "up" /\ "launcher" \in alive
Step(h, o) == op' = [op EXCEPT ![h] = o]
Done(h) == Step(h, Idle)

\* register: the row first, then the launch grant.
BeginRegister(h) ==
    /\ Admitted(h) /\ stage = "new" /\ trusted
    /\ Step(h, [step |-> "install"]) /\ stage' = "registering"
    /\ UNCHANGED <<row, store, mapped, tokens, host, world, past>>

InstallRow(h) ==
    /\ op[h].step = "install"
    /\ row' = [state |-> "pending", scope |-> None]
    /\ Step(h, [step |-> "issue"])
    /\ UNCHANGED <<store, mapped, tokens, stage, host, world, past>>

IssueLaunch(h) ==
    /\ op[h].step = "issue" /\ "launcher" \in alive
    /\ launch' = LaunchGrant
    /\ stage' = "registered" /\ Done(h)
    /\ UNCHANGED <<row, indexed, relay, mapped, tokens, host, world, past>>

IssueRefused(h) ==
    /\ op[h].step = "issue"
    /\ row' = NoRow /\ Done(h)
    /\ UNCHANGED <<store, mapped, tokens, stage, host, world, past>>

\* bind: the row, then the session grant, then the relay grant.
BeginBind(h) ==
    /\ Admitted(h) /\ stage = "registered" /\ IsLive(launch) /\ age =< BindWindow
    /\ Step(h, [step |-> "bind"]) /\ stage' = "binding"
    /\ UNCHANGED <<row, store, mapped, tokens, host, world, past>>

BindRow(h) ==
    /\ op[h].step = "bind"
    /\ IF row # NoRow /\ trusted /\ "worker" \in alive
       THEN row' = [row EXCEPT !.state = "bound"] /\ Step(h, [step |-> "claim"])
       ELSE UNCHANGED row /\ Done(h)
    /\ UNCHANGED <<store, mapped, tokens, stage, host, world, past>>

Claim(h) ==
    /\ op[h].step = "claim"
    /\ IF MayAttenuate(launch, SessionTTL) /\ indexed = NoGrant /\ "worker" \in alive
       THEN /\ indexed' = SessionGrant /\ launch' = OneMore(launch)
            /\ Step(h, [step |-> "relay"])
       ELSE UNCHANGED <<launch, indexed>> /\ Done(h)
    /\ UNCHANGED <<row, relay, mapped, tokens, stage, host, world, past>>

IssueRelay(h) ==
    /\ op[h].step = "relay"
    /\ IF MayAttenuate(launch, SessionTTL)
       THEN /\ relay' = RelayGrant
            /\ launch' = OneMore(launch)
            /\ stage' = IF stage = "binding" THEN "open" ELSE stage
       ELSE UNCHANGED <<launch, relay, stage>>
    /\ Done(h)
    /\ UNCHANGED <<row, indexed, mapped, tokens, host, world, past>>

\* A ceiling of the store refuses either grant of a binding.
BindRefused(h) ==
    /\ op[h].step \in {"claim", "relay"}
    /\ Done(h)
    /\ UNCHANGED <<row, store, mapped, tokens, stage, host, world, past>>

\* set_transient: the capabilities of a call, or None to clear them.
BeginTransition(h, c) ==
    /\ Admitted(h) /\ stage \in {"open", "closing"} /\ IsLive(launch)
    /\ Step(h, [step |-> "lookup", call |-> c, leave |-> FALSE])
    /\ UNCHANGED <<row, store, mapped, tokens, stage, host, world, past>>

BeginDeregister(h) ==
    /\ Admitted(h) /\ stage \in {"registered", "binding", "open"} /\ IsLive(launch)
    /\ Step(h, [step |-> "lookup", call |-> None, leave |-> TRUE])
    /\ stage' = IF stage = "open" THEN "closing" ELSE "leaving"
    /\ UNCHANGED <<row, store, mapped, tokens, host, world, past>>

Users(l) == {h \in Handlers : op[h].step \in LockSteps /\ op[h].lock = l}
HoldersOfRow(l) == {h \in Users(l) : op[h].step \in HeldSteps \ {"derive"}}
Holders(l) == {h \in Users(l) : op[h].step \in HeldSteps}

Lookup(h) ==
    /\ op[h].step = "lookup"
    /\ mapped' = IF mapped # 0 THEN mapped ELSE CHOOSE l \in Ids : Users(l) = {}
    /\ Step(h, [step |-> "wait", call |-> op[h].call, leave |-> op[h].leave, lock |-> mapped'])
    /\ UNCHANGED <<row, store, tokens, stage, host, world, past>>

\* The launch grant is resolved again once the lock is held.
Acquire(h) ==
    /\ op[h].step = "wait" /\ Holders(op[h].lock) = {}
    /\ IF IsLive(launch)
       THEN Step(h, [step |-> IF op[h].leave THEN "remove" ELSE "swap",
                     call |-> op[h].call, lock |-> op[h].lock])
       ELSE Done(h)
    /\ UNCHANGED <<row, store, mapped, tokens, stage, host, world, past>>

\* A call needs its authorization, which is consumed, and a package that
\* verifies; clearing needs neither.
MaySwap(h) ==
    /\ row # NoRow /\ row.state = "bound"
    /\ op[h].call # None => trusted /\ op[h].call \in tokens

Swap(h) ==
    /\ op[h].step = "swap" /\ MaySwap(h)
    /\ row' = [row EXCEPT !.scope = op[h].call]
    /\ tokens' = tokens \ {op[h].call}
    /\ Step(h, [step |-> "derive", call |-> op[h].call, lock |-> op[h].lock, before |-> row.scope])
    /\ UNCHANGED <<store, mapped, stage, host, world, past>>

\* A refusal may have consumed the authorization; the registry may be unwritable.
SwapRefused(h) ==
    /\ op[h].step = "swap"
    /\ tokens' \in {tokens, tokens \ {op[h].call}}
    /\ Done(h)
    /\ UNCHANGED <<row, store, mapped, stage, host, world, past>>

\* The indexed grant is revoked and its successor issued: for a call by the
\* daemon itself, after a clear from the launch grant.
MayDerive(h) ==
    /\ "worker" \in alive
    /\ op[h].call = None => MayAttenuate(Less({indexed}), SessionTTL)

Derive(h) ==
    /\ op[h].step = "derive" /\ MayDerive(h)
    /\ IF op[h].call = None
       THEN indexed' = SessionGrant /\ launch' = OneMore(Less({indexed}))
       ELSE indexed' = TargetGrant(op[h].call) /\ launch' = Less({indexed})
    /\ cleared' = cleared \cup ({op[h].before} \ {None, op[h].call})
    /\ Done(h)
    /\ UNCHANGED <<row, relay, mapped, tokens, stage, host, world, spent, ended>>

\* The row is put back, unless that fails as well, and the session revoked.
Rollback(h) ==
    /\ op[h].step = "derive"
    /\ row' \in {row, IF row = NoRow THEN NoRow ELSE [row EXCEPT !.scope = op[h].before]}
    /\ RevokeSession(IF MayDerive(h) THEN "refused" ELSE "revoked") /\ Done(h)
    /\ UNCHANGED <<mapped, tokens, stage, host, world, cleared, spent>>

\* deregister: the row, unless its registry cannot be written; the grants;
\* and the lock, from the map too when nobody else has it.
Remove(h) ==
    /\ op[h].step = "remove"
    /\ row' \in {row, NoRow}
    /\ Step(h, [step |-> "retire", lock |-> op[h].lock])
    /\ UNCHANGED <<store, mapped, tokens, stage, host, world, past>>

Retire(h) ==
    /\ op[h].step = "retire"
    /\ launch' = NoGrant /\ indexed' = NoGrant /\ relay' = NoGrant
    /\ ended' = "deregistered"
    /\ Step(h, [step |-> "release", lock |-> op[h].lock])
    /\ UNCHANGED <<row, mapped, tokens, stage, host, world, cleared, spent>>

Release(h) ==
    /\ op[h].step = "release"
    /\ mapped' = IF Cardinality(Users(mapped)) =< 1 THEN 0 ELSE mapped
    /\ Done(h)
    /\ UNCHANGED <<row, store, tokens, stage, host, world, past>>

\* A relayed request resolves the indexed grant, and spends from it later.
Resolve(h) ==
    /\ Admitted(h) /\ trusted /\ IsLive(relay) /\ IsLive(indexed)
    /\ Step(h, [step |-> "spend", grant |-> indexed.id])
    /\ UNCHANGED <<row, store, mapped, tokens, stage, host, world, past>>

MaySpend(h, c) ==
    /\ IsLive(relay)
    /\ IsLive(indexed) /\ indexed.id = op[h].grant
    /\ c \in indexed.caps

Spend(h, c) ==
    /\ op[h].step = "spend" /\ MaySpend(h, c)
    /\ spent' = spent \cup {c} /\ Done(h)
    /\ UNCHANGED <<row, store, mapped, tokens, stage, host, world, cleared, ended>>

SpendNothing(h) ==
    /\ op[h].step = "spend" /\ Done(h)
    /\ UNCHANGED <<row, store, mapped, tokens, stage, host, world, past>>

\* A package that is no longer trusted is denied, and its session revoked.
Deny ==
    /\ host = "up" /\ ~trusted /\ IsLive(relay)
    /\ RevokeSession("revoked")
    /\ UNCHANGED <<row, mapped, tokens, op, stage, host, world, cleared, spent>>

----------------------------------------------------------------------------
\* The rest of the world

\* The lifecycle pass stops the instances of a package that lost its trust.
StopDistrusted ==
    /\ ~trusted /\ "worker" \in alive
    /\ alive' = alive \ {"worker"} /\ RevokeSession("revoked")
    /\ UNCHANGED <<row, mapped, tokens, op, stage, host, trusted, age, cleared, spent>>

\* Teardown of the launcher's host, without the lock: its lease closes and the
\* rows of its sessions go; then the grants of the sessions that had a row; and
\* then its processes.  An unreadable registry names no session.
CloseHost ==
    /\ host = "up"
    /\ \/ row # NoRow /\ row' = NoRow /\ host' = "removed"
       \/ UNCHANGED row /\ host' = "revoked"
    /\ UNCHANGED <<store, mapped, tokens, op, stage, world, past>>

RevokeRemoved ==
    /\ host = "removed" /\ host' = "revoked"
    /\ RevokeSession("revoked")
    /\ UNCHANGED <<row, mapped, tokens, op, stage, world, cleared, spent>>

Reap ==
    /\ host = "revoked" /\ host' = "reaped"
    /\ alive' = {}
    /\ UNCHANGED <<row, store, mapped, tokens, op, stage, trusted, age, past>>

\* The launcher takes its worker with it.
Exit(p) ==
    /\ p \in alive
    /\ alive' = IF p = "launcher" THEN {} ELSE alive \ {p}
    /\ UNCHANGED <<row, store, mapped, tokens, op, stage, host, trusted, age, past>>

Distrust ==
    /\ trusted /\ trusted' = FALSE
    /\ UNCHANGED <<row, store, mapped, tokens, op, stage, host, alive, age, past>>

Tick ==
    /\ stage \notin {"new", "registering"} /\ age < MaxAge
    /\ age' = age + 1
    /\ UNCHANGED <<row, store, mapped, tokens, op, stage, host, alive, trusted, past>>

----------------------------------------------------------------------------
Begin(h) ==
    \/ BeginRegister(h) \/ BeginBind(h) \/ BeginDeregister(h) \/ Resolve(h)
    \/ \E c \in tokens \cup {None} : BeginTransition(h, c)
Continue(h) ==
    \/ InstallRow(h) \/ IssueLaunch(h) \/ IssueRefused(h)
    \/ BindRow(h) \/ Claim(h) \/ IssueRelay(h) \/ BindRefused(h)
    \/ Lookup(h) \/ Acquire(h) \/ Swap(h) \/ SwapRefused(h) \/ Derive(h) \/ Rollback(h)
    \/ Remove(h) \/ Retire(h) \/ Release(h)
    \/ SpendNothing(h) \/ \E c \in Calls : Spend(h, c)
Teardown == RevokeRemoved \/ Reap
Next ==
    \/ \E h \in Handlers : Begin(h) \/ Continue(h)
    \/ Sweep \/ Deny \/ StopDistrusted \/ CloseHost \/ Teardown
    \/ \E p \in alive : Exit(p)
    \/ Distrust \/ Tick

Spec == Init /\ [][Next]_vars

\* The teardown that began finishes, the sweep of the store runs every thirty
\* seconds and time passes.  No request has to be answered.
FairSpec == Spec /\ WF_vars(Teardown) /\ WF_vars(Sweep) /\ WF_vars(Tick)

----------------------------------------------------------------------------
Grants == {g \in {launch, indexed, relay} : g # NoGrant}
InTransition == {h \in Handlers : op[h].step \in HeldSteps}

\* Type correctness; the counter of children included.
AuthTypeOK ==
    /\ row \in {NoRow} \cup [state : {"pending", "bound"}, scope : Calls \cup {None}]
    /\ launch \in {NoGrant} \cup [kind : {"launch"}, on : {"launcher"}, expires : {LaunchTTL},
                                   children : 0..MaxChildren]
    /\ indexed \in {NoGrant} \cup [kind : {"session", "target"}, on : {"worker"},
                                    expires : 0..MaxAge, caps : SUBSET Calls, id : Ids]
    /\ relay \in {NoGrant} \cup [kind : {"relay"}, on : {"launcher"}, expires : 0..LaunchTTL]
    /\ mapped \in Ids \cup {0} /\ tokens \subseteq Calls
    /\ \A h \in Handlers : op[h].step \in Steps
    /\ stage \in {"new", "registering", "registered", "binding", "open", "closing", "leaving"}
    /\ host \in {"up", "removed", "revoked", "reaped"}
    /\ alive \subseteq {"launcher", "worker"} /\ trusted \in BOOLEAN
    /\ age \in 0..MaxAge /\ cleared \subseteq Calls /\ spent \subseteq Calls
    /\ ended \in {"no", "refused", "revoked", "deregistered"}

\* The registry and the authority describe the same world: outside a
\* transition, the grant the session id resolves to carries exactly the
\* capabilities of the row, and a session that was deregistered has none.
AuthorityMatchesRow ==
    /\ (InTransition = {} /\ row # NoRow /\ indexed # NoGrant)
          => indexed.caps = {row.scope} \ {None}
    /\ ended = "deregistered" => Grants = {}

\* A capability is never spent after the call it was granted for was cleared,
\* nor after the session was deregistered, torn down or revoked, whatever
\* request or transition was under way at the time.
NothingIsSpentLate == [][\A c \in spent' \ spent : c \notin cleared /\ ended = "no"]_vars

\* A session that nobody ended keeps its authority as long as a transition can
\* still be derived from its launch grant: any number of calls and clears
\* leaves the launch and relay grants in place, and a grant to resolve.
AuthorityLasts ==
    (/\ stage = "open" /\ host = "up" /\ trusted /\ alive = {"launcher", "worker"} /\ ended # "refused"
     /\ age =< LaunchTTL - SessionTTL)
    => /\ launch # NoGrant /\ relay # NoGrant
       /\ InTransition = {} /\ row.scope = None => IsLive(indexed)

\* Whatever was withdrawn is gone for good: no grant of an ended session
\* stays in the store.
NothingIsStranded == (ended # "no") ~> [](Grants = {})
=============================================================================
