------------------------- MODULE AppSessionsProofs --------------------------
(***************************************************************************)
(* Theorems about AppSessions.tla, for every number of requests handled at *)
(* a time, every set of calls and all lifetimes: the session's grant is    *)
(* what its row says, nothing is spent from what was withdrawn, the grants *)
(* are typed and counted, and, if the lifetimes and the ceiling of the     *)
(* store leave room for a transition, a session that nobody ended keeps    *)
(* its authority.                                                          *)
(*                                                                         *)
(* AuthInv says what the requests in flight rely on.  It needs nothing     *)
(* about time or about the processes, so neither does what it implies.     *)
(* TypeInv ties the count of the launch grant to its children.             *)
(* SessionLasts, on top of both, is about time.  Each is shown to be kept  *)
(* by one lemma per action.                                                *)
(***************************************************************************)
EXTENDS AppSessions, TLAPS, FiniteSetTheorems

\* Requests that register, and requests that bind.
Registering == {"install", "issue"}
Binding == {"bind", "claim", "relay"}
Stages == {"new", "registering", "registered", "binding", "open", "closing", "leaving"}

\* A request is where the launcher's progress lets it be; it uses the lock that
\* is in the map; and one that is about to derive found the row as it left it,
\* with a call that nothing has replaced.
HandlerIsSound(h) ==
    /\ op[h].step \in Registering => stage = "registering"
    /\ op[h].step \in Binding => stage \in {"binding", "leaving"}
    /\ op[h].step \in {"lookup", "wait"} =>
          /\ op[h].leave \in BOOLEAN
          /\ op[h].call \in Calls \cup {None}
          /\ IF op[h].leave THEN stage \in {"closing", "leaving"} ELSE stage \in {"open", "closing"}
    /\ op[h].step \in {"swap", "derive"} =>
          op[h].call \in Calls \cup {None} /\ stage \in {"open", "closing"}
    /\ op[h].step \in {"remove", "retire", "release"} => stage \in {"closing", "leaving"}
    /\ op[h].step \in LockSteps => op[h].lock = mapped /\ mapped # 0
    /\ op[h].step = "derive" =>
          /\ op[h].before \notin tokens
          /\ op[h].before \in Calls \cup {None}
          /\ op[h].call # None => op[h].call \notin cleared
          /\ row = NoRow \/ row.scope = op[h].call

\* Registration, binding and the inside of the lock admit one request at a time.
Alone(h, g) ==
    \A S \in {Registering, Binding, HeldSteps} : ~(op[h].step \in S /\ op[g].step \in S)

HandlersAreSound ==
    /\ op = [h \in Handlers |-> op[h]]
    /\ \A h \in Handlers : op[h].step \in Steps /\ HandlerIsSound(h)
    /\ \A h, g \in Handlers : h # g => Alone(h, g)

\* Capabilities of a row were authorized, a call that was replaced cannot be
\* authorized again, and a session that is not open has none.
RowIsSound ==
    /\ tokens \subseteq Calls
    /\ stage \in Stages
    /\ row # NoRow => /\ row \in [state : {"pending", "bound"}, scope : Calls \cup {None}]
                      /\ row.scope \notin tokens
                      /\ stage \notin {"open", "closing"} => row.scope = None
    /\ cleared \subseteq Calls \ tokens

\* The indexed grant holds no capability of a replaced call, and is what the row
\* says unless a transition is between the two.
GrantIsSound ==
    /\ stage \in {"new", "registering", "registered"} => indexed = NoGrant
    /\ indexed # NoGrant =>
          /\ indexed.caps \cap cleared = {}
          /\ (row # NoRow /\ \A h \in Handlers : op[h].step # "derive")
                => indexed.caps = {row.scope} \ {None}

\* An ended session has no relay grant, and cannot get one: a launch grant that a
\* registration under way installs afterwards cannot be bound.
EndIsSound ==
    /\ ended \in {"no", "refused", "revoked", "deregistered"}
    /\ relay # NoGrant => ended = "no"
    /\ (ended # "no" /\ stage \in {"new", "registering"}) => (~trusted \/ host # "up")
    /\ (ended # "no" /\ launch # NoGrant) =>
          /\ \A h \in Handlers : op[h].step \notin {"claim", "relay"}
          /\ ~trusted \/ (host # "up" /\ \A h \in Handlers : op[h].step # "bind")
    /\ ended = "deregistered" =>
          /\ launch = NoGrant /\ indexed = NoGrant /\ relay = NoGrant
          /\ stage \in {"closing", "leaving"}
          /\ \A h \in Handlers : op[h].step \notin {"swap", "derive"}

AuthInv == HandlersAreSound /\ RowIsSound /\ GrantIsSound /\ EndIsSound

LEMMA AuthInit == Init => AuthInv
  BY DEF Init, AuthInv, HandlersAreSound, HandlerIsSound, RowIsSound, GrantIsSound, EndIsSound,
         Alone, Idle, Steps, LockSteps, HeldSteps, Registering, Binding, Stages

\* A lock is in the map while it is used, so a fresh one is free.
LEMMA LockIsFresh ==
    ASSUME AuthInv, mapped = 0
    PROVE  (CHOOSE l \in Ids : Users(l) = {}) \in Ids \ {0}
<1>1. Users(1) = {}
  BY DEF AuthInv, HandlersAreSound, HandlerIsSound, Users
<1>2. 1 \in Ids /\ 0 \notin Ids
  BY SessionNames, FS_CardinalityType DEF Ids
<1> QED
  BY <1>1, <1>2

\* One user of the lock is the only one.
LEMMA LastUser ==
    ASSUME AuthInv, NEW h \in Users(mapped), Cardinality(Users(mapped)) =< 1
    PROVE  Users(mapped) = {h}
<1>1. IsFiniteSet(Users(mapped))
  BY SessionNames, FS_Subset DEF Users
<1>2. /\ Cardinality(Users(mapped) \ {h}) = Cardinality(Users(mapped)) - 1
      /\ IsFiniteSet(Users(mapped) \ {h})
  BY <1>1, FS_RemoveElement
<1>3. Cardinality(Users(mapped) \ {h}) = 0
  BY <1>1, <1>2, FS_CardinalityType
<1> QED
  BY <1>2, <1>3, FS_EmptySet

\* A step of one request leaves the others where they are.
LEMMA OneSteps ==
    ASSUME op = [h \in Handlers |-> op[h]], NEW h \in Handlers, NEW o, Step(h, o)
    PROVE  /\ op'[h] = o
           /\ \A g \in Handlers : g # h => op'[g] = op[g]
           /\ op' = [k \in Handlers |-> op'[k]]
  BY DEF Step

-----------------------------------------------------------------------------
\* Every action keeps AuthInv.

LEMMA BeginRegisterKeeps ==
    ASSUME AuthInv, NEW h \in Handlers, BeginRegister(h)
    PROVE  AuthInv'
<1>1. /\ op'[h] = [step |-> "install"]
      /\ \A g \in Handlers : g # h => op'[g] = op[g]
      /\ op' = [k \in Handlers |-> op'[k]]
  BY OneSteps DEF AuthInv, HandlersAreSound, BeginRegister
<1>2. HandlersAreSound'
  BY <1>1
     DEF AuthInv, HandlersAreSound, HandlerIsSound, Alone, Steps, LockSteps, HeldSteps, Binding,
         BeginRegister
<1>3. RowIsSound'
  BY <1>1 DEF AuthInv, RowIsSound, Stages, past, BeginRegister
<1>4. GrantIsSound'
  BY <1>1 DEF AuthInv, GrantIsSound, store, BeginRegister
<1>5. EndIsSound'
  BY <1>1 DEF AuthInv, EndIsSound, past, BeginRegister, Admitted
<1> QED
  BY <1>2, <1>3, <1>4, <1>5 DEF AuthInv

LEMMA InstallRowKeeps ==
    ASSUME AuthInv, NEW h \in Handlers, InstallRow(h)
    PROVE  AuthInv'
<1>1. /\ op'[h] = [step |-> "issue"]
      /\ \A g \in Handlers : g # h => op'[g] = op[g]
      /\ op' = [k \in Handlers |-> op'[k]]
  BY OneSteps DEF AuthInv, HandlersAreSound, InstallRow
<1>2. HandlersAreSound'
  BY <1>1
     DEF AuthInv, HandlersAreSound, HandlerIsSound, Alone, Steps, LockSteps, HeldSteps,
         Registering, Binding, InstallRow
<1>3. RowIsSound'
  BY <1>1, SessionNames DEF AuthInv, RowIsSound, past, InstallRow
<1>4. GrantIsSound'
  BY <1>1
     DEF AuthInv, HandlersAreSound, HandlerIsSound, GrantIsSound, Registering, store, InstallRow
<1>5. EndIsSound'
  BY <1>1 DEF AuthInv, EndIsSound, store, world, past, InstallRow
<1> QED
  BY <1>2, <1>3, <1>4, <1>5 DEF AuthInv

LEMMA IssueLaunchKeeps ==
    ASSUME AuthInv, NEW h \in Handlers, IssueLaunch(h)
    PROVE  AuthInv'
<1>1. /\ op'[h] = Idle
      /\ \A g \in Handlers : g # h => op'[g] = op[g]
      /\ op' = [k \in Handlers |-> op'[k]]
  BY OneSteps DEF AuthInv, HandlersAreSound, IssueLaunch, Done
<1>2. HandlersAreSound'
  BY <1>1
     DEF AuthInv, HandlersAreSound, HandlerIsSound, Alone, Idle, Steps, LockSteps, HeldSteps,
         Registering, Binding, IssueLaunch
<1>3. RowIsSound'
  BY <1>1
     DEF AuthInv, HandlersAreSound, HandlerIsSound, RowIsSound, Registering, Stages, past,
         IssueLaunch
<1>4. GrantIsSound'
  BY <1>1 DEF AuthInv, HandlersAreSound, HandlerIsSound, GrantIsSound, Registering, IssueLaunch
<1>5. EndIsSound'
  BY <1>1
     DEF AuthInv, HandlersAreSound, HandlerIsSound, EndIsSound, Idle, Registering, Binding, world,
         past, IssueLaunch
<1> QED
  BY <1>2, <1>3, <1>4, <1>5 DEF AuthInv

LEMMA IssueRefusedKeeps ==
    ASSUME AuthInv, NEW h \in Handlers, IssueRefused(h)
    PROVE  AuthInv'
<1>1. /\ op'[h] = Idle
      /\ \A g \in Handlers : g # h => op'[g] = op[g]
      /\ op' = [k \in Handlers |-> op'[k]]
  BY OneSteps DEF AuthInv, HandlersAreSound, IssueRefused, Done
<1>2. HandlersAreSound'
  BY <1>1
     DEF AuthInv, HandlersAreSound, HandlerIsSound, Alone, Idle, Steps, LockSteps, HeldSteps,
         Registering, Binding, IssueRefused
<1>3. RowIsSound'
  BY <1>1 DEF AuthInv, RowIsSound, past, IssueRefused
<1>4. GrantIsSound'
  BY <1>1 DEF AuthInv, GrantIsSound, store, past, IssueRefused
<1>5. EndIsSound'
  BY <1>1 DEF AuthInv, EndIsSound, Idle, store, world, past, IssueRefused
<1> QED
  BY <1>2, <1>3, <1>4, <1>5 DEF AuthInv

LEMMA BeginBindKeeps ==
    ASSUME AuthInv, NEW h \in Handlers, BeginBind(h)
    PROVE  AuthInv'
<1>1. /\ op'[h] = [step |-> "bind"]
      /\ \A g \in Handlers : g # h => op'[g] = op[g]
      /\ op' = [k \in Handlers |-> op'[k]]
  BY OneSteps DEF AuthInv, HandlersAreSound, BeginBind
<1>2. HandlersAreSound'
  BY <1>1
     DEF AuthInv, HandlersAreSound, HandlerIsSound, Alone, Steps, LockSteps, HeldSteps,
         Registering, BeginBind
<1>3. RowIsSound'
  BY <1>1 DEF AuthInv, RowIsSound, Stages, past, BeginBind
<1>4. GrantIsSound'
  BY <1>1 DEF AuthInv, GrantIsSound, store, BeginBind
<1>5. EndIsSound'
  BY <1>1 DEF AuthInv, EndIsSound, store, world, past, BeginBind, Admitted
<1> QED
  BY <1>2, <1>3, <1>4, <1>5 DEF AuthInv

LEMMA BindRowKeeps ==
    ASSUME AuthInv, NEW h \in Handlers, BindRow(h)
    PROVE  AuthInv'
<1>1. CASE row # NoRow /\ trusted /\ "worker" \in alive
  <2>1. /\ op'[h] = [step |-> "claim"]
        /\ \A g \in Handlers : g # h => op'[g] = op[g]
        /\ op' = [k \in Handlers |-> op'[k]]
    BY <1>1, OneSteps DEF AuthInv, HandlersAreSound, BindRow
  <2>2. HandlersAreSound'
    <3>1. HandlerIsSound(h)' /\ op'[h].step \in Steps
      BY <1>1, <2>1
         DEF AuthInv, HandlersAreSound, HandlerIsSound, Steps, LockSteps, HeldSteps, Registering,
             Binding, BindRow
    <3>2. ASSUME NEW g \in Handlers, g # h PROVE HandlerIsSound(g)' /\ op'[g].step \in Steps
      BY <1>1, <2>1, <3>2 DEF AuthInv, HandlersAreSound, HandlerIsSound, Binding, BindRow
    <3>3. ASSUME NEW g \in Handlers, g # h PROVE Alone(h, g)' /\ Alone(g, h)'
      BY <1>1, <2>1, <3>3
         DEF AuthInv, HandlersAreSound, Alone, HeldSteps, Registering, Binding, BindRow
    <3>4. ASSUME NEW f \in Handlers \ {h}, NEW g \in Handlers \ {h}, f # g PROVE Alone(f, g)'
      BY <1>1, <2>1, <3>4 DEF AuthInv, HandlersAreSound, Alone
    <3>5. QED
      BY <2>1, <3>1, <3>2, <3>3, <3>4 DEF HandlersAreSound
  <2>3. RowIsSound'
    BY <1>1, <2>1 DEF AuthInv, RowIsSound, past, BindRow
  <2>4. GrantIsSound'
    BY <1>1, <2>1 DEF AuthInv, RowIsSound, GrantIsSound, store, past, BindRow
  <2>5. EndIsSound'
    BY <1>1, <2>1 DEF AuthInv, EndIsSound, store, past, BindRow
  <2> QED
    BY <2>2, <2>3, <2>4, <2>5 DEF AuthInv
<1>2. CASE ~(row # NoRow /\ trusted /\ "worker" \in alive)
  <2>1. /\ op'[h] = Idle
        /\ \A g \in Handlers : g # h => op'[g] = op[g]
        /\ op' = [k \in Handlers |-> op'[k]]
    BY <1>2, OneSteps DEF AuthInv, HandlersAreSound, BindRow, Done
  <2>2. HandlersAreSound'
    <3>1. HandlerIsSound(h)' /\ op'[h].step \in Steps
      BY <1>2, <2>1 DEF HandlerIsSound, Idle, Steps, LockSteps, HeldSteps, Registering, Binding
    <3>2. ASSUME NEW g \in Handlers, g # h PROVE HandlerIsSound(g)' /\ op'[g].step \in Steps
      BY <1>2, <2>1, <3>2 DEF AuthInv, HandlersAreSound, HandlerIsSound, Binding, BindRow
    <3>3. ASSUME NEW g \in Handlers, g # h PROVE Alone(h, g)' /\ Alone(g, h)'
      BY <1>2, <2>1, <3>3 DEF Alone, Idle, HeldSteps, Registering, Binding
    <3>4. ASSUME NEW f \in Handlers \ {h}, NEW g \in Handlers \ {h}, f # g PROVE Alone(f, g)'
      BY <1>2, <2>1, <3>4 DEF AuthInv, HandlersAreSound, Alone
    <3>5. QED
      BY <2>1, <3>1, <3>2, <3>3, <3>4 DEF HandlersAreSound
  <2>3. RowIsSound'
    BY <1>2, <2>1 DEF AuthInv, RowIsSound, past, BindRow
  <2>4. GrantIsSound'
    BY <1>2, <2>1 DEF AuthInv, GrantIsSound, store, past, BindRow
  <2>5. EndIsSound'
    BY <1>2, <2>1 DEF AuthInv, EndIsSound, Idle, store, world, past, BindRow
  <2> QED
    BY <2>2, <2>3, <2>4, <2>5 DEF AuthInv
<1> QED
  BY <1>1, <1>2 DEF BindRow

LEMMA ClaimKeeps ==
    ASSUME AuthInv, NEW h \in Handlers, Claim(h)
    PROVE  AuthInv'
<1>1. CASE MayAttenuate(launch, SessionTTL) /\ indexed = NoGrant /\ "worker" \in alive
  <2>1. /\ op'[h] = [step |-> "relay"]
        /\ \A g \in Handlers : g # h => op'[g] = op[g]
        /\ op' = [k \in Handlers |-> op'[k]]
    BY <1>1, OneSteps DEF AuthInv, HandlersAreSound, Claim
  <2>2. HandlersAreSound'
    <3>1. HandlerIsSound(h)' /\ op'[h].step \in Steps
      BY <1>1, <2>1
         DEF AuthInv, HandlersAreSound, HandlerIsSound, Steps, LockSteps, HeldSteps, Registering,
             Binding, Claim
    <3>2. ASSUME NEW g \in Handlers, g # h PROVE HandlerIsSound(g)' /\ op'[g].step \in Steps
      BY <1>1, <2>1, <3>2 DEF AuthInv, HandlersAreSound, HandlerIsSound, Binding, Claim
    <3>3. ASSUME NEW g \in Handlers, g # h PROVE Alone(h, g)' /\ Alone(g, h)'
      BY <1>1, <2>1, <3>3
         DEF AuthInv, HandlersAreSound, Alone, HeldSteps, Registering, Binding, Claim
    <3>4. ASSUME NEW f \in Handlers \ {h}, NEW g \in Handlers \ {h}, f # g PROVE Alone(f, g)'
      BY <1>1, <2>1, <3>4 DEF AuthInv, HandlersAreSound, Alone
    <3>5. QED
      BY <2>1, <3>1, <3>2, <3>3, <3>4 DEF HandlersAreSound
  <2>3. RowIsSound'
    BY <1>1, <2>1 DEF AuthInv, RowIsSound, past, Claim
  <2>4. GrantIsSound'
    BY <1>1, <2>1
       DEF AuthInv, HandlersAreSound, HandlerIsSound, RowIsSound, GrantIsSound, Binding, Claim,
           SessionGrant, IndexedGrant
  <2>5. EndIsSound'
    BY <1>1, <2>1 DEF AuthInv, EndIsSound, past, Claim, IsLive, MayAttenuate
  <2> QED
    BY <2>2, <2>3, <2>4, <2>5 DEF AuthInv
<1>2. CASE ~(MayAttenuate(launch, SessionTTL) /\ indexed = NoGrant /\ "worker" \in alive)
  <2>1. /\ op'[h] = Idle
        /\ \A g \in Handlers : g # h => op'[g] = op[g]
        /\ op' = [k \in Handlers |-> op'[k]]
    BY <1>2, OneSteps DEF AuthInv, HandlersAreSound, Claim, Done
  <2>2. HandlersAreSound'
    <3>1. HandlerIsSound(h)' /\ op'[h].step \in Steps
      BY <1>2, <2>1 DEF HandlerIsSound, Idle, Steps, LockSteps, HeldSteps, Registering, Binding
    <3>2. ASSUME NEW g \in Handlers, g # h PROVE HandlerIsSound(g)' /\ op'[g].step \in Steps
      BY <1>2, <2>1, <3>2 DEF AuthInv, HandlersAreSound, HandlerIsSound, Binding, Claim
    <3>3. ASSUME NEW g \in Handlers, g # h PROVE Alone(h, g)' /\ Alone(g, h)'
      BY <1>2, <2>1, <3>3 DEF Alone, Idle, HeldSteps, Registering, Binding
    <3>4. ASSUME NEW f \in Handlers \ {h}, NEW g \in Handlers \ {h}, f # g PROVE Alone(f, g)'
      BY <1>2, <2>1, <3>4 DEF AuthInv, HandlersAreSound, Alone
    <3>5. QED
      BY <2>1, <3>1, <3>2, <3>3, <3>4 DEF HandlersAreSound
  <2>3. RowIsSound'
    BY <1>2, <2>1 DEF AuthInv, RowIsSound, past, Claim
  <2>4. GrantIsSound'
    BY <1>2, <2>1 DEF AuthInv, GrantIsSound, past, Claim
  <2>5. EndIsSound'
    BY <1>2, <2>1 DEF AuthInv, EndIsSound, Idle, world, past, Claim
  <2> QED
    BY <2>2, <2>3, <2>4, <2>5 DEF AuthInv
<1> QED
  BY <1>1, <1>2 DEF Claim

LEMMA IssueRelayKeeps ==
    ASSUME AuthInv, NEW h \in Handlers, IssueRelay(h)
    PROVE  AuthInv'
<1>1. /\ op'[h] = Idle
      /\ \A g \in Handlers : g # h => op'[g] = op[g]
      /\ op' = [k \in Handlers |-> op'[k]]
  BY OneSteps DEF AuthInv, HandlersAreSound, IssueRelay, Done
<1>2. HandlersAreSound'
  BY <1>1
     DEF AuthInv, HandlersAreSound, HandlerIsSound, Alone, Idle, Steps, LockSteps, HeldSteps,
         Registering, Binding, IssueRelay
<1>3. RowIsSound'
  BY <1>1 DEF AuthInv, RowIsSound, Stages, past, IssueRelay
<1>4. GrantIsSound'
  BY <1>1 DEF AuthInv, GrantIsSound, past, IssueRelay
<1>5. EndIsSound'
  BY <1>1 DEF AuthInv, EndIsSound, Idle, world, past, IssueRelay, IsLive, MayAttenuate
<1> QED
  BY <1>2, <1>3, <1>4, <1>5 DEF AuthInv

LEMMA BindRefusedKeeps ==
    ASSUME AuthInv, NEW h \in Handlers, BindRefused(h)
    PROVE  AuthInv'
<1>1. /\ op'[h] = Idle
      /\ \A g \in Handlers : g # h => op'[g] = op[g]
      /\ op' = [k \in Handlers |-> op'[k]]
  BY OneSteps DEF AuthInv, HandlersAreSound, BindRefused, Done
<1>2. HandlersAreSound'
  BY <1>1
     DEF AuthInv, HandlersAreSound, HandlerIsSound, Alone, Idle, Steps, LockSteps, HeldSteps,
         Registering, Binding, BindRefused
<1>3. RowIsSound'
  BY <1>1 DEF AuthInv, RowIsSound, past, BindRefused
<1>4. GrantIsSound'
  BY <1>1 DEF AuthInv, GrantIsSound, store, past, BindRefused
<1>5. EndIsSound'
  BY <1>1 DEF AuthInv, EndIsSound, Idle, store, world, past, BindRefused
<1> QED
  BY <1>2, <1>3, <1>4, <1>5 DEF AuthInv

LEMMA BeginTransitionKeeps ==
    ASSUME AuthInv, NEW h \in Handlers, NEW c \in Calls \cup {None}, BeginTransition(h, c)
    PROVE  AuthInv'
<1>1. /\ op'[h] = [step |-> "lookup", call |-> c, leave |-> FALSE]
      /\ \A g \in Handlers : g # h => op'[g] = op[g]
      /\ op' = [k \in Handlers |-> op'[k]]
  BY OneSteps DEF AuthInv, HandlersAreSound, BeginTransition
<1>2. HandlersAreSound'
  <2>1. HandlerIsSound(h)' /\ op'[h].step \in Steps
    BY <1>1 DEF HandlerIsSound, Steps, LockSteps, HeldSteps, Registering, Binding, BeginTransition
  <2>2. ASSUME NEW g \in Handlers, g # h PROVE HandlerIsSound(g)' /\ op'[g].step \in Steps
    BY <1>1, <2>2 DEF AuthInv, HandlersAreSound, HandlerIsSound, past, BeginTransition
  <2>3. ASSUME NEW g \in Handlers, g # h PROVE Alone(h, g)' /\ Alone(g, h)'
    BY <1>1, <2>3 DEF Alone, HeldSteps, Registering, Binding
  <2>4. ASSUME NEW f \in Handlers \ {h}, NEW g \in Handlers \ {h}, f # g PROVE Alone(f, g)'
    BY <1>1, <2>4 DEF AuthInv, HandlersAreSound, Alone
  <2>5. QED
    BY <1>1, <2>1, <2>2, <2>3, <2>4 DEF HandlersAreSound
<1>3. RowIsSound'
  BY <1>1 DEF AuthInv, RowIsSound, past, BeginTransition
<1>4. GrantIsSound'
  BY <1>1 DEF AuthInv, GrantIsSound, Idle, store, past, BeginTransition, Admitted
<1>5. EndIsSound'
  BY <1>1 DEF AuthInv, EndIsSound, store, world, past, BeginTransition
<1> QED
  BY <1>2, <1>3, <1>4, <1>5 DEF AuthInv

LEMMA BeginDeregisterKeeps ==
    ASSUME AuthInv, NEW h \in Handlers, BeginDeregister(h)
    PROVE  AuthInv'
<1>1. /\ op'[h] = [step |-> "lookup", call |-> None, leave |-> TRUE]
      /\ \A g \in Handlers : g # h => op'[g] = op[g]
      /\ op' = [k \in Handlers |-> op'[k]]
  BY OneSteps DEF AuthInv, HandlersAreSound, BeginDeregister
<1>2. HandlersAreSound'
  <2>1. HandlerIsSound(h)' /\ op'[h].step \in Steps
    BY <1>1 DEF HandlerIsSound, Steps, LockSteps, HeldSteps, Registering, Binding, BeginDeregister
  <2>2. ASSUME NEW g \in Handlers, g # h PROVE HandlerIsSound(g)' /\ op'[g].step \in Steps
    BY <1>1, <2>2 DEF AuthInv, HandlersAreSound, HandlerIsSound, past, BeginDeregister
  <2>3. ASSUME NEW g \in Handlers, g # h PROVE Alone(h, g)' /\ Alone(g, h)'
    BY <1>1, <2>3 DEF Alone, HeldSteps, Registering, Binding
  <2>4. ASSUME NEW f \in Handlers \ {h}, NEW g \in Handlers \ {h}, f # g PROVE Alone(f, g)'
    BY <1>1, <2>4 DEF AuthInv, HandlersAreSound, Alone
  <2>5. QED
    BY <1>1, <2>1, <2>2, <2>3, <2>4 DEF HandlersAreSound
<1>3. RowIsSound'
  BY <1>1 DEF AuthInv, RowIsSound, Stages, past, BeginDeregister
<1>4. GrantIsSound'
  BY <1>1 DEF AuthInv, GrantIsSound, Idle, store, past, BeginDeregister, Admitted
<1>5. EndIsSound'
  BY <1>1 DEF AuthInv, EndIsSound, store, world, past, BeginDeregister
<1> QED
  BY <1>2, <1>3, <1>4, <1>5 DEF AuthInv

LEMMA LookupKeeps ==
    ASSUME AuthInv, NEW h \in Handlers, Lookup(h)
    PROVE  AuthInv'
<1>1. /\ op'[h] = [step |-> "wait", call |-> op[h].call, leave |-> op[h].leave, lock |-> mapped']
      /\ \A g \in Handlers : g # h => op'[g] = op[g]
      /\ op' = [k \in Handlers |-> op'[k]]
  BY OneSteps DEF AuthInv, HandlersAreSound, Lookup
<1>2. HandlersAreSound'
  <2>1. HandlerIsSound(h)' /\ op'[h].step \in Steps
    BY LockIsFresh, <1>1
       DEF AuthInv, HandlersAreSound, HandlerIsSound, Steps, LockSteps, Registering, Binding,
           Lookup
  <2>2. ASSUME NEW g \in Handlers, g # h PROVE HandlerIsSound(g)' /\ op'[g].step \in Steps
    BY LockIsFresh, <1>1, <2>2 DEF AuthInv, HandlersAreSound, HandlerIsSound, past, Lookup
  <2>3. ASSUME NEW g \in Handlers, g # h PROVE Alone(h, g)' /\ Alone(g, h)'
    BY <1>1, <2>3 DEF Alone, HeldSteps, Registering, Binding
  <2>4. ASSUME NEW f \in Handlers \ {h}, NEW g \in Handlers \ {h}, f # g PROVE Alone(f, g)'
    BY <1>1, <2>4 DEF AuthInv, HandlersAreSound, Alone
  <2>5. QED
    BY <1>1, <2>1, <2>2, <2>3, <2>4 DEF HandlersAreSound
<1>3. RowIsSound'
  BY <1>1 DEF AuthInv, RowIsSound, past, Lookup
<1>4. GrantIsSound'
  BY <1>1 DEF AuthInv, GrantIsSound, store, past, Lookup
<1>5. EndIsSound'
  BY <1>1 DEF AuthInv, EndIsSound, store, world, past, Lookup
<1> QED
  BY <1>2, <1>3, <1>4, <1>5 DEF AuthInv

LEMMA AcquireKeeps ==
    ASSUME AuthInv, NEW h \in Handlers, Acquire(h)
    PROVE  AuthInv'
<1>1. CASE IsLive(launch) /\ op[h].leave
  <2>1. /\ op'[h] = [step |-> "remove", call |-> op[h].call, lock |-> op[h].lock]
        /\ \A g \in Handlers : g # h => op'[g] = op[g]
        /\ op' = [k \in Handlers |-> op'[k]]
    BY <1>1, OneSteps DEF AuthInv, HandlersAreSound, Acquire
  <2>2. HandlersAreSound'
    <3>1. HandlerIsSound(h)' /\ op'[h].step \in Steps
      BY <1>1, <2>1
         DEF AuthInv, HandlersAreSound, HandlerIsSound, Steps, LockSteps, HeldSteps, Registering,
             Binding, Acquire
    <3>2. ASSUME NEW g \in Handlers, g # h PROVE HandlerIsSound(g)' /\ op'[g].step \in Steps
      BY <1>1, <2>1, <3>2
         DEF AuthInv, HandlersAreSound, HandlerIsSound, Steps, LockSteps, Acquire, Holders, Users
    <3>3. ASSUME NEW g \in Handlers, g # h PROVE Alone(h, g)' /\ Alone(g, h)'
      BY <1>1, <2>1, <3>3
         DEF AuthInv, HandlersAreSound, HandlerIsSound, Alone, LockSteps, Binding, Acquire,
             Holders, Users
    <3>4. ASSUME NEW f \in Handlers \ {h}, NEW g \in Handlers \ {h}, f # g PROVE Alone(f, g)'
      BY <1>1, <2>1, <3>4 DEF AuthInv, HandlersAreSound, Alone
    <3>5. QED
      BY <2>1, <3>1, <3>2, <3>3, <3>4 DEF HandlersAreSound
  <2>3. RowIsSound'
    BY <1>1, <2>1 DEF AuthInv, RowIsSound, past, Acquire
  <2>4. GrantIsSound'
    BY <1>1, <2>1 DEF AuthInv, GrantIsSound, store, past, Acquire
  <2>5. EndIsSound'
    BY <1>1, <2>1 DEF AuthInv, EndIsSound, store, world, past, Acquire
  <2> QED
    BY <2>2, <2>3, <2>4, <2>5 DEF AuthInv
<1>2. CASE IsLive(launch) /\ ~op[h].leave
  <2>1. /\ op'[h] = [step |-> "swap", call |-> op[h].call, lock |-> op[h].lock]
        /\ \A g \in Handlers : g # h => op'[g] = op[g]
        /\ op' = [k \in Handlers |-> op'[k]]
    BY <1>2, OneSteps DEF AuthInv, HandlersAreSound, Acquire
  <2>2. HandlersAreSound'
    <3>1. HandlerIsSound(h)' /\ op'[h].step \in Steps
      BY <1>2, <2>1
         DEF AuthInv, HandlersAreSound, HandlerIsSound, Steps, LockSteps, HeldSteps, Registering,
             Binding, Acquire
    <3>2. ASSUME NEW g \in Handlers, g # h PROVE HandlerIsSound(g)' /\ op'[g].step \in Steps
      BY <1>2, <2>1, <3>2
         DEF AuthInv, HandlersAreSound, HandlerIsSound, Steps, LockSteps, Acquire, Holders, Users
    <3>3. ASSUME NEW g \in Handlers, g # h PROVE Alone(h, g)' /\ Alone(g, h)'
      BY <1>2, <2>1, <3>3
         DEF AuthInv, HandlersAreSound, HandlerIsSound, Alone, LockSteps, Acquire, Holders, Users
    <3>4. ASSUME NEW f \in Handlers \ {h}, NEW g \in Handlers \ {h}, f # g PROVE Alone(f, g)'
      BY <1>2, <2>1, <3>4 DEF AuthInv, HandlersAreSound, Alone
    <3>5. QED
      BY <2>1, <3>1, <3>2, <3>3, <3>4 DEF HandlersAreSound
  <2>3. RowIsSound'
    BY <1>2, <2>1 DEF AuthInv, RowIsSound, past, Acquire
  <2>4. GrantIsSound'
    BY <1>2, <2>1 DEF AuthInv, GrantIsSound, store, past, Acquire
  <2>5. EndIsSound'
    BY <1>2, <2>1 DEF AuthInv, EndIsSound, store, world, past, Acquire, IsLive
  <2> QED
    BY <2>2, <2>3, <2>4, <2>5 DEF AuthInv
<1>3. CASE ~IsLive(launch)
  <2>1. /\ op'[h] = Idle
        /\ \A g \in Handlers : g # h => op'[g] = op[g]
        /\ op' = [k \in Handlers |-> op'[k]]
    BY <1>3, OneSteps DEF AuthInv, HandlersAreSound, Acquire, Done
  <2>2. HandlersAreSound'
    <3>1. HandlerIsSound(h)' /\ op'[h].step \in Steps
      BY <1>3, <2>1 DEF HandlerIsSound, Idle, Steps, LockSteps, HeldSteps, Registering, Binding
    <3>2. ASSUME NEW g \in Handlers, g # h PROVE HandlerIsSound(g)' /\ op'[g].step \in Steps
      BY <1>3, <2>1, <3>2
         DEF AuthInv, HandlersAreSound, HandlerIsSound, Steps, LockSteps, Acquire, Holders, Users
    <3>3. ASSUME NEW g \in Handlers, g # h PROVE Alone(h, g)' /\ Alone(g, h)'
      BY <1>3, <2>1, <3>3 DEF Alone, Idle, HeldSteps, Registering, Binding
    <3>4. ASSUME NEW f \in Handlers \ {h}, NEW g \in Handlers \ {h}, f # g PROVE Alone(f, g)'
      BY <1>3, <2>1, <3>4 DEF AuthInv, HandlersAreSound, Alone
    <3>5. QED
      BY <2>1, <3>1, <3>2, <3>3, <3>4 DEF HandlersAreSound
  <2>3. RowIsSound'
    BY <1>3, <2>1 DEF AuthInv, RowIsSound, past, Acquire
  <2>4. GrantIsSound'
    BY <1>3, <2>1 DEF AuthInv, GrantIsSound, store, past, Acquire
  <2>5. EndIsSound'
    BY <1>3, <2>1 DEF AuthInv, EndIsSound, Idle, store, world, past, Acquire
  <2> QED
    BY <2>2, <2>3, <2>4, <2>5 DEF AuthInv
<1> QED
  BY <1>1, <1>2, <1>3 DEF Acquire

LEMMA SwapKeeps ==
    ASSUME AuthInv, NEW h \in Handlers, Swap(h)
    PROVE  AuthInv'
<1>1. /\ op'[h] = [step |-> "derive", call |-> op[h].call, lock |-> op[h].lock,
                 before |-> row.scope]
      /\ \A g \in Handlers : g # h => op'[g] = op[g]
      /\ op' = [k \in Handlers |-> op'[k]]
  BY OneSteps DEF AuthInv, HandlersAreSound, Swap
<1>2. HandlersAreSound'
  BY <1>1
     DEF AuthInv, HandlersAreSound, HandlerIsSound, RowIsSound, Alone, Steps, LockSteps,
         HeldSteps, Registering, Binding, past, Swap, MaySwap
<1>3. RowIsSound'
  BY <1>1 DEF AuthInv, HandlersAreSound, HandlerIsSound, RowIsSound, past, Swap, MaySwap
<1>4. GrantIsSound'
  BY <1>1 DEF AuthInv, GrantIsSound, store, past, Swap
<1>5. EndIsSound'
  BY <1>1 DEF AuthInv, EndIsSound, store, world, past, Swap
<1> QED
  BY <1>2, <1>3, <1>4, <1>5 DEF AuthInv

LEMMA SwapRefusedKeeps ==
    ASSUME AuthInv, NEW h \in Handlers, SwapRefused(h)
    PROVE  AuthInv'
<1>1. /\ op'[h] = Idle
      /\ \A g \in Handlers : g # h => op'[g] = op[g]
      /\ op' = [k \in Handlers |-> op'[k]]
  BY OneSteps DEF AuthInv, HandlersAreSound, SwapRefused, Done
<1>2. HandlersAreSound'
  BY <1>1
     DEF AuthInv, HandlersAreSound, HandlerIsSound, Alone, Idle, Steps, LockSteps, HeldSteps,
         Registering, Binding, SwapRefused
<1>3. RowIsSound'
  BY <1>1 DEF AuthInv, RowIsSound, past, SwapRefused
<1>4. GrantIsSound'
  BY <1>1 DEF AuthInv, GrantIsSound, store, past, SwapRefused
<1>5. EndIsSound'
  BY <1>1 DEF AuthInv, EndIsSound, Idle, store, world, past, SwapRefused
<1> QED
  BY <1>2, <1>3, <1>4, <1>5 DEF AuthInv

LEMMA DeriveKeeps ==
    ASSUME AuthInv, NEW h \in Handlers, Derive(h)
    PROVE  AuthInv'
<1>1. /\ op'[h] = Idle
      /\ \A g \in Handlers : g # h => op'[g] = op[g]
      /\ op' = [k \in Handlers |-> op'[k]]
  BY OneSteps DEF AuthInv, HandlersAreSound, Derive, Done
<1>2. HandlersAreSound'
  BY <1>1
     DEF AuthInv, HandlersAreSound, HandlerIsSound, Alone, Idle, Steps, LockSteps, HeldSteps,
         Registering, Binding, Derive
<1>3. RowIsSound'
  BY <1>1 DEF AuthInv, HandlersAreSound, HandlerIsSound, RowIsSound, Derive
<1>4. GrantIsSound'
  BY <1>1
     DEF AuthInv, HandlersAreSound, HandlerIsSound, GrantIsSound, Derive, SessionGrant,
         TargetGrant, IndexedGrant
<1>5. EndIsSound'
  BY <1>1 DEF AuthInv, EndIsSound, Idle, world, Derive, MayDerive, MayAttenuate, IsLive, Less
<1> QED
  BY <1>2, <1>3, <1>4, <1>5 DEF AuthInv

LEMMA RollbackKeeps ==
    ASSUME AuthInv, NEW h \in Handlers, Rollback(h)
    PROVE  AuthInv'
<1>1. /\ op'[h] = Idle
      /\ \A g \in Handlers : g # h => op'[g] = op[g]
      /\ op' = [k \in Handlers |-> op'[k]]
  BY OneSteps DEF AuthInv, HandlersAreSound, Rollback, Done
<1>2. HandlersAreSound'
  BY <1>1
     DEF AuthInv, HandlersAreSound, HandlerIsSound, Alone, Idle, Steps, LockSteps, HeldSteps,
         Registering, Binding, Rollback
<1>3. RowIsSound'
  BY <1>1 DEF AuthInv, HandlersAreSound, HandlerIsSound, RowIsSound, Rollback
<1>4. GrantIsSound'
  BY <1>1 DEF GrantIsSound, Rollback, RevokeSession
<1>5. EndIsSound'
  BY <1>1 DEF AuthInv, HandlersAreSound, HandlerIsSound, EndIsSound, Rollback, RevokeSession
<1> QED
  BY <1>2, <1>3, <1>4, <1>5 DEF AuthInv

LEMMA RemoveKeeps ==
    ASSUME AuthInv, NEW h \in Handlers, Remove(h)
    PROVE  AuthInv'
<1>1. /\ op'[h] = [step |-> "retire", lock |-> op[h].lock]
      /\ \A g \in Handlers : g # h => op'[g] = op[g]
      /\ op' = [k \in Handlers |-> op'[k]]
  BY OneSteps DEF AuthInv, HandlersAreSound, Remove
<1>2. HandlersAreSound'
  BY <1>1
     DEF AuthInv, HandlersAreSound, HandlerIsSound, Alone, Steps, LockSteps, HeldSteps,
         Registering, Binding, Remove
<1>3. RowIsSound'
  BY <1>1 DEF AuthInv, RowIsSound, past, Remove
<1>4. GrantIsSound'
  BY <1>1 DEF AuthInv, GrantIsSound, store, past, Remove
<1>5. EndIsSound'
  BY <1>1 DEF AuthInv, EndIsSound, store, world, past, Remove
<1> QED
  BY <1>2, <1>3, <1>4, <1>5 DEF AuthInv

LEMMA RetireKeeps ==
    ASSUME AuthInv, NEW h \in Handlers, Retire(h)
    PROVE  AuthInv'
<1>1. /\ op'[h] = [step |-> "release", lock |-> op[h].lock]
      /\ \A g \in Handlers : g # h => op'[g] = op[g]
      /\ op' = [k \in Handlers |-> op'[k]]
  BY OneSteps DEF AuthInv, HandlersAreSound, Retire
<1>2. HandlersAreSound'
  BY <1>1
     DEF AuthInv, HandlersAreSound, HandlerIsSound, Alone, Steps, LockSteps, Registering, Binding,
         Retire
<1>3. RowIsSound'
  BY <1>1 DEF AuthInv, RowIsSound, Retire
<1>4. GrantIsSound'
  BY <1>1 DEF GrantIsSound, Retire
<1>5. EndIsSound'
  BY <1>1
     DEF AuthInv, HandlersAreSound, HandlerIsSound, EndIsSound, Alone, Steps, LockSteps, Retire
<1> QED
  BY <1>2, <1>3, <1>4, <1>5 DEF AuthInv

LEMMA ReleaseKeeps ==
    ASSUME AuthInv, NEW h \in Handlers, Release(h)
    PROVE  AuthInv'
<1>1. /\ op'[h] = Idle
      /\ \A g \in Handlers : g # h => op'[g] = op[g]
      /\ op' = [k \in Handlers |-> op'[k]]
  BY OneSteps DEF AuthInv, HandlersAreSound, Release, Done
<1>2. HandlersAreSound'
  <2>1. HandlerIsSound(h)' /\ op'[h].step \in Steps
    BY LastUser, <1>1 DEF HandlerIsSound, Idle, Steps, LockSteps, HeldSteps, Registering, Binding
  <2>2. ASSUME NEW g \in Handlers, g # h PROVE HandlerIsSound(g)' /\ op'[g].step \in Steps
    BY LastUser, <1>1, <2>2
       DEF AuthInv, HandlersAreSound, HandlerIsSound, Steps, store, past, Release, Users
  <2>3. ASSUME NEW g \in Handlers, g # h PROVE Alone(h, g)' /\ Alone(g, h)'
    BY <1>1, <2>3 DEF Alone, Idle, HeldSteps, Registering, Binding
  <2>4. ASSUME NEW f \in Handlers \ {h}, NEW g \in Handlers \ {h}, f # g PROVE Alone(f, g)'
    BY <1>1, <2>4 DEF AuthInv, HandlersAreSound, Alone
  <2>5. QED
    BY <1>1, <2>1, <2>2, <2>3, <2>4 DEF HandlersAreSound
<1>3. RowIsSound'
  BY <1>1 DEF AuthInv, RowIsSound, past, Release
<1>4. GrantIsSound'
  BY <1>1 DEF AuthInv, GrantIsSound, store, past, Release
<1>5. EndIsSound'
  BY <1>1 DEF AuthInv, EndIsSound, Idle, store, world, past, Release
<1> QED
  BY <1>2, <1>3, <1>4, <1>5 DEF AuthInv

LEMMA ResolveKeeps ==
    ASSUME AuthInv, NEW h \in Handlers, Resolve(h)
    PROVE  AuthInv'
<1>1. /\ op'[h] = [step |-> "spend", grant |-> indexed.id]
      /\ \A g \in Handlers : g # h => op'[g] = op[g]
      /\ op' = [k \in Handlers |-> op'[k]]
  BY OneSteps DEF AuthInv, HandlersAreSound, Resolve
<1>2. HandlersAreSound'
  BY <1>1
     DEF AuthInv, HandlersAreSound, HandlerIsSound, Alone, Steps, LockSteps, HeldSteps,
         Registering, Binding, past, Resolve
<1>3. RowIsSound'
  BY <1>1 DEF AuthInv, RowIsSound, past, Resolve
<1>4. GrantIsSound'
  BY <1>1 DEF AuthInv, GrantIsSound, Idle, store, past, Resolve, Admitted
<1>5. EndIsSound'
  BY <1>1 DEF AuthInv, EndIsSound, store, past, Resolve
<1> QED
  BY <1>2, <1>3, <1>4, <1>5 DEF AuthInv

LEMMA SpendKeeps ==
    ASSUME AuthInv, NEW h \in Handlers, NEW c \in Calls, Spend(h, c)
    PROVE  AuthInv'
<1>1. /\ op'[h] = Idle
      /\ \A g \in Handlers : g # h => op'[g] = op[g]
      /\ op' = [k \in Handlers |-> op'[k]]
  BY OneSteps DEF AuthInv, HandlersAreSound, Spend, Done
<1>2. HandlersAreSound'
  BY <1>1
     DEF AuthInv, HandlersAreSound, HandlerIsSound, Alone, Idle, Steps, LockSteps, HeldSteps,
         Registering, Binding, Spend
<1>3. RowIsSound'
  BY <1>1 DEF AuthInv, RowIsSound, Spend
<1>4. GrantIsSound'
  BY <1>1 DEF AuthInv, GrantIsSound, store, Spend
<1>5. EndIsSound'
  BY <1>1 DEF AuthInv, EndIsSound, Idle, store, world, Spend
<1> QED
  BY <1>2, <1>3, <1>4, <1>5 DEF AuthInv

LEMMA SpendNothingKeeps ==
    ASSUME AuthInv, NEW h \in Handlers, SpendNothing(h)
    PROVE  AuthInv'
<1>1. /\ op'[h] = Idle
      /\ \A g \in Handlers : g # h => op'[g] = op[g]
      /\ op' = [k \in Handlers |-> op'[k]]
  BY OneSteps DEF AuthInv, HandlersAreSound, SpendNothing, Done
<1>2. HandlersAreSound'
  BY <1>1
     DEF AuthInv, HandlersAreSound, HandlerIsSound, Alone, Idle, Steps, LockSteps, HeldSteps,
         Registering, Binding, past, SpendNothing
<1>3. RowIsSound'
  BY <1>1 DEF AuthInv, RowIsSound, past, SpendNothing
<1>4. GrantIsSound'
  BY <1>1 DEF AuthInv, GrantIsSound, store, past, SpendNothing
<1>5. EndIsSound'
  BY <1>1 DEF AuthInv, EndIsSound, Idle, store, world, past, SpendNothing
<1> QED
  BY <1>2, <1>3, <1>4, <1>5 DEF AuthInv

LEMMA SweepKeeps ==
    ASSUME AuthInv, Sweep
    PROVE  AuthInv'
<1>1. HandlersAreSound'
  BY DEF AuthInv, HandlersAreSound, HandlerIsSound, Alone, past, Sweep
<1>2. RowIsSound'
  BY DEF AuthInv, RowIsSound, past, Sweep
<1>3. GrantIsSound'
  BY DEF AuthInv, GrantIsSound, past, Sweep
<1>4. EndIsSound'
  BY DEF AuthInv, EndIsSound, world, past, Sweep, Less
<1> QED
  BY <1>1, <1>2, <1>3, <1>4 DEF AuthInv

LEMMA DenyKeeps ==
    ASSUME AuthInv, Deny
    PROVE  AuthInv'
<1>1. HandlersAreSound'
  BY DEF AuthInv, HandlersAreSound, HandlerIsSound, Alone, Deny
<1>2. RowIsSound'
  BY DEF AuthInv, RowIsSound, Deny
<1>3. GrantIsSound'
  BY DEF GrantIsSound, Deny, RevokeSession
<1>4. EndIsSound'
  BY DEF AuthInv, EndIsSound, world, Deny, RevokeSession
<1> QED
  BY <1>1, <1>2, <1>3, <1>4 DEF AuthInv

LEMMA StopDistrustedKeeps ==
    ASSUME AuthInv, StopDistrusted
    PROVE  AuthInv'
<1>1. HandlersAreSound'
  BY DEF AuthInv, HandlersAreSound, HandlerIsSound, Alone, StopDistrusted
<1>2. RowIsSound'
  BY DEF AuthInv, RowIsSound, StopDistrusted
<1>3. GrantIsSound'
  BY DEF GrantIsSound, StopDistrusted, RevokeSession
<1>4. EndIsSound'
  BY DEF AuthInv, EndIsSound, StopDistrusted, RevokeSession
<1> QED
  BY <1>1, <1>2, <1>3, <1>4 DEF AuthInv

LEMMA CloseHostKeeps ==
    ASSUME AuthInv, CloseHost
    PROVE  AuthInv'
<1>1. HandlersAreSound'
  BY DEF AuthInv, HandlersAreSound, HandlerIsSound, Alone, past, CloseHost
<1>2. RowIsSound'
  BY DEF AuthInv, RowIsSound, past, CloseHost
<1>3. GrantIsSound'
  BY DEF AuthInv, GrantIsSound, store, past, CloseHost
<1>4. EndIsSound'
  BY DEF AuthInv, EndIsSound, store, world, past, CloseHost
<1> QED
  BY <1>1, <1>2, <1>3, <1>4 DEF AuthInv

LEMMA RevokeRemovedKeeps ==
    ASSUME AuthInv, RevokeRemoved
    PROVE  AuthInv'
<1>1. HandlersAreSound'
  BY DEF AuthInv, HandlersAreSound, HandlerIsSound, Alone, RevokeRemoved
<1>2. RowIsSound'
  BY DEF AuthInv, RowIsSound, RevokeRemoved
<1>3. GrantIsSound'
  BY DEF GrantIsSound, RevokeRemoved, RevokeSession
<1>4. EndIsSound'
  BY DEF AuthInv, EndIsSound, RevokeRemoved, RevokeSession
<1> QED
  BY <1>1, <1>2, <1>3, <1>4 DEF AuthInv

LEMMA ReapKeeps ==
    ASSUME AuthInv, Reap
    PROVE  AuthInv'
<1>1. HandlersAreSound'
  BY DEF AuthInv, HandlersAreSound, HandlerIsSound, Alone, past, Reap
<1>2. RowIsSound'
  BY DEF AuthInv, RowIsSound, past, Reap
<1>3. GrantIsSound'
  BY DEF AuthInv, GrantIsSound, store, past, Reap
<1>4. EndIsSound'
  BY DEF AuthInv, EndIsSound, store, past, Reap
<1> QED
  BY <1>1, <1>2, <1>3, <1>4 DEF AuthInv

LEMMA ExitKeeps ==
    ASSUME AuthInv, NEW p, Exit(p)
    PROVE  AuthInv'
<1>1. HandlersAreSound'
  BY DEF AuthInv, HandlersAreSound, HandlerIsSound, Alone, past, Exit
<1>2. RowIsSound'
  BY DEF AuthInv, RowIsSound, past, Exit
<1>3. GrantIsSound'
  BY DEF AuthInv, GrantIsSound, store, past, Exit
<1>4. EndIsSound'
  BY DEF AuthInv, EndIsSound, store, past, Exit
<1> QED
  BY <1>1, <1>2, <1>3, <1>4 DEF AuthInv

LEMMA DistrustKeeps ==
    ASSUME AuthInv, Distrust
    PROVE  AuthInv'
<1>1. HandlersAreSound'
  BY DEF AuthInv, HandlersAreSound, HandlerIsSound, Alone, past, Distrust
<1>2. RowIsSound'
  BY DEF AuthInv, RowIsSound, past, Distrust
<1>3. GrantIsSound'
  BY DEF AuthInv, GrantIsSound, store, past, Distrust
<1>4. EndIsSound'
  BY DEF AuthInv, EndIsSound, store, past, Distrust
<1> QED
  BY <1>1, <1>2, <1>3, <1>4 DEF AuthInv

LEMMA TickKeeps ==
    ASSUME AuthInv, Tick
    PROVE  AuthInv'
<1>1. HandlersAreSound'
  BY DEF AuthInv, HandlersAreSound, HandlerIsSound, Alone, past, Tick
<1>2. RowIsSound'
  BY DEF AuthInv, RowIsSound, past, Tick
<1>3. GrantIsSound'
  BY DEF AuthInv, GrantIsSound, store, past, Tick
<1>4. EndIsSound'
  BY DEF AuthInv, EndIsSound, store, past, Tick
<1> QED
  BY <1>1, <1>2, <1>3, <1>4 DEF AuthInv

LEMMA StutterKeeps == ASSUME AuthInv, UNCHANGED vars PROVE AuthInv'
  BY DEF AuthInv, HandlersAreSound, HandlerIsSound, RowIsSound, GrantIsSound, EndIsSound, Alone,
         vars, store, world, past

LEMMA AuthStep == AuthInv /\ [Next]_vars => AuthInv'
<1> SUFFICES ASSUME AuthInv, [Next]_vars PROVE AuthInv'
  OBVIOUS
<1>1. ASSUME NEW h \in Handlers, Begin(h) PROVE AuthInv'
  <2>1. ASSUME NEW c \in tokens \cup {None}, BeginTransition(h, c) PROVE AuthInv'
    BY <2>1, BeginTransitionKeeps DEF AuthInv, RowIsSound
  <2> QED
    BY <1>1, <2>1, BeginRegisterKeeps, BeginBindKeeps, BeginDeregisterKeeps, ResolveKeeps
       DEF Begin
<1>2. ASSUME NEW h \in Handlers, Continue(h) PROVE AuthInv'
  <2>1. CASE InstallRow(h) \/ IssueLaunch(h) \/ IssueRefused(h) \/ BindRow(h) \/ Claim(h)
                \/ IssueRelay(h) \/ BindRefused(h)
    BY <2>1, InstallRowKeeps, IssueLaunchKeeps, IssueRefusedKeeps, BindRowKeeps, ClaimKeeps,
       IssueRelayKeeps, BindRefusedKeeps
  <2>2. CASE Lookup(h) \/ Acquire(h) \/ Swap(h) \/ SwapRefused(h) \/ Derive(h) \/ Rollback(h)
    BY <2>2, LookupKeeps, AcquireKeeps, SwapKeeps, SwapRefusedKeeps, DeriveKeeps, RollbackKeeps
  <2>3. CASE Remove(h) \/ Retire(h) \/ Release(h)
    BY <2>3, RemoveKeeps, RetireKeeps, ReleaseKeeps
  <2>4. CASE SpendNothing(h) \/ \E c \in Calls : Spend(h, c)
    BY <2>4, SpendNothingKeeps, SpendKeeps
  <2> QED
    BY <1>2, <2>1, <2>2, <2>3, <2>4 DEF Continue
<1>3. CASE Sweep \/ Deny \/ StopDistrusted \/ CloseHost \/ RevokeRemoved \/ Reap \/ Distrust \/ Tick
  BY <1>3, SweepKeeps, DenyKeeps, StopDistrustedKeeps, CloseHostKeeps, RevokeRemovedKeeps,
     ReapKeeps, DistrustKeeps, TickKeeps
<1>4. ASSUME NEW p \in alive, Exit(p) PROVE AuthInv'
  BY <1>4, ExitKeeps
<1>5. CASE UNCHANGED vars
  BY <1>5, StutterKeeps
<1> QED
  BY <1>1, <1>2, <1>3, <1>4, <1>5 DEF Next, Teardown

\* The invariant of the requests in flight: what register, bind, set_transient
\* and deregister rely on between two of their steps.
THEOREM AuthInvariant == Spec => []AuthInv
  BY AuthInit, AuthStep, PTL DEF Spec

\* The registry and the authority agree: outside a transition the grant of the
\* session id carries the capabilities of the row, and a deregistered session has
\* no grant (set_transient_serialized, deregister).
THEOREM GrantsFollowTheRow == Spec => []AuthorityMatchesRow
<1>1. AuthInv => AuthorityMatchesRow
  <2> SUFFICES ASSUME AuthInv PROVE AuthorityMatchesRow
    OBVIOUS
  <2>1. InTransition = {} => \A h \in Handlers : op[h].step # "derive"
    BY DEF InTransition, HeldSteps
  <2>2. (InTransition = {} /\ row # NoRow /\ indexed # NoGrant) => indexed.caps = {row.scope} \ {None}
    BY <2>1 DEF AuthInv, GrantIsSound
  <2>3. ended = "deregistered" => Grants = {}
    BY DEF AuthInv, EndIsSound, Grants
  <2> QED
    BY <2>2, <2>3 DEF AuthorityMatchesRow
<1> QED
  BY <1>1, AuthInvariant, PTL

\* The action of NothingIsSpentLate.
SpentInTime == \A c \in spent' \ spent : c \notin cleared /\ ended = "no"

LEMMA SpendsAreTimely == AuthInv /\ [Next]_vars => [SpentInTime]_vars
<1> SUFFICES ASSUME AuthInv, [Next]_vars PROVE SpentInTime
  OBVIOUS
<1>1. ASSUME NEW h \in Handlers, NEW c \in Calls, Spend(h, c) PROVE SpentInTime
  <2>1. relay # NoGrant /\ indexed # NoGrant /\ c \in indexed.caps
    BY <1>1 DEF Spend, MaySpend, IsLive
  <2>2. ended = "no" /\ c \notin cleared
    BY <2>1 DEF AuthInv, EndIsSound, GrantIsSound
  <2>3. spent' = spent \cup {c}
    BY <1>1 DEF Spend
  <2> QED
    BY <2>2, <2>3 DEF SpentInTime
<1>2. ASSUME spent' = spent PROVE SpentInTime
  BY <1>2 DEF SpentInTime
<1>3. ASSUME NEW h \in Handlers, Begin(h) PROVE spent' = spent
  BY <1>3 DEF Begin, BeginRegister, BeginBind, BeginDeregister, Resolve, BeginTransition, past
<1>4. ASSUME NEW h \in Handlers, Continue(h), ~ \E c \in Calls : Spend(h, c) PROVE spent' = spent
  BY <1>4
     DEF Continue, InstallRow, IssueLaunch, IssueRefused, BindRow, Claim, IssueRelay, BindRefused,
         Lookup, Acquire, Swap, SwapRefused, Derive, Rollback, Remove, Retire, Release,
         SpendNothing, past
<1>5. CASE Sweep \/ Deny \/ StopDistrusted \/ CloseHost \/ Teardown \/ Distrust \/ Tick
           \/ \E p \in alive : Exit(p)
  BY <1>2, <1>5
     DEF Sweep, Deny, StopDistrusted, CloseHost, Teardown, RevokeRemoved, Reap, Distrust, Tick,
         Exit, past
<1>6. CASE UNCHANGED vars
  BY <1>2, <1>6 DEF vars, past
<1> QED
  BY <1>1, <1>2, <1>3, <1>4, <1>5, <1>6 DEF Next

\* A relayed request never spends a capability of a call that was replaced, nor
\* of a session that was deregistered, torn down or revoked, whenever it resolved
\* its grant and whatever was under way.
THEOREM NothingWithdrawnIsSpent == Spec => NothingIsSpentLate
<1>1. Spec => [][SpentInTime]_vars
  BY AuthInvariant, SpendsAreTimely, PTL DEF Spec
<1> QED
  BY <1>1 DEF NothingIsSpentLate, SpentInTime

-----------------------------------------------------------------------------
\* The shape of the grants, and how many there are.

\* A derived grant counts against its parent.
Counts(g) == IF g # NoGrant /\ IsDerived(g) THEN 1 ELSE 0

\* The launch grant counts its children, and no session has a relay grant before
\* its binding is complete.
GrantShapes ==
    /\ age \in Nat /\ alive \subseteq {"launcher", "worker"}
    /\ launch # NoGrant =>
          launch = [kind |-> "launch", on |-> "launcher", expires |-> LaunchTTL,
                    children |-> Counts(indexed) + Counts(relay)]
    /\ indexed # NoGrant =>
          /\ indexed.on = "worker"
          /\ indexed.caps = {} => /\ indexed.kind = "session"
                                  /\ indexed.expires \in Nat /\ SessionTTL =< indexed.expires
          /\ indexed.caps # {} => indexed.kind = "target"
    /\ relay # NoGrant =>
          /\ relay.kind = "relay" /\ relay.on = "launcher"
          /\ relay.expires \in Nat /\ SessionTTL =< relay.expires
    /\ (stage \in {"new", "registering", "registered"}
          \/ \E h \in Handlers : op[h].step \in Binding) => relay = NoGrant

\* The bounds of the store, and the types that the safety argument does not need.
GrantLimits ==
    /\ launch # NoGrant => launch.children =< MaxChildren
    /\ indexed # NoGrant =>
          indexed \in [kind : {"session", "target"}, on : {"worker"}, expires : 0..MaxAge,
                       caps : SUBSET Calls, id : Ids]
    /\ relay # NoGrant => relay \in [kind : {"relay"}, on : {"launcher"}, expires : 0..LaunchTTL]
    /\ mapped \in Ids \cup {0} /\ host \in {"up", "removed", "revoked", "reaped"}
    /\ trusted \in BOOLEAN /\ age =< MaxAge /\ spent \subseteq Calls

TypeInv == GrantShapes /\ GrantLimits

\* What becomes of the launch grant when the indexed grant is dropped.
LEMMA LessOfIndexed ==
    ASSUME launch # NoGrant
    PROVE  Less({indexed}) = [launch EXCEPT !.children = @ - (IF IsDerived(indexed) THEN 1 ELSE 0)]
<1>1. CASE IsDerived(indexed)
  <2>1. {g \in {indexed} : IsDerived(g)} = {indexed}
    BY <1>1
  <2> QED BY <1>1, <2>1, FS_Singleton DEF Less
<1>2. CASE ~IsDerived(indexed)
  <2>1. {g \in {indexed} : IsDerived(g)} = {}
    BY <1>2
  <2> QED BY <1>2, <2>1, FS_EmptySet DEF Less
<1> QED BY <1>1, <1>2

\* The relay grant is what remains counted.
LEMMA RestOfLaunch ==
    ASSUME TypeInv, launch # NoGrant
    PROVE  Less({indexed}) = [kind |-> "launch", on |-> "launcher", expires |-> LaunchTTL,
                              children |-> Counts(relay)]
<1>1. (IF IsDerived(indexed) THEN 1 ELSE 0) = Counts(indexed)
  BY DEF Counts, IsDerived, NoGrant
<1>2. Counts(indexed) \in Int /\ Counts(relay) \in Int
  BY DEF Counts
<1>3. launch = [kind |-> "launch", on |-> "launcher", expires |-> LaunchTTL,
                children |-> Counts(indexed) + Counts(relay)]
  BY DEF TypeInv, GrantShapes
<1>4. Less({indexed}) = [launch EXCEPT !.children = @ - Counts(indexed)]
  BY <1>1, LessOfIndexed
<1>5. (Counts(indexed) + Counts(relay)) - Counts(indexed) = Counts(relay)
  BY <1>2
<1> QED
  BY <1>3, <1>4, <1>5

\* There are more numbers for grants than handlers, and the one that issues a
\* grant holds no decision.
LEMMA IdIsFresh ==
    ASSUME NEW h \in Handlers, op[h].step # "spend"
    PROVE  FreshId \in Ids
<1> DEFINE others == Handlers \ {h}
           grant == [g \in others |-> op[g].grant]
           used == {grant[g] : g \in others}
           n == Cardinality(Handlers)
<1>1. n \in Nat /\ IsFiniteSet(others) /\ Cardinality(others) = n - 1
  BY SessionNames, FS_RemoveElement, FS_CardinalityType
<1>2. IsFiniteSet(used) /\ Cardinality(used) =< n - 1
  <2>1. grant \in Surjection(others, used)
    BY DEF Surjection
  <2> QED
    BY <1>1, <2>1, FS_Surjection
<1>3. IsFiniteSet(used \cup {indexed.id}) /\ Cardinality(used \cup {indexed.id}) =< n
  <2> HIDE DEF used
  <2>1. Cardinality(used) \in Nat
    BY <1>2, FS_CardinalityType
  <2>2. IsFiniteSet(used \cup {indexed.id})
        /\ Cardinality(used \cup {indexed.id}) \in {Cardinality(used), Cardinality(used) + 1}
    BY <1>2, FS_AddElement
  <2> QED
    BY <1>1, <1>2, <2>1, <2>2
<1>4. IsFiniteSet(Ids) /\ Cardinality(Ids) = n + 1
  BY <1>1, FS_Interval DEF Ids
<1>5. PICK i \in Ids : i \notin used \cup {indexed.id}
  <2> HIDE DEF used, n
  <2> SUFFICES ASSUME Ids \subseteq used \cup {indexed.id} PROVE FALSE
    OBVIOUS
  <2>1. Cardinality(Ids) =< Cardinality(used \cup {indexed.id})
    BY <1>3, FS_Subset
  <2>2. Cardinality(used \cup {indexed.id}) \in Nat
    BY <1>3, FS_CardinalityType
  <2> QED
    BY <1>1, <1>3, <1>4, <2>1, <2>2
<1>6. /\ \A g \in Handlers : op[g].step = "spend" => op[g].grant # i
      /\ indexed # NoGrant => indexed.id # i
  BY <1>5
<1> QED
  BY <1>6 DEF FreshId

\* What a sweep takes from the launch grant's count.
LEMMA LessOfDead ==
    ASSUME TypeInv, IsLive(launch)
    PROVE  Less({g \in {indexed, relay} : ~IsLive(g)})
             = [launch EXCEPT !.children = @ - ((IF IsLive(indexed) THEN 0 ELSE Counts(indexed))
                                                 + (IF IsLive(relay) THEN 0 ELSE Counts(relay)))]
<1> DEFINE G == {g \in {g \in {indexed, relay} : ~IsLive(g)} : IsDerived(g)}
           i == IF IsLive(indexed) THEN 0 ELSE Counts(indexed)
           r == IF IsLive(relay) THEN 0 ELSE Counts(relay)
<1>1. indexed \in G <=> (i = 1)
  BY DEF Counts, IsDerived, NoGrant
<1>2. relay \in G <=> (r = 1)
  BY DEF Counts, IsDerived, NoGrant
<1>3. i \in {0, 1} /\ r \in {0, 1}
  BY DEF Counts
<1>4. i = 1 /\ r = 1 => indexed # relay
  BY DEF TypeInv, GrantShapes, Counts
<1>5. G \subseteq {indexed, relay}
  OBVIOUS
<1> HIDE DEF i, r
<1>6. Cardinality(G) = i + r
  <2> HIDE DEF G
  <2>1. CASE i = 0 /\ r = 0
    <3>1. G = {}
      BY <1>1, <1>2, <1>5, <2>1
    <3> QED
      BY <2>1, <3>1, FS_EmptySet
  <2>2. CASE i = 1 /\ r = 0
    <3>1. G = {indexed}
      BY <1>1, <1>2, <1>5, <2>2
    <3>2. Cardinality({indexed}) = 1
      BY FS_Singleton
    <3> QED
      BY <2>2, <3>1, <3>2
  <2>3. CASE i = 0 /\ r = 1
    <3>1. G = {relay}
      BY <1>1, <1>2, <1>5, <2>3
    <3>2. Cardinality({relay}) = 1
      BY FS_Singleton
    <3> QED
      BY <2>3, <3>1, <3>2
  <2>4. CASE i = 1 /\ r = 1
    <3>1. G = {indexed} \cup {relay} /\ relay \notin {indexed}
      BY <1>1, <1>2, <1>4, <1>5, <2>4
    <3>2. IsFiniteSet({indexed}) /\ Cardinality({indexed}) = 1
      BY FS_Singleton
    <3>3. Cardinality({indexed} \cup {relay}) = 2
      BY <3>1, <3>2, FS_AddElement
    <3> QED
      BY <2>4, <3>1, <3>3
  <2> QED
    BY <1>3, <2>1, <2>2, <2>3, <2>4
<1>7. Less({g \in {indexed, relay} : ~IsLive(g)}) = [launch EXCEPT !.children = @ - Cardinality(G)]
  BY DEF Less, IsLive
<1> QED
  BY <1>6, <1>7 DEF i, r

LEMMA TypeInit == Init => TypeInv
  BY SessionTimes DEF Init, TypeInv, GrantShapes, GrantLimits

-----------------------------------------------------------------------------
\* Every action keeps TypeInv.

LEMMA BeginRegisterTyped ==
    ASSUME AuthInv, TypeInv, NEW h \in Handlers, BeginRegister(h)
    PROVE  TypeInv'
<1>1. /\ op'[h] = [step |-> "install"]
      /\ \A g \in Handlers : g # h => op'[g] = op[g]
  BY OneSteps DEF AuthInv, HandlersAreSound, BeginRegister
<1> QED
  BY <1>1 DEF store, world, past, TypeInv, GrantShapes, GrantLimits, BeginRegister

LEMMA InstallRowTyped ==
    ASSUME AuthInv, TypeInv, NEW h \in Handlers, InstallRow(h)
    PROVE  TypeInv'
<1>1. /\ op'[h] = [step |-> "issue"]
      /\ \A g \in Handlers : g # h => op'[g] = op[g]
  BY OneSteps DEF AuthInv, HandlersAreSound, InstallRow
<1> QED
  BY <1>1 DEF Binding, store, world, past, TypeInv, GrantShapes, GrantLimits, InstallRow

LEMMA IssueLaunchTyped ==
    ASSUME AuthInv, TypeInv, NEW h \in Handlers, IssueLaunch(h)
    PROVE  TypeInv'
<1>1. /\ op'[h] = Idle
      /\ \A g \in Handlers : g # h => op'[g] = op[g]
  BY OneSteps DEF AuthInv, HandlersAreSound, IssueLaunch, Done
<1>2. GrantShapes'
  BY <1>1
     DEF HandlersAreSound, HandlerIsSound, AuthInv, Registering, world, TypeInv, GrantShapes,
         IssueLaunch, LaunchGrant, Counts, GrantIsSound
<1>3. GrantLimits'
  BY <1>1, SessionTimes DEF world, past, TypeInv, GrantLimits, IssueLaunch, LaunchGrant
<1> QED
  BY <1>2, <1>3 DEF TypeInv

LEMMA IssueRefusedTyped ==
    ASSUME AuthInv, TypeInv, NEW h \in Handlers, IssueRefused(h)
    PROVE  TypeInv'
<1>1. /\ op'[h] = Idle
      /\ \A g \in Handlers : g # h => op'[g] = op[g]
  BY OneSteps DEF AuthInv, HandlersAreSound, IssueRefused, Done
<1> QED
  BY <1>1 DEF Binding, store, world, past, TypeInv, GrantShapes, GrantLimits, Idle, IssueRefused

LEMMA BeginBindTyped ==
    ASSUME AuthInv, TypeInv, NEW h \in Handlers, BeginBind(h)
    PROVE  TypeInv'
<1>1. /\ op'[h] = [step |-> "bind"]
      /\ \A g \in Handlers : g # h => op'[g] = op[g]
  BY OneSteps DEF AuthInv, HandlersAreSound, BeginBind
<1> QED
  BY <1>1 DEF store, world, past, TypeInv, GrantShapes, GrantLimits, BeginBind

LEMMA BindRowTyped ==
    ASSUME AuthInv, TypeInv, NEW h \in Handlers, BindRow(h)
    PROVE  TypeInv'
<1>1. CASE row # NoRow /\ trusted /\ "worker" \in alive
  <2>1. /\ op'[h] = [step |-> "claim"]
        /\ \A g \in Handlers : g # h => op'[g] = op[g]
    BY <1>1, OneSteps DEF AuthInv, HandlersAreSound, BindRow
  <2> QED
    BY <1>1, <2>1 DEF Binding, store, world, past, TypeInv, GrantShapes, GrantLimits, BindRow
<1>2. CASE ~(row # NoRow /\ trusted /\ "worker" \in alive)
  <2>1. /\ op'[h] = Idle
        /\ \A g \in Handlers : g # h => op'[g] = op[g]
    BY <1>2, OneSteps DEF AuthInv, HandlersAreSound, BindRow, Done
  <2> QED
    BY <1>2, <2>1 DEF Binding, store, world, past, TypeInv, GrantShapes, GrantLimits, BindRow
<1> QED
  BY <1>1, <1>2 DEF BindRow

LEMMA ClaimTyped ==
    ASSUME AuthInv, TypeInv, NEW h \in Handlers, Claim(h)
    PROVE  TypeInv'
<1>1. CASE MayAttenuate(launch, SessionTTL) /\ indexed = NoGrant /\ "worker" \in alive
  <2>1. /\ op'[h] = [step |-> "relay"]
        /\ \A g \in Handlers : g # h => op'[g] = op[g]
    BY <1>1, OneSteps DEF AuthInv, HandlersAreSound, Claim
  <2>2. GrantShapes'
    BY <1>1, <2>1, IdIsFresh, SessionTimes
       DEF Binding, world, TypeInv, GrantShapes, Claim, SessionGrant, IndexedGrant, OneMore,
           NoGrant, Counts, IsDerived
  <2>3. GrantLimits'
    BY <1>1, <2>1, IdIsFresh, SessionTimes
       DEF world, past, TypeInv, GrantShapes, GrantLimits, Claim, IsLive, MayAttenuate,
           SessionGrant, IndexedGrant, OneMore, Counts
  <2> QED
    BY <2>2, <2>3 DEF TypeInv
<1>2. CASE ~(MayAttenuate(launch, SessionTTL) /\ indexed = NoGrant /\ "worker" \in alive)
  <2>1. /\ op'[h] = Idle
        /\ \A g \in Handlers : g # h => op'[g] = op[g]
    BY <1>2, OneSteps DEF AuthInv, HandlersAreSound, Claim, Done
  <2>2. GrantShapes'
    BY <1>2, <2>1, IdIsFresh DEF Binding, world, TypeInv, GrantShapes, Claim
  <2>3. GrantLimits'
    BY <1>2, <2>1, IdIsFresh DEF world, past, TypeInv, GrantLimits, Claim
  <2> QED
    BY <2>2, <2>3 DEF TypeInv
<1> QED
  BY <1>1, <1>2 DEF Claim

LEMMA IssueRelayTyped ==
    ASSUME AuthInv, TypeInv, NEW h \in Handlers, IssueRelay(h)
    PROVE  TypeInv'
<1>1. /\ op'[h] = Idle
      /\ \A g \in Handlers : g # h => op'[g] = op[g]
  BY OneSteps DEF AuthInv, HandlersAreSound, IssueRelay, Done
<1>2. GrantShapes'
  BY <1>1, SessionTimes
     DEF HandlersAreSound, HandlerIsSound, Alone, AuthInv, Binding, world, TypeInv, GrantShapes,
         Idle, IssueRelay, OneMore, NoGrant, Counts, IsDerived, RelayGrant
<1>3. GrantLimits'
  BY <1>1, SessionTimes
     DEF world, past, TypeInv, GrantShapes, GrantLimits, IssueRelay, IsLive, MayAttenuate,
         OneMore, Counts, RelayGrant
<1> QED
  BY <1>2, <1>3 DEF TypeInv

LEMMA BindRefusedTyped ==
    ASSUME AuthInv, TypeInv, NEW h \in Handlers, BindRefused(h)
    PROVE  TypeInv'
<1>1. /\ op'[h] = Idle
      /\ \A g \in Handlers : g # h => op'[g] = op[g]
  BY OneSteps DEF AuthInv, HandlersAreSound, BindRefused, Done
<1> QED
  BY <1>1 DEF Binding, store, world, past, TypeInv, GrantShapes, GrantLimits, BindRefused

LEMMA BeginTransitionTyped ==
    ASSUME AuthInv, TypeInv, NEW h \in Handlers, NEW c \in Calls \cup {None}, BeginTransition(h, c)
    PROVE  TypeInv'
<1>1. /\ op'[h] = [step |-> "lookup", call |-> c, leave |-> FALSE]
      /\ \A g \in Handlers : g # h => op'[g] = op[g]
  BY OneSteps DEF AuthInv, HandlersAreSound, BeginTransition
<1> QED
  BY <1>1 DEF Binding, store, world, past, TypeInv, GrantShapes, GrantLimits, BeginTransition

LEMMA BeginDeregisterTyped ==
    ASSUME AuthInv, TypeInv, NEW h \in Handlers, BeginDeregister(h)
    PROVE  TypeInv'
<1>1. /\ op'[h] = [step |-> "lookup", call |-> None, leave |-> TRUE]
      /\ \A g \in Handlers : g # h => op'[g] = op[g]
  BY OneSteps DEF AuthInv, HandlersAreSound, BeginDeregister
<1> QED
  BY <1>1 DEF Binding, store, world, past, TypeInv, GrantShapes, GrantLimits, BeginDeregister

LEMMA LookupTyped ==
    ASSUME AuthInv, TypeInv, NEW h \in Handlers, Lookup(h)
    PROVE  TypeInv'
<1>1. /\ op'[h] = [step |-> "wait", call |-> op[h].call, leave |-> op[h].leave, lock |-> mapped']
      /\ \A g \in Handlers : g # h => op'[g] = op[g]
  BY OneSteps DEF AuthInv, HandlersAreSound, Lookup
<1>2. mapped' \in Ids \cup {0}
  BY LockIsFresh DEF Lookup, TypeInv, GrantLimits
<1>3. GrantLimits'
  BY <1>2 DEF TypeInv, GrantLimits, Lookup, store, world, past
<1>4. GrantShapes'
  BY <1>1 DEF TypeInv, GrantShapes, Counts, IsDerived, Binding, Lookup, store, world
<1> QED
  BY <1>3, <1>4 DEF TypeInv

LEMMA AcquireTyped ==
    ASSUME AuthInv, TypeInv, NEW h \in Handlers, Acquire(h)
    PROVE  TypeInv'
<1>1. CASE IsLive(launch) /\ op[h].leave
  <2>1. /\ op'[h] = [step |-> "remove", call |-> op[h].call, lock |-> op[h].lock]
        /\ \A g \in Handlers : g # h => op'[g] = op[g]
    BY <1>1, OneSteps DEF AuthInv, HandlersAreSound, Acquire
  <2> QED
    BY <1>1, <2>1 DEF Binding, store, world, past, TypeInv, GrantShapes, GrantLimits, Acquire
<1>2. CASE IsLive(launch) /\ ~op[h].leave
  <2>1. /\ op'[h] = [step |-> "swap", call |-> op[h].call, lock |-> op[h].lock]
        /\ \A g \in Handlers : g # h => op'[g] = op[g]
    BY <1>2, OneSteps DEF AuthInv, HandlersAreSound, Acquire
  <2> QED
    BY <1>2, <2>1 DEF Binding, store, world, past, TypeInv, GrantShapes, GrantLimits, Acquire
<1>3. CASE ~IsLive(launch)
  <2>1. /\ op'[h] = Idle
        /\ \A g \in Handlers : g # h => op'[g] = op[g]
    BY <1>3, OneSteps DEF AuthInv, HandlersAreSound, Acquire, Done
  <2> QED
    BY <1>3, <2>1
       DEF Binding, store, world, past, TypeInv, GrantShapes, GrantLimits, Idle, Acquire
<1> QED
  BY <1>1, <1>2, <1>3 DEF Acquire

LEMMA SwapTyped ==
    ASSUME AuthInv, TypeInv, NEW h \in Handlers, Swap(h)
    PROVE  TypeInv'
<1>1. /\ op'[h] = [step |-> "derive", call |-> op[h].call, lock |-> op[h].lock,
                 before |-> row.scope]
      /\ \A g \in Handlers : g # h => op'[g] = op[g]
  BY OneSteps DEF AuthInv, HandlersAreSound, Swap
<1> QED
  BY <1>1 DEF Binding, store, world, past, TypeInv, GrantShapes, GrantLimits, Swap

LEMMA SwapRefusedTyped ==
    ASSUME AuthInv, TypeInv, NEW h \in Handlers, SwapRefused(h)
    PROVE  TypeInv'
<1>1. /\ op'[h] = Idle
      /\ \A g \in Handlers : g # h => op'[g] = op[g]
  BY OneSteps DEF AuthInv, HandlersAreSound, SwapRefused, Done
<1> QED
  BY <1>1 DEF Binding, store, world, past, TypeInv, GrantShapes, GrantLimits, Idle, SwapRefused

LEMMA DeriveTyped ==
    ASSUME AuthInv, TypeInv, NEW h \in Handlers, Derive(h)
    PROVE  TypeInv'
<1>1. /\ op'[h] = Idle
      /\ \A g \in Handlers : g # h => op'[g] = op[g]
  BY OneSteps DEF AuthInv, HandlersAreSound, Derive, Done
<1>2. launch # NoGrant =>
         Less({indexed}) = [kind |-> "launch", on |-> "launcher", expires |-> LaunchTTL,
                            children |-> Counts(relay)]
  BY RestOfLaunch
<1>3. launch = NoGrant => Less({indexed}) = NoGrant
  BY DEF Less
<1>4. GrantShapes'
  <2>0. /\ age' = age /\ alive' = alive /\ relay' = relay /\ stage' = stage /\ age \in Nat
        /\ relay = NoGrant \/ IsDerived(relay)
    BY DEF Derive, world, TypeInv, GrantShapes, IsDerived
  <2>1. CASE op[h].call = None
    <3>1. indexed' = SessionGrant /\ launch' = OneMore(Less({indexed}))
      BY <2>1 DEF Derive
    <3>2. launch # NoGrant
      BY <1>3, <2>1 DEF Derive, MayDerive, MayAttenuate, IsLive
    <3>3. indexed' # NoGrant /\ Counts(indexed') = 1 /\ IsDerived(indexed')
          /\ indexed'.on = "worker" /\ indexed'.caps = {} /\ indexed'.kind = "session"
          /\ indexed'.expires = age + SessionTTL
      BY <3>1 DEF SessionGrant, IndexedGrant, Counts, IsDerived, NoGrant
    <3>4. launch' = [kind |-> "launch", on |-> "launcher", expires |-> LaunchTTL,
                     children |-> Counts(relay) + 1]
      BY <1>2, <3>1, <3>2 DEF OneMore
    <3>5. Counts(relay) + 1 = 1 + Counts(relay)
      BY DEF Counts
    <3> QED
      BY <1>1, <2>0, <3>3, <3>4, <3>5, SessionTimes DEF TypeInv, GrantShapes, Binding, Idle
  <2>2. CASE op[h].call # None
    <3>1. indexed' = TargetGrant(op[h].call) /\ launch' = Less({indexed})
      BY <2>2 DEF Derive
    <3>2. indexed' # NoGrant /\ Counts(indexed') = 0 /\ ~IsDerived(indexed')
          /\ indexed'.on = "worker" /\ indexed'.caps # {} /\ indexed'.kind = "target"
      BY <3>1 DEF TargetGrant, IndexedGrant, Counts, IsDerived, NoGrant
    <3>3. Counts(relay) = 0 + Counts(relay)
      BY DEF Counts
    <3> QED
      BY <1>1, <1>2, <1>3, <2>0, <3>1, <3>2, <3>3 DEF TypeInv, GrantShapes, Binding, Idle
  <2> QED
    BY <2>1, <2>2
<1>5. GrantLimits'
  <2>1. FreshId \in Ids
    BY IdIsFresh DEF Derive
  <2>2. launch' # NoGrant => launch # NoGrant /\ launch'.children =< MaxChildren
    <3>1. Counts(relay) =< Counts(indexed) + Counts(relay) /\ Counts(relay) \in Int
      BY DEF Counts
    <3>2. launch # NoGrant => Counts(relay) =< MaxChildren
      BY <3>1, SessionTimes DEF TypeInv, GrantShapes, GrantLimits, Counts
    <3>3. CASE op[h].call = None
      <4>1. launch # NoGrant /\ Less({indexed}).children < MaxChildren
        BY <1>3, <3>3 DEF Derive, MayDerive, MayAttenuate, IsLive
      <4> QED
        BY <1>2, <3>1, <3>3, <4>1, SessionTimes DEF Derive, OneMore
    <3>4. CASE op[h].call # None
      BY <1>2, <1>3, <3>2, <3>4 DEF Derive
    <3> QED
      BY <3>3, <3>4
  <2>3. indexed' \in [kind : {"session", "target"}, on : {"worker"}, expires : 0..MaxAge,
                      caps : SUBSET Calls, id : Ids]
    <3>1. CASE op[h].call = None
      <4>1. launch # NoGrant /\ age + SessionTTL =< Less({indexed}).expires
        BY <1>3, <3>1 DEF Derive, MayDerive, MayAttenuate, IsLive
      <4>2. age + SessionTTL =< LaunchTTL
        BY <1>2, <4>1
      <4> QED
        BY <2>1, <3>1, <4>2, SessionTimes
           DEF Derive, SessionGrant, IndexedGrant, TypeInv, GrantShapes
    <3>2. CASE op[h].call # None
      <4>1. op[h].call \in Calls
        BY <3>2 DEF Derive, AuthInv, HandlersAreSound, HandlerIsSound
      <4>2. Until(CallTTL) \in 0..MaxAge
        BY SessionTimes DEF Until, TypeInv, GrantShapes
      <4> QED
        BY <2>1, <3>2, <4>1, <4>2 DEF Derive, TargetGrant, IndexedGrant
    <3> QED
      BY <3>1, <3>2
  <2> QED
    BY <2>2, <2>3 DEF TypeInv, GrantLimits, Derive, world
<1> QED
  BY <1>4, <1>5 DEF TypeInv

LEMMA RollbackTyped ==
    ASSUME AuthInv, TypeInv, NEW h \in Handlers, Rollback(h)
    PROVE  TypeInv'
<1>1. /\ op'[h] = Idle
      /\ \A g \in Handlers : g # h => op'[g] = op[g]
  BY OneSteps DEF AuthInv, HandlersAreSound, Rollback, Done
<1>2. GrantShapes'
  BY <1>1 DEF world, TypeInv, GrantShapes, Rollback, RevokeSession
<1>3. GrantLimits'
  BY <1>1 DEF world, TypeInv, GrantLimits, Rollback, RevokeSession
<1> QED
  BY <1>2, <1>3 DEF TypeInv

LEMMA RemoveTyped ==
    ASSUME AuthInv, TypeInv, NEW h \in Handlers, Remove(h)
    PROVE  TypeInv'
<1>1. /\ op'[h] = [step |-> "retire", lock |-> op[h].lock]
      /\ \A g \in Handlers : g # h => op'[g] = op[g]
  BY OneSteps DEF AuthInv, HandlersAreSound, Remove
<1> QED
  BY <1>1 DEF Binding, store, world, past, TypeInv, GrantShapes, GrantLimits, Remove

LEMMA RetireTyped ==
    ASSUME AuthInv, TypeInv, NEW h \in Handlers, Retire(h)
    PROVE  TypeInv'
<1>1. /\ op'[h] = [step |-> "release", lock |-> op[h].lock]
      /\ \A g \in Handlers : g # h => op'[g] = op[g]
  BY OneSteps DEF AuthInv, HandlersAreSound, Retire
<1>2. GrantShapes'
  BY <1>1 DEF world, TypeInv, GrantShapes, Retire
<1>3. GrantLimits'
  BY <1>1 DEF world, TypeInv, GrantLimits, Retire
<1> QED
  BY <1>2, <1>3 DEF TypeInv

LEMMA ReleaseTyped ==
    ASSUME AuthInv, TypeInv, NEW h \in Handlers, Release(h)
    PROVE  TypeInv'
<1>1. /\ op'[h] = Idle
      /\ \A g \in Handlers : g # h => op'[g] = op[g]
  BY OneSteps DEF AuthInv, HandlersAreSound, Release, Done
<1> QED
  BY <1>1 DEF Binding, store, world, past, TypeInv, GrantShapes, GrantLimits, Idle, Release

LEMMA ResolveTyped ==
    ASSUME AuthInv, TypeInv, NEW h \in Handlers, Resolve(h)
    PROVE  TypeInv'
<1>1. /\ op'[h] = [step |-> "spend", grant |-> indexed.id]
      /\ \A g \in Handlers : g # h => op'[g] = op[g]
  BY OneSteps DEF AuthInv, HandlersAreSound, Resolve
<1> QED
  BY <1>1 DEF Binding, store, world, past, TypeInv, GrantShapes, GrantLimits, Resolve

LEMMA SpendTyped ==
    ASSUME AuthInv, TypeInv, NEW h \in Handlers, NEW c \in Calls, Spend(h, c)
    PROVE  TypeInv'
<1>1. /\ op'[h] = Idle
      /\ \A g \in Handlers : g # h => op'[g] = op[g]
  BY OneSteps DEF AuthInv, HandlersAreSound, Spend, Done
<1> QED
  BY <1>1 DEF Binding, store, world, TypeInv, GrantShapes, GrantLimits, Idle, Spend

LEMMA SpendNothingTyped ==
    ASSUME AuthInv, TypeInv, NEW h \in Handlers, SpendNothing(h)
    PROVE  TypeInv'
<1>1. /\ op'[h] = Idle
      /\ \A g \in Handlers : g # h => op'[g] = op[g]
  BY OneSteps DEF AuthInv, HandlersAreSound, SpendNothing, Done
<1> QED
  BY <1>1 DEF Binding, store, world, past, TypeInv, GrantShapes, GrantLimits, Idle, SpendNothing

LEMMA SweepTyped ==
    ASSUME TypeInv, Sweep
    PROVE  TypeInv'
<1>1. /\ indexed' \in {indexed, NoGrant} /\ relay' \in {relay, NoGrant}
      /\ launch' # NoGrant => IsLive(launch)
      /\ IsLive(launch) => /\ indexed' = IF IsLive(indexed) THEN indexed ELSE NoGrant
                           /\ relay' = IF IsLive(relay) THEN relay ELSE NoGrant
  BY DEF Sweep, Goes
<1>2. /\ age' = age /\ alive' = alive /\ stage' = stage /\ op' = op /\ row' = row /\ ended' = ended
      /\ host' = host /\ trusted' = trusted
  BY DEF Sweep, world, past
<1>3. GrantShapes'
  <2>1. ASSUME IsLive(launch)
        PROVE  launch' = [kind |-> "launch", on |-> "launcher", expires |-> LaunchTTL,
                          children |-> (Counts(indexed) + Counts(relay))
                                       - ((IF IsLive(indexed) THEN 0 ELSE Counts(indexed))
                                           + (IF IsLive(relay) THEN 0 ELSE Counts(relay)))]
    BY <2>1, LessOfDead DEF Sweep, TypeInv, GrantShapes, IsLive
  <2>2. ASSUME IsLive(launch)
        PROVE  (Counts(indexed) + Counts(relay))
                 - ((IF IsLive(indexed) THEN 0 ELSE Counts(indexed))
                     + (IF IsLive(relay) THEN 0 ELSE Counts(relay)))
               = Counts(indexed') + Counts(relay')
    BY <1>1, <2>2 DEF Counts
  <2>3. launch' # NoGrant =>
          launch' = [kind |-> "launch", on |-> "launcher", expires |-> LaunchTTL,
                     children |-> Counts(indexed') + Counts(relay')]
    BY <1>1, <2>1, <2>2
  <2>4. /\ Counts(indexed') = Counts(indexed)' /\ Counts(relay') = Counts(relay)'
    BY DEF IsDerived
  <2> QED
    BY <1>1, <1>2, <2>3, <2>4 DEF TypeInv, GrantShapes
<1>4. GrantLimits'
  <2>1. launch' # NoGrant => launch'.children =< MaxChildren
    <3> SUFFICES ASSUME launch' # NoGrant PROVE launch'.children =< MaxChildren
      OBVIOUS
    <3>1. IsLive(launch) /\ launch # NoGrant
      BY <1>1 DEF IsLive
    <3>2. launch.children = Counts(indexed) + Counts(relay) /\ launch.children =< MaxChildren
      BY <3>1 DEF TypeInv, GrantShapes, GrantLimits
    <3>3. launch'.children = Counts(indexed)' + Counts(relay)'
      BY <1>3 DEF GrantShapes
    <3>4. Counts(indexed)' \in Int /\ Counts(relay)' \in Int /\ Counts(indexed) \in Int
          /\ Counts(relay) \in Int /\ Counts(indexed)' =< Counts(indexed) /\ Counts(relay)' =< Counts(relay)
      BY <1>1 DEF Counts
    <3> QED
      BY <3>2, <3>3, <3>4, SessionTimes
  <2> QED
    BY <1>1, <1>2, <2>1 DEF TypeInv, GrantLimits, Sweep, past
<1> QED
  BY <1>3, <1>4 DEF TypeInv

LEMMA DenyTyped ==
    ASSUME TypeInv, Deny
    PROVE  TypeInv'
  BY DEF world, TypeInv, GrantShapes, GrantLimits, Deny, RevokeSession

LEMMA StopDistrustedTyped ==
    ASSUME TypeInv, StopDistrusted
    PROVE  TypeInv'
  BY DEF TypeInv, GrantShapes, GrantLimits, StopDistrusted, RevokeSession

LEMMA CloseHostTyped ==
    ASSUME TypeInv, CloseHost
    PROVE  TypeInv'
  BY DEF store, world, past, TypeInv, GrantShapes, GrantLimits, CloseHost

LEMMA RevokeRemovedTyped ==
    ASSUME TypeInv, RevokeRemoved
    PROVE  TypeInv'
  BY DEF world, TypeInv, GrantShapes, GrantLimits, RevokeRemoved, RevokeSession

LEMMA ReapTyped ==
    ASSUME TypeInv, Reap
    PROVE  TypeInv'
  BY DEF store, past, TypeInv, GrantShapes, GrantLimits, Reap

LEMMA ExitTyped ==
    ASSUME TypeInv, NEW p, Exit(p)
    PROVE  TypeInv'
  BY DEF store, past, TypeInv, GrantShapes, GrantLimits, Exit

LEMMA DistrustTyped ==
    ASSUME TypeInv, Distrust
    PROVE  TypeInv'
  BY DEF store, past, TypeInv, GrantShapes, GrantLimits, Distrust

LEMMA TickTyped ==
    ASSUME TypeInv, Tick
    PROVE  TypeInv'
  BY SessionTimes DEF store, past, TypeInv, GrantShapes, GrantLimits, Tick

LEMMA StutterTyped == ASSUME TypeInv, UNCHANGED vars PROVE TypeInv'
  BY DEF TypeInv, GrantShapes, GrantLimits, vars, store, world, past

LEMMA TypeStep == AuthInv /\ TypeInv /\ [Next]_vars => TypeInv'
<1> SUFFICES ASSUME AuthInv, TypeInv, [Next]_vars PROVE TypeInv'
  OBVIOUS
<1>1. ASSUME NEW h \in Handlers, Begin(h) PROVE TypeInv'
  <2>1. ASSUME NEW c \in tokens \cup {None}, BeginTransition(h, c) PROVE TypeInv'
    BY <2>1, BeginTransitionTyped DEF AuthInv, RowIsSound
  <2> QED
    BY <1>1, <2>1, BeginRegisterTyped, BeginBindTyped, BeginDeregisterTyped, ResolveTyped
       DEF Begin
<1>2. ASSUME NEW h \in Handlers, Continue(h) PROVE TypeInv'
  <2>1. CASE InstallRow(h) \/ IssueLaunch(h) \/ IssueRefused(h) \/ BindRow(h) \/ Claim(h)
                \/ IssueRelay(h) \/ BindRefused(h)
    BY <2>1, InstallRowTyped, IssueLaunchTyped, IssueRefusedTyped, BindRowTyped, ClaimTyped,
       IssueRelayTyped, BindRefusedTyped
  <2>2. CASE Lookup(h) \/ Acquire(h) \/ Swap(h) \/ SwapRefused(h) \/ Derive(h) \/ Rollback(h)
    BY <2>2, LookupTyped, AcquireTyped, SwapTyped, SwapRefusedTyped, DeriveTyped, RollbackTyped
  <2>3. CASE Remove(h) \/ Retire(h) \/ Release(h)
    BY <2>3, RemoveTyped, RetireTyped, ReleaseTyped
  <2>4. CASE SpendNothing(h) \/ \E c \in Calls : Spend(h, c)
    BY <2>4, SpendNothingTyped, SpendTyped
  <2> QED
    BY <1>2, <2>1, <2>2, <2>3, <2>4 DEF Continue
<1>3. CASE Sweep \/ Deny \/ StopDistrusted \/ CloseHost \/ RevokeRemoved \/ Reap \/ Distrust \/ Tick
  BY <1>3, SweepTyped, DenyTyped, StopDistrustedTyped, CloseHostTyped, RevokeRemovedTyped,
     ReapTyped, DistrustTyped, TickTyped
<1>4. ASSUME NEW p \in alive, Exit(p) PROVE TypeInv'
  BY <1>4, ExitTyped
<1>5. CASE UNCHANGED vars
  BY <1>5, StutterTyped
<1> QED
  BY <1>1, <1>2, <1>3, <1>4, <1>5 DEF Next, Teardown

\* The launch grant's count is the number of its live children, and no grant
\* exceeds a ceiling of the store or a lifetime (attenuate, revoke, sweep).
THEOREM GrantsAreTyped == Spec => []TypeInv
  BY AuthInvariant, TypeInit, TypeStep, PTL DEF Spec

\* Type correctness of the whole session, the counter of children included.
THEOREM SessionIsTyped == Spec => []AuthTypeOK
<1>1. AuthInv /\ TypeInv => AuthTypeOK
  <2> SUFFICES ASSUME AuthInv, TypeInv PROVE AuthTypeOK
    OBVIOUS
  <2>1. row \in {NoRow} \cup [state : {"pending", "bound"}, scope : Calls \cup {None}]
    BY DEF AuthInv, RowIsSound
  <2>2. launch \in {NoGrant} \cup [kind : {"launch"}, on : {"launcher"}, expires : {LaunchTTL},
                                    children : 0..MaxChildren]
    <3>1. Counts(indexed) + Counts(relay) \in Nat
      BY DEF Counts
    <3> QED
      BY <3>1 DEF TypeInv, GrantShapes, GrantLimits
  <2>3. /\ tokens \subseteq Calls /\ cleared \subseteq Calls
        /\ stage \in {"new", "registering", "registered", "binding", "open", "closing", "leaving"}
        /\ ended \in {"no", "refused", "revoked", "deregistered"}
        /\ \A h \in Handlers : op[h].step \in Steps
    BY DEF AuthInv, RowIsSound, EndIsSound, HandlersAreSound, Stages
  <2>4. age \in 0..MaxAge
    BY DEF TypeInv, GrantShapes, GrantLimits
  <2> QED
    BY <2>1, <2>2, <2>3, <2>4 DEF AuthTypeOK, TypeInv, GrantShapes, GrantLimits
<1> QED
  BY <1>1, AuthInvariant, GrantsAreTyped, PTL

-----------------------------------------------------------------------------
\* How long a session's authority lasts.

\* Nobody has a reason to end the session, and a transition is still possible.
InForce ==
    /\ host = "up" /\ trusted /\ alive = {"launcher", "worker"}
    /\ age =< LaunchTTL - SessionTTL

\* A session in force that nobody ended has its launch and relay grants, and
\* while it is open a row and, between calls, a grant to resolve.
SessionLasts ==
    /\ ended = "revoked" => ~InForce
    /\ (InForce /\ ended = "no") =>
          /\ stage \in {"open", "closing"} => launch # NoGrant /\ relay # NoGrant
          /\ stage = "open" =>
                /\ row # NoRow
                /\ (row.scope = None /\ \A h \in Handlers : op[h].step # "derive")
                      => indexed # NoGrant
          /\ stage = "binding" =>
                \A h \in Handlers :
                    /\ op[h].step \in {"claim", "relay"} => row # NoRow
                    /\ op[h].step = "relay" => launch # NoGrant /\ indexed # NoGrant

\* A derivation fits for an hour: the two lifetimes and the ceiling of children.
RoomForTransitions == LaunchTTL < 2 * SessionTTL /\ 2 =< MaxChildren

LEMMA LastInit == Init => SessionLasts
  BY DEF Init, SessionLasts

-----------------------------------------------------------------------------
\* Every action keeps SessionLasts.

LEMMA BeginRegisterLasts ==
    ASSUME AuthInv, AuthInv', TypeInv, SessionLasts, RoomForTransitions,
           NEW h \in Handlers, BeginRegister(h)
    PROVE  SessionLasts'
<1>1. /\ op'[h] = [step |-> "install"]
      /\ \A g \in Handlers : g # h => op'[g] = op[g]
  BY OneSteps DEF AuthInv, HandlersAreSound, BeginRegister
<1> QED
  BY <1>1 DEF world, past, SessionLasts, InForce, BeginRegister

LEMMA InstallRowLasts ==
    ASSUME AuthInv, AuthInv', TypeInv, SessionLasts, RoomForTransitions,
           NEW h \in Handlers, InstallRow(h)
    PROVE  SessionLasts'
<1>1. /\ op'[h] = [step |-> "issue"]
      /\ \A g \in Handlers : g # h => op'[g] = op[g]
  BY OneSteps DEF AuthInv, HandlersAreSound, InstallRow
<1> QED
  BY <1>1
     DEF AuthInv, HandlersAreSound, HandlerIsSound, EndIsSound, Registering, SessionLasts, InForce

LEMMA IssueLaunchLasts ==
    ASSUME AuthInv, AuthInv', TypeInv, SessionLasts, RoomForTransitions,
           NEW h \in Handlers, IssueLaunch(h)
    PROVE  SessionLasts'
<1>1. /\ op'[h] = Idle
      /\ \A g \in Handlers : g # h => op'[g] = op[g]
  BY OneSteps DEF AuthInv, HandlersAreSound, IssueLaunch, Done
<1> QED
  BY <1>1 DEF world, past, SessionLasts, InForce, IssueLaunch

LEMMA IssueRefusedLasts ==
    ASSUME AuthInv, AuthInv', TypeInv, SessionLasts, RoomForTransitions,
           NEW h \in Handlers, IssueRefused(h)
    PROVE  SessionLasts'
<1>1. /\ op'[h] = Idle
      /\ \A g \in Handlers : g # h => op'[g] = op[g]
  BY OneSteps DEF AuthInv, HandlersAreSound, IssueRefused, Done
<1> QED
  BY <1>1
     DEF AuthInv, HandlersAreSound, HandlerIsSound, EndIsSound, Registering, SessionLasts,
         InForce, IssueRefused

LEMMA BeginBindLasts ==
    ASSUME AuthInv, AuthInv', TypeInv, SessionLasts, RoomForTransitions,
           NEW h \in Handlers, BeginBind(h)
    PROVE  SessionLasts'
<1>1. /\ op'[h] = [step |-> "bind"]
      /\ \A g \in Handlers : g # h => op'[g] = op[g]
  BY OneSteps DEF AuthInv, HandlersAreSound, BeginBind
<1> QED
  BY <1>1
     DEF AuthInv, HandlersAreSound, HandlerIsSound, Binding, world, past, SessionLasts, InForce,
         BeginBind

LEMMA BindRowLasts ==
    ASSUME AuthInv, AuthInv', TypeInv, SessionLasts, RoomForTransitions,
           NEW h \in Handlers, BindRow(h)
    PROVE  SessionLasts'
<1>1. CASE row # NoRow /\ trusted /\ "worker" \in alive
  <2>1. /\ op'[h] = [step |-> "claim"]
        /\ \A g \in Handlers : g # h => op'[g] = op[g]
    BY <1>1, OneSteps DEF AuthInv, HandlersAreSound, BindRow
  <2> QED
    BY <1>1, <2>1
       DEF Binding, store, world, past, TypeInv, GrantShapes, SessionLasts, InForce, NoRow,
           BindRow
<1>2. CASE ~(row # NoRow /\ trusted /\ "worker" \in alive)
  <2>1. /\ op'[h] = Idle
        /\ \A g \in Handlers : g # h => op'[g] = op[g]
    BY <1>2, OneSteps DEF AuthInv, HandlersAreSound, BindRow, Done
  <2> QED
    BY <1>2, <2>1 DEF Idle, store, world, past, SessionLasts, InForce, BindRow
<1> QED
  BY <1>1, <1>2 DEF BindRow

LEMMA ClaimLasts ==
    ASSUME AuthInv, AuthInv', TypeInv, SessionLasts, RoomForTransitions,
           NEW h \in Handlers, Claim(h)
    PROVE  SessionLasts'
<1>1. CASE MayAttenuate(launch, SessionTTL) /\ indexed = NoGrant /\ "worker" \in alive
  <2>1. /\ op'[h] = [step |-> "relay"]
        /\ \A g \in Handlers : g # h => op'[g] = op[g]
    BY <1>1, OneSteps DEF AuthInv, HandlersAreSound, Claim
  <2> QED
    BY <1>1, <2>1
       DEF world, past, TypeInv, GrantShapes, SessionLasts, InForce, Claim, IsLive, MayAttenuate,
           SessionGrant, IndexedGrant, OneMore, NoGrant
<1>2. CASE ~(MayAttenuate(launch, SessionTTL) /\ indexed = NoGrant /\ "worker" \in alive)
  <2>1. /\ op'[h] = Idle
        /\ \A g \in Handlers : g # h => op'[g] = op[g]
    BY <1>2, OneSteps DEF AuthInv, HandlersAreSound, Claim, Done
  <2> QED
    BY <1>2, <2>1 DEF Idle, world, past, SessionLasts, InForce, Claim
<1> QED
  BY <1>1, <1>2 DEF Claim

LEMMA IssueRelayLasts ==
    ASSUME AuthInv, AuthInv', TypeInv, SessionLasts, RoomForTransitions,
           NEW h \in Handlers, IssueRelay(h)
    PROVE  SessionLasts'
<1>1. /\ op'[h] = Idle
      /\ \A g \in Handlers : g # h => op'[g] = op[g]
  BY OneSteps DEF AuthInv, HandlersAreSound, IssueRelay, Done
<1> QED
  BY <1>1
     DEF world, past, TypeInv, GrantShapes, SessionLasts, InForce, IssueRelay, OneMore, NoGrant,
         RelayGrant

LEMMA BindRefusedLasts ==
    ASSUME AuthInv, AuthInv', TypeInv, SessionLasts, RoomForTransitions,
           NEW h \in Handlers, BindRefused(h)
    PROVE  SessionLasts'
<1>1. /\ op'[h] = Idle
      /\ \A g \in Handlers : g # h => op'[g] = op[g]
  BY OneSteps DEF AuthInv, HandlersAreSound, BindRefused, Done
<1> QED
  BY <1>1 DEF Idle, store, world, past, SessionLasts, InForce, BindRefused

LEMMA BeginTransitionLasts ==
    ASSUME AuthInv, AuthInv', TypeInv, SessionLasts, RoomForTransitions,
           NEW h \in Handlers, NEW c \in Calls \cup {None}, BeginTransition(h, c)
    PROVE  SessionLasts'
<1>1. /\ op'[h] = [step |-> "lookup", call |-> c, leave |-> FALSE]
      /\ \A g \in Handlers : g # h => op'[g] = op[g]
  BY OneSteps DEF AuthInv, HandlersAreSound, BeginTransition
<1> QED
  BY <1>1 DEF Idle, store, world, past, SessionLasts, InForce, BeginTransition, Admitted

LEMMA BeginDeregisterLasts ==
    ASSUME AuthInv, AuthInv', TypeInv, SessionLasts, RoomForTransitions,
           NEW h \in Handlers, BeginDeregister(h)
    PROVE  SessionLasts'
<1>1. /\ op'[h] = [step |-> "lookup", call |-> None, leave |-> TRUE]
      /\ \A g \in Handlers : g # h => op'[g] = op[g]
  BY OneSteps DEF AuthInv, HandlersAreSound, BeginDeregister
<1> QED
  BY <1>1 DEF store, world, past, SessionLasts, InForce, BeginDeregister

LEMMA LookupLasts ==
    ASSUME AuthInv, AuthInv', TypeInv, SessionLasts, RoomForTransitions,
           NEW h \in Handlers, Lookup(h)
    PROVE  SessionLasts'
<1>1. /\ op'[h] = [step |-> "wait", call |-> op[h].call, leave |-> op[h].leave, lock |-> mapped']
      /\ \A g \in Handlers : g # h => op'[g] = op[g]
  BY OneSteps DEF AuthInv, HandlersAreSound, Lookup
<1>2. \A g \in Handlers : op'[g].step = "derive" <=> op[g].step = "derive"
  BY <1>1 DEF Lookup
<1>3. \A g \in Handlers : op'[g].step \in {"claim", "relay"} => op'[g] = op[g]
  BY <1>1
<1> QED
  BY <1>2, <1>3 DEF SessionLasts, InForce, Lookup, store, world, past

LEMMA AcquireLasts ==
    ASSUME AuthInv, AuthInv', TypeInv, SessionLasts, RoomForTransitions,
           NEW h \in Handlers, Acquire(h)
    PROVE  SessionLasts'
<1>1. CASE IsLive(launch) /\ op[h].leave
  <2>1. /\ op'[h] = [step |-> "remove", call |-> op[h].call, lock |-> op[h].lock]
        /\ \A g \in Handlers : g # h => op'[g] = op[g]
    BY <1>1, OneSteps DEF AuthInv, HandlersAreSound, Acquire
  <2> QED
    BY <1>1, <2>1 DEF store, world, past, SessionLasts, InForce, Acquire
<1>2. CASE IsLive(launch) /\ ~op[h].leave
  <2>1. /\ op'[h] = [step |-> "swap", call |-> op[h].call, lock |-> op[h].lock]
        /\ \A g \in Handlers : g # h => op'[g] = op[g]
    BY <1>2, OneSteps DEF AuthInv, HandlersAreSound, Acquire
  <2> QED
    BY <1>2, <2>1 DEF store, world, past, SessionLasts, InForce, Acquire
<1>3. CASE ~IsLive(launch)
  <2>1. /\ op'[h] = Idle
        /\ \A g \in Handlers : g # h => op'[g] = op[g]
    BY <1>3, OneSteps DEF AuthInv, HandlersAreSound, Acquire, Done
  <2> QED
    BY <1>3, <2>1, SessionTimes
       DEF Idle, world, past, TypeInv, GrantShapes, SessionLasts, InForce, RoomForTransitions,
           Acquire, IsLive
<1> QED
  BY <1>1, <1>2, <1>3 DEF Acquire

LEMMA SwapLasts ==
    ASSUME AuthInv, AuthInv', TypeInv, SessionLasts, RoomForTransitions,
           NEW h \in Handlers, Swap(h)
    PROVE  SessionLasts'
<1>1. /\ op'[h] = [step |-> "derive", call |-> op[h].call, lock |-> op[h].lock,
                 before |-> row.scope]
      /\ \A g \in Handlers : g # h => op'[g] = op[g]
  BY OneSteps DEF AuthInv, HandlersAreSound, Swap
<1> QED
  BY <1>1 DEF store, world, past, SessionLasts, InForce, NoRow, Swap, MaySwap

LEMMA SwapRefusedLasts ==
    ASSUME AuthInv, AuthInv', TypeInv, SessionLasts, RoomForTransitions,
           NEW h \in Handlers, SwapRefused(h)
    PROVE  SessionLasts'
<1>1. /\ op'[h] = Idle
      /\ \A g \in Handlers : g # h => op'[g] = op[g]
  BY OneSteps DEF AuthInv, HandlersAreSound, SwapRefused, Done
<1> QED
  BY <1>1 DEF Idle, store, world, past, SessionLasts, InForce, SwapRefused

LEMMA DeriveLasts ==
    ASSUME AuthInv, AuthInv', TypeInv, SessionLasts, RoomForTransitions,
           NEW h \in Handlers, Derive(h)
    PROVE  SessionLasts'
<1>1. /\ op'[h] = Idle
      /\ \A g \in Handlers : g # h => op'[g] = op[g]
  BY OneSteps DEF AuthInv, HandlersAreSound, Derive, Done
<1> QED
  BY <1>1, LessOfIndexed
     DEF Idle, world, TypeInv, GrantShapes, SessionLasts, InForce, Derive, SessionGrant,
         TargetGrant, IndexedGrant, NoGrant, OneMore

LEMMA RollbackLasts ==
    ASSUME AuthInv, TypeInv, SessionLasts, RoomForTransitions, NEW h \in Handlers, Rollback(h)
    PROVE  SessionLasts'
<1>3. ASSUME InForce, ended = "no" PROVE MayDerive(h)
  <2>1. launch # NoGrant /\ relay # NoGrant
    BY <1>3 DEF Rollback, AuthInv, HandlersAreSound, HandlerIsSound, SessionLasts
  <2>2. Less({indexed}) = [kind |-> "launch", on |-> "launcher", expires |-> LaunchTTL,
                           children |-> Counts(relay)]
    BY <2>1, RestOfLaunch
  <2>3. Counts(relay) < MaxChildren /\ age + SessionTTL =< LaunchTTL /\ age < LaunchTTL
    BY <1>3, SessionTimes DEF Counts, InForce, RoomForTransitions, TypeInv, GrantShapes
  <2>4. MayAttenuate(Less({indexed}), SessionTTL)
    BY <1>3, <2>2, <2>3 DEF MayAttenuate, IsLive, InForce, NoGrant
  <2> QED
    BY <1>3, <2>4 DEF MayDerive, InForce
<1>4. InForce' <=> InForce
  BY DEF Rollback, InForce, world
<1>5. ended' = IF ended # "no" THEN ended ELSE IF MayDerive(h) THEN "refused" ELSE "revoked"
  BY DEF Rollback, RevokeSession
<1>6. ended' # "no" /\ (ended' = "revoked" => ~InForce)
  BY <1>3, <1>5 DEF SessionLasts
<1> QED
  BY <1>4, <1>6 DEF SessionLasts

LEMMA RemoveLasts ==
    ASSUME AuthInv, AuthInv', TypeInv, SessionLasts, RoomForTransitions,
           NEW h \in Handlers, Remove(h)
    PROVE  SessionLasts'
<1>1. /\ op'[h] = [step |-> "retire", lock |-> op[h].lock]
      /\ \A g \in Handlers : g # h => op'[g] = op[g]
  BY OneSteps DEF AuthInv, HandlersAreSound, Remove
<1> QED
  BY <1>1
     DEF AuthInv, HandlersAreSound, HandlerIsSound, store, world, past, SessionLasts, InForce,
         Remove

LEMMA RetireLasts ==
    ASSUME AuthInv, AuthInv', TypeInv, SessionLasts, RoomForTransitions,
           NEW h \in Handlers, Retire(h)
    PROVE  SessionLasts'
<1>1. /\ op'[h] = [step |-> "release", lock |-> op[h].lock]
      /\ \A g \in Handlers : g # h => op'[g] = op[g]
  BY OneSteps DEF AuthInv, HandlersAreSound, Retire
<1> QED
  BY <1>1 DEF SessionLasts, Retire

LEMMA ReleaseLasts ==
    ASSUME AuthInv, AuthInv', TypeInv, SessionLasts, RoomForTransitions,
           NEW h \in Handlers, Release(h)
    PROVE  SessionLasts'
<1>1. /\ op'[h] = Idle
      /\ \A g \in Handlers : g # h => op'[g] = op[g]
  BY OneSteps DEF AuthInv, HandlersAreSound, Release, Done
<1> QED
  BY <1>1 DEF Idle, store, world, past, SessionLasts, InForce, Release

LEMMA ResolveLasts ==
    ASSUME AuthInv, AuthInv', TypeInv, SessionLasts, RoomForTransitions,
           NEW h \in Handlers, Resolve(h)
    PROVE  SessionLasts'
<1>1. /\ op'[h] = [step |-> "spend", grant |-> indexed.id]
      /\ \A g \in Handlers : g # h => op'[g] = op[g]
  BY OneSteps DEF AuthInv, HandlersAreSound, Resolve
<1> QED
  BY <1>1 DEF Idle, store, world, past, SessionLasts, InForce, Resolve, Admitted

LEMMA SpendLasts ==
    ASSUME AuthInv, AuthInv', TypeInv, SessionLasts, RoomForTransitions,
           NEW h \in Handlers, NEW c \in Calls, Spend(h, c)
    PROVE  SessionLasts'
<1>1. /\ op'[h] = Idle
      /\ \A g \in Handlers : g # h => op'[g] = op[g]
  BY OneSteps DEF AuthInv, HandlersAreSound, Spend, Done
<1> QED
  BY <1>1 DEF Idle, store, world, SessionLasts, InForce, Spend

LEMMA SpendNothingLasts ==
    ASSUME AuthInv, AuthInv', TypeInv, SessionLasts, RoomForTransitions,
           NEW h \in Handlers, SpendNothing(h)
    PROVE  SessionLasts'
<1>1. /\ op'[h] = Idle
      /\ \A g \in Handlers : g # h => op'[g] = op[g]
  BY OneSteps DEF AuthInv, HandlersAreSound, SpendNothing, Done
<1> QED
  BY <1>1 DEF Idle, store, world, past, SessionLasts, InForce, SpendNothing

LEMMA SweepLasts ==
    ASSUME AuthInv, TypeInv, SessionLasts, RoomForTransitions, Sweep
    PROVE  SessionLasts'
<1>1. /\ indexed' \in {indexed, NoGrant} /\ relay' \in {relay, NoGrant}
      /\ launch' # NoGrant => IsLive(launch)
      /\ IsLive(launch) => /\ indexed' = IF IsLive(indexed) THEN indexed ELSE NoGrant
                           /\ relay' = IF IsLive(relay) THEN relay ELSE NoGrant
  BY DEF Sweep, Goes
<1>2. /\ age' = age /\ alive' = alive /\ stage' = stage /\ op' = op /\ row' = row /\ ended' = ended
      /\ host' = host /\ trusted' = trusted
  BY DEF Sweep, world, past
<1>3. InForce' <=> InForce
  BY <1>2 DEF InForce
<1>4. ASSUME InForce, launch # NoGrant
      PROVE  IsLive(launch) /\ launch' # NoGrant
  <2>1. IsLive(launch)
    BY <1>4, SessionTimes DEF InForce, IsLive, TypeInv, GrantShapes, RoomForTransitions
  <2>2. launch' = [launch EXCEPT !.children = @ - ((IF IsLive(indexed) THEN 0 ELSE Counts(indexed))
                                                   + (IF IsLive(relay) THEN 0 ELSE Counts(relay)))]
    BY <2>1, LessOfDead DEF Sweep
  <2> QED
    BY <1>4, <2>1, <2>2 DEF TypeInv, GrantShapes, NoGrant
<1>5. ASSUME InForce, launch # NoGrant, relay # NoGrant
      PROVE  relay' # NoGrant
  <2>1. IsLive(relay)
    BY <1>5, SessionTimes DEF InForce, IsLive, TypeInv, GrantShapes, RoomForTransitions
  <2> QED
    BY <1>1, <1>4, <1>5, <2>1
<1>6. ASSUME InForce, launch # NoGrant, indexed # NoGrant, indexed.caps = {}
      PROVE  indexed' # NoGrant
  <2>1. IsLive(indexed)
    BY <1>6, SessionTimes DEF InForce, IsLive, TypeInv, GrantShapes, RoomForTransitions
  <2> QED
    BY <1>1, <1>4, <1>6, <2>1
<1>7. ASSUME row # NoRow, indexed # NoGrant, row.scope = None,
             \A h \in Handlers : op[h].step # "derive"
      PROVE  indexed.caps = {}
  BY <1>7 DEF AuthInv, GrantIsSound
<1>8. ASSUME stage = "binding", row # NoRow
      PROVE  row.scope = None /\ \A h \in Handlers : op[h].step # "derive"
  BY <1>8 DEF AuthInv, RowIsSound, HandlersAreSound, HandlerIsSound
<1> QED
  BY <1>2, <1>3, <1>4, <1>5, <1>6, <1>7, <1>8 DEF SessionLasts

LEMMA DenyLasts ==
    ASSUME AuthInv, AuthInv', TypeInv, SessionLasts, RoomForTransitions, Deny
    PROVE  SessionLasts'
  BY DEF world, SessionLasts, InForce, Deny

LEMMA StopDistrustedLasts ==
    ASSUME AuthInv, AuthInv', TypeInv, SessionLasts, RoomForTransitions, StopDistrusted
    PROVE  SessionLasts'
  BY DEF SessionLasts, InForce, StopDistrusted

LEMMA CloseHostLasts ==
    ASSUME AuthInv, AuthInv', TypeInv, SessionLasts, RoomForTransitions, CloseHost
    PROVE  SessionLasts'
  BY DEF SessionLasts, InForce, CloseHost

LEMMA RevokeRemovedLasts ==
    ASSUME AuthInv, AuthInv', TypeInv, SessionLasts, RoomForTransitions, RevokeRemoved
    PROVE  SessionLasts'
  BY DEF SessionLasts, InForce, RevokeRemoved

LEMMA ReapLasts ==
    ASSUME AuthInv, AuthInv', TypeInv, SessionLasts, RoomForTransitions, Reap
    PROVE  SessionLasts'
  BY DEF SessionLasts, InForce, Reap

LEMMA ExitLasts ==
    ASSUME AuthInv, AuthInv', TypeInv, SessionLasts, RoomForTransitions, NEW p, Exit(p)
    PROVE  SessionLasts'
  BY DEF TypeInv, GrantShapes, SessionLasts, InForce, Exit

LEMMA DistrustLasts ==
    ASSUME AuthInv, AuthInv', TypeInv, SessionLasts, RoomForTransitions, Distrust
    PROVE  SessionLasts'
  BY DEF SessionLasts, InForce, Distrust

LEMMA TickLasts ==
    ASSUME AuthInv, AuthInv', TypeInv, SessionLasts, RoomForTransitions, Tick
    PROVE  SessionLasts'
  BY SessionTimes DEF store, past, TypeInv, GrantShapes, SessionLasts, InForce, Tick

LEMMA StutterLasts == ASSUME SessionLasts, UNCHANGED vars PROVE SessionLasts'
  BY DEF SessionLasts, InForce, vars, store, world, past

LEMMA LastStep ==
    AuthInv /\ AuthInv' /\ TypeInv /\ RoomForTransitions /\ SessionLasts /\ [Next]_vars
       => SessionLasts'
<1> SUFFICES ASSUME AuthInv, AuthInv', TypeInv, RoomForTransitions, SessionLasts, [Next]_vars
             PROVE  SessionLasts'
  OBVIOUS
<1>1. ASSUME NEW h \in Handlers, Begin(h) PROVE SessionLasts'
  <2>1. ASSUME NEW c \in tokens \cup {None}, BeginTransition(h, c) PROVE SessionLasts'
    BY <2>1, BeginTransitionLasts DEF AuthInv, RowIsSound
  <2> QED
    BY <1>1, <2>1, BeginRegisterLasts, BeginBindLasts, BeginDeregisterLasts, ResolveLasts
       DEF Begin
<1>2. ASSUME NEW h \in Handlers, Continue(h) PROVE SessionLasts'
  <2>1. CASE InstallRow(h) \/ IssueLaunch(h) \/ IssueRefused(h) \/ BindRow(h) \/ Claim(h)
                \/ IssueRelay(h) \/ BindRefused(h)
    BY <2>1, InstallRowLasts, IssueLaunchLasts, IssueRefusedLasts, BindRowLasts, ClaimLasts,
       IssueRelayLasts, BindRefusedLasts
  <2>2. CASE Lookup(h) \/ Acquire(h) \/ Swap(h) \/ SwapRefused(h) \/ Derive(h) \/ Rollback(h)
    BY <2>2, LookupLasts, AcquireLasts, SwapLasts, SwapRefusedLasts, DeriveLasts, RollbackLasts
  <2>3. CASE Remove(h) \/ Retire(h) \/ Release(h)
    BY <2>3, RemoveLasts, RetireLasts, ReleaseLasts
  <2>4. CASE SpendNothing(h) \/ \E c \in Calls : Spend(h, c)
    BY <2>4, SpendNothingLasts, SpendLasts
  <2> QED
    BY <1>2, <2>1, <2>2, <2>3, <2>4 DEF Continue
<1>3. CASE Sweep \/ Deny \/ StopDistrusted \/ CloseHost \/ RevokeRemoved \/ Reap \/ Distrust \/ Tick
  BY <1>3, SweepLasts, DenyLasts, StopDistrustedLasts, CloseHostLasts, RevokeRemovedLasts,
     ReapLasts, DistrustLasts, TickLasts
<1>4. ASSUME NEW p \in alive, Exit(p) PROVE SessionLasts'
  BY <1>4, ExitLasts
<1>5. CASE UNCHANGED vars
  BY <1>5, StutterLasts
<1> QED
  BY <1>1, <1>2, <1>3, <1>4, <1>5 DEF Next, Teardown

\* Any number of calls and clears leaves a session that nobody ended its launch
\* and relay grants and a live grant to resolve, as long as a session grant fits
\* into what its launch grant has left to live (set_transient, attenuate, sweep).
THEOREM AuthorityIsKept == RoomForTransitions => (Spec => []AuthorityLasts)
<1> SUFFICES ASSUME RoomForTransitions PROVE Spec => []AuthorityLasts
  OBVIOUS
<1>1. AuthInv /\ TypeInv /\ SessionLasts => AuthorityLasts
  <2> SUFFICES ASSUME AuthInv, TypeInv, SessionLasts,
                      stage = "open", host = "up", trusted, alive = {"launcher", "worker"},
                      ended # "refused", age =< LaunchTTL - SessionTTL
               PROVE  /\ launch # NoGrant /\ relay # NoGrant
                      /\ InTransition = {} /\ row.scope = None => IsLive(indexed)
    BY DEF AuthorityLasts
  <2>1. InForce
    BY DEF InForce
  <2>2. ended = "no"
    BY <2>1 DEF AuthInv, EndIsSound, SessionLasts
  <2>3. launch # NoGrant /\ relay # NoGrant
    BY <2>1, <2>2 DEF SessionLasts
  <2>4. ASSUME InTransition = {}, row.scope = None PROVE IsLive(indexed)
    <3>1. \A h \in Handlers : op[h].step # "derive"
      BY <2>4 DEF InTransition, HeldSteps
    <3>2. row # NoRow /\ indexed # NoGrant
      BY <2>1, <2>2, <2>4, <3>1 DEF SessionLasts
    <3>3. indexed.caps = {}
      BY <2>4, <3>1, <3>2 DEF AuthInv, GrantIsSound
    <3>4. indexed.on = "worker" /\ indexed.expires \in Nat /\ SessionTTL =< indexed.expires /\ age \in Nat
      BY <3>2, <3>3 DEF TypeInv, GrantShapes
    <3>5. age < indexed.expires
      BY <3>4, SessionTimes DEF RoomForTransitions
    <3> QED
      BY <3>2, <3>4, <3>5 DEF IsLive
  <2> QED
    BY <2>3, <2>4
<1>2. AuthInv /\ AuthInv' /\ TypeInv /\ SessionLasts /\ [Next]_vars => SessionLasts'
  BY LastStep
<1> QED
  BY <1>1, <1>2, LastInit, AuthInvariant, GrantsAreTyped, PTL DEF Spec
=============================================================================
