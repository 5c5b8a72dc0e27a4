---------------------------- MODULE ContextStore ----------------------------
(***************************************************************************)
(* The subscription context store of the core (ContextStore): admission of *)
(* inference operations, the response records they publish, the routing    *)
(* tokens of their turns, and the byte budgets everything is charged to.   *)
(*                                                                         *)
(* An operation is planned (its request is charged as a reservation),      *)
(* admitted (inside the transaction that resolves its identity), committed *)
(* (once that transaction is durable), observed event by event, and ended. *)
(* Its lease may be dropped at any point.  Every method holds one mutex.   *)
(* Methods that need space call make_room, a loop that evicts until the    *)
(* request fits: `room' is the call in progress, one step an iteration,    *)
(* and no other method runs meanwhile.                                     *)
(*                                                                         *)
(* An operation's response id is the operation itself: response ids are    *)
(* fresh, and a response that changes its id fails its operation.          *)
(***************************************************************************)
EXTENDS Integers, FiniteSets, FiniteSetsExt

CONSTANTS
    Ops, Sessions, Scopes, Turns, Sockets, Tokens,
    ScopeOf,       \* the API key's scope of a session; a session id is fresh in its scope
    TurnSession,   \* the session of a turn: the identity state ties a turn to its thread
    None,
    Worlds,        \* what may happen around the store (see World)
    Input,         \* what a request reserves (its input, settings and output items)
    Expansion,     \* what sending the whole history reserves on top
    Descriptor, HistoryCosts, Token, Meta, Thread, Route, Item, Retain, Cache,
    GlobalBytes, KeyBytes, SessionBytes, SessionRecords,
    MaxItems       \* bound: output items observed by an operation

\* A world lets a number of requests come, each of a session, over a socket or None, for a
\* turn or None (two for one turn where it repeats), lets the provider send some routing tokens,
\* and some of these happen.  item: output items.  full: a history is sent in full.  idle:
\* sessions become idle.  relay: sockets' relays keep comparison data.  tail: a failed SSE
\* response is detached.  close: sockets close.
Inputs == {"item", "full", "idle", "relay", "tail", "close"}
Requests ==
    {q \in [session: Sessions, socket: Sockets \cup {None}, turn: Turns \cup {None}] :
        q.turn # None => TurnSession[q.turn] = q.session}
World == [number: Nat, requests: SUBSET Requests, repeats: BOOLEAN,
          tokens: SUBSET Tokens, inputs: SUBSET Inputs]

\* A request's reservation covers what its admission and its record in progress add
\* unchecked; it reserves 8 KiB and 2304 bytes for each output item it may have.
ASSUME ConstantsAssumption ==
    /\ IsFiniteSet(Ops) /\ IsFiniteSet(Sessions) /\ IsFiniteSet(Turns) /\ IsFiniteSet(Sockets)
    /\ ScopeOf \in [Sessions -> Scopes] /\ TurnSession \in [Turns -> Sessions]
    /\ Sessions \cap Ops = {}
    /\ None \notin Sessions \cup Ops \cup Turns \cup Sockets \cup Tokens \cup ((Sessions \cup Ops) \X Turns)
    /\ \A n \in {Input, Expansion, Descriptor, Token, Meta, Thread, Route, Item, Retain, Cache,
                 GlobalBytes, KeyBytes, SessionBytes, SessionRecords, MaxItems} : n \in Nat
    /\ HistoryCosts \subseteq Nat \ {0}
    /\ Worlds \subseteq World
    /\ Input >= Descriptor + Meta /\ Route >= Token

VARIABLES
    world,      \* which of the worlds it is
    phase,      \* where each operation is (see Phases)
    plan,       \* what it was planned and admitted as
    charge,     \* Pending.reserved or Active.reserved
    buffer,     \* Active.buffer_charge, in items
    available,  \* Active.output_available
    fork,       \* Active.pending_routing: the token copied into a conflict branch
    rec,        \* Scope.records
    known,      \* Scope.sessions
    idle,       \* the sessions whose last business is HISTORY_TTL ago
    activity,   \* Scope.thread_activity: none, seen or stale
    routing,    \* Scope.routing
    binding,    \* Scope.bindings
    open,       \* Inner.sockets
    base,       \* Inner.baselines: the comparison data a relay keeps of its socket
    room,       \* the call of make_room in progress
    handed      \* history: the turns a prewarm's token was handed to

opVars == <<phase, plan, charge, buffer, available, fork>>
scopeVars == <<rec, known, idle, activity, routing, binding>>
env == <<world, open>>
vars == <<opVars, scopeVars, env, base, room, handed>>

Keys == (Sessions \cup Ops) \X Turns

\* planned: a reservation.  admitting: its reservation is taken, its operation not yet there.
\* admitted, committed: an Active operation, before and after its publication.  publishing:
\* taken out for terminal assembly, again a reservation.  tail: a failed SSE response that
\* awaits its footer, a reservation.  ended: only the lease is left.  dropped: not even that.
Reserved == {"planned", "publishing", "tail"}
Active == {"admitted", "committed"}
Phases == {"new", "planning", "admitting", "ended", "dropped"} \cup Reserved \cup Active

\* A thread's own branch is named by its session; a branch made for an operation by it.
\* remote: the upstream socket may hold the baseline.  parent: a clone of the baseline's
\* history is at hand.  expanded: it was charged for sending.  token: the startup token.
NoPlan == [session |-> None, socket |-> None, turn |-> None, branch |-> None, remote |-> FALSE,
           parent |-> FALSE, expanded |-> FALSE, token |-> None]

\* history: the cost of the history kept, 0 for none.  startup: StartupRouting, with the
\* turn it is bound to and its token.
NoRecord == [session |-> None, branch |-> None, turn |-> None, socket |-> None,
             completed |-> FALSE, history |-> 0, startup |-> FALSE, bound |-> None,
             token |-> None]
NoRoom == [use |-> "none", op |-> None, session |-> None, extra |-> 0, token |-> None]
NoBase == [session |-> None, state |-> "empty"]

Init ==
    /\ world \in Worlds
    /\ phase = [o \in Ops |-> "new"] /\ plan = [o \in Ops |-> NoPlan]
    /\ charge = [o \in Ops |-> 0] /\ buffer = [o \in Ops |-> 0]
    /\ available = [o \in Ops |-> TRUE] /\ fork = [o \in Ops |-> None]
    /\ rec = [o \in Ops |-> NoRecord]
    /\ known = {} /\ idle = {} /\ activity = [s \in Sessions |-> "none"]
    /\ routing = [k \in Keys |-> None]
    /\ binding = [k \in Sockets |-> None] /\ open = {}
    /\ base = [k \in Sockets |-> NoBase]
    /\ room = NoRoom /\ handed = [o \in Ops |-> {}]
-----------------------------------------------------------------------------
(* What things cost, and who is at work.                                   *)

Present(r) == r.session # None
KeySession(k) == TurnSession[k[2]]
Prewarm(o) == plan[o].turn = None
Key(o) == <<plan[o].branch, plan[o].turn>>

Working(o) == phase[o] \in Reserved \cup Active
Pinned(s) == \E o \in Ops : Working(o) /\ plan[o].session = s
PinnedScope(c) == \E o \in Ops : Working(o) /\ ScopeOf[plan[o].session] = c

\* A socket's relay holds its SocketLease while it prepares requests and observes.
Connected(o) == plan[o].socket \in open \cup {None}

DescriptorCost(r) ==
    IF Present(r) THEN Descriptor + (IF r.token # None THEN Token ELSE 0) ELSE 0
RecordCost(r) == DescriptorCost(r) + r.history

\* A state that its relay holds locked counts as a whole session.
BaselineCost(b) ==
    IF b.state = "empty" THEN 0 ELSE IF b.state = "cached" THEN Cache ELSE SessionBytes

\* session_cost and the reserved bytes of the sessions S, then what their relays keep.  Every
\* record, route and reservation belongs to one session: Scope::cost and the global cost
\* are sums over sessions.
Spent(S) ==
    MapThenSumSet(LAMBDA o : RecordCost(rec[o]), {o \in Ops : rec[o].session \in S})
  + MapThenSumSet(LAMBDA o : charge[o], {o \in Ops : Working(o) /\ plan[o].session \in S})
  + Thread * Cardinality({s \in S : activity[s] # "none"}) + Meta * Cardinality(S \cap known)
  + Route * Cardinality({k \in Keys : KeySession(k) \in S /\ routing[k] # None})
Compared(S) ==
    MapThenSumSet(LAMBDA k : BaselineCost(base[k]), {k \in Sockets : base[k].session \in S})

ScopeSessions(s) == {t \in Sessions : ScopeOf[t] = ScopeOf[s]}

\* What sets of sessions take, within the three budgets of a session.
Within(Bytes(_), s) ==
    /\ Bytes(Sessions) <= GlobalBytes
    /\ Bytes(ScopeSessions(s)) <= KeyBytes
    /\ Bytes({s}) <= SessionBytes

Total(S) == Spent(S) + Compared(S)
Fits(s, extra) == Within(LAMBDA S : Total(S) + extra, s)
-----------------------------------------------------------------------------
(* Expiry.  Sessions idle for HISTORY_TTL lose their histories unless an   *)
(* operation or a reservation pins them; records and metadata go only      *)
(* where nothing is at work in the whole scope.                            *)

\* prune_metadata of the scopes C, given the records that are left.
KeptSessions(C, left) ==
    {s \in known : \/ ScopeOf[s] \notin C
                   \/ s \notin idle
                   \/ \E o \in Ops : left[o].session = s
                   \/ \E k \in Sockets : binding[k] = s}
KeptRouting(C, left, sessions) ==
    [k \in Keys |->
        IF \/ ScopeOf[KeySession(k)] \notin C
           \/ \E o \in Ops : Present(left[o]) /\ <<left[o].branch, left[o].turn>> = k
           \/ KeySession(k) \in sessions
        THEN routing[k] ELSE None]
KeptActivity(C, sessions) ==
    [s \in Sessions |-> IF ScopeOf[s] \in C /\ (s \notin sessions \/ activity[s] = "stale")
                        THEN "none" ELSE activity[s]]
PruneMetadata(C, left) ==
    /\ known' = KeptSessions(C, left)
    /\ routing' = KeptRouting(C, left, known')
    /\ activity' = KeptActivity(C, known')
    /\ idle' = idle \cap known'

QuietScopes == {c \in Scopes : ~PinnedScope(c)}

Expired == {s \in known \cap idle : ~Pinned(s)}
ExpiredRecord(r) ==
    IF ~Present(r) \/ r.session \notin Expired THEN r
    ELSE IF ScopeOf[r.session] \in QuietScopes /\ r.socket = None THEN NoRecord
    ELSE [r EXCEPT !.history = 0]

ExpiredBase ==
    [k \in Sockets |-> IF base[k].session \in Expired /\ base[k].state = "cached"
                       THEN [base[k] EXCEPT !.state = "empty"] ELSE base[k]]

ExpireScopes ==
    /\ rec' = [o \in Ops |-> ExpiredRecord(rec[o])]
    /\ PruneMetadata(QuietScopes, rec')
    /\ UNCHANGED binding

Expire == ExpireScopes /\ base' = ExpiredBase
-----------------------------------------------------------------------------
(* make_room.                                                              *)

Free == room = NoRoom
Asking(use) == room.use = use /\ Fits(room.session, room.extra)

Ask(o, use, s, extra, token) ==
    room' = [use |-> use, op |-> o, session |-> s, extra |-> extra, token |-> token]

\* The order of preference: the caller's scope first, in it the caller's session.  Among
\* equals the least recently used goes first, which here is any.
Distance(s) ==
    (IF ScopeOf[s] = ScopeOf[room.session] THEN 0 ELSE 2) + (IF s = room.session THEN 0 ELSE 1)
Nearest(S) == {s \in S : \A t \in S : Distance(s) <= Distance(t)}

HistoriesOfAll == {o \in Ops : rec[o].history > 0}
Histories == {o \in Ops : rec[o].history > 0 /\ ~Pinned(rec[o].session)}
Reclaimable == {k \in Sockets : base[k].state = "cached" /\ ~Pinned(base[k].session)}
StaleRecords == {o \in Ops : Present(rec[o]) /\ rec[o].socket = None /\ ~Pinned(rec[o].session)}
Unreferenced ==
    {s \in known \ {room.session} : /\ \A o \in Ops : rec[o].session # s
                                    /\ \A k \in Sockets : binding[k] # s
                                    /\ ~Pinned(s)}

\* The loop goes on.
Short == room.use \notin {"none", "records", "bare"} /\ ~Fits(room.session, room.extra)

EvictHistory(o) ==
    /\ ~Free /\ o \in Histories /\ Short
    /\ rec[o].session \in Nearest({rec[p].session : p \in Histories})
    /\ rec' = [rec EXCEPT ![o].history = 0]
    /\ UNCHANGED <<opVars, known, idle, activity, routing, binding, env, base, room, handed>>

ReclaimComparison(k) ==
    /\ ~Free /\ k \in Reclaimable /\ Histories = {} /\ Short
    /\ base[k].session \in Nearest({base[j].session : j \in Reclaimable})
    /\ base' = [base EXCEPT ![k].state = "empty"]
    /\ UNCHANGED <<opVars, scopeVars, env, room, handed>>

EvictRecord(o) ==
    /\ ~Free /\ o \in StaleRecords /\ Histories = {} /\ Reclaimable = {} /\ Short
    /\ rec[o].session \in Nearest({rec[p].session : p \in StaleRecords})
    /\ rec' = [rec EXCEPT ![o] = NoRecord]
    /\ PruneMetadata({ScopeOf[rec[o].session]} \cap QuietScopes, rec')
    /\ UNCHANGED <<opVars, binding, env, base, room, handed>>

EvictUnreferencedSession(s) ==
    /\ ~Free /\ s \in Unreferenced
    /\ Histories = {} /\ Reclaimable = {} /\ StaleRecords = {} /\ Short
    /\ known' = known \ {s} /\ idle' = idle \ {s}
    /\ activity' = [activity EXCEPT ![s] = "none"]
    /\ routing' = [k \in Keys |-> IF KeySession(k) = s THEN None ELSE routing[k]]
    /\ UNCHANGED <<opVars, rec, binding, env, base, room, handed>>

\* make_room returns false.
Denied(use) ==
    /\ room.use = use
    /\ Histories = {} /\ Reclaimable = {} /\ StaleRecords = {} /\ Unreferenced = {} /\ Short

\* A request that fails drops its lease with its error: the operation and the reservation
\* go, a record in progress stays.
Release(o) ==
    /\ phase' = [phase EXCEPT ![o] = "dropped"]
    /\ plan' = [plan EXCEPT ![o] = NoPlan]
    /\ charge' = [charge EXCEPT ![o] = 0]
    /\ buffer' = [buffer EXCEPT ![o] = 0]
    /\ available' = [available EXCEPT ![o] = TRUE]
    /\ fork' = [fork EXCEPT ![o] = None]

Refuse(use) ==
    /\ Denied(use)
    /\ Release(room.op)
    /\ room' = NoRoom
    /\ UNCHANGED <<scopeVars, env, base, handed>>
-----------------------------------------------------------------------------
(* plan, full_input.                                                       *)

\* A request names its predecessor (delta), or its input matches a history, or it starts
\* anew.  A delta needs the predecessor's history, or the upstream socket that has it.
Baselines(s) == {o \in Ops : rec[o].session = s /\ rec[o].completed}
HeldBySocket(o, k) == k # None /\ rec[o].socket = k
Anew(s) == [branch |-> s, remote |-> FALSE, parent |-> FALSE]
Deltas(s, k) ==
    {[branch |-> rec[o].branch, remote |-> HeldBySocket(o, k), parent |-> rec[o].history > 0] :
        o \in {b \in Baselines(s) : rec[b].history > 0 \/ HeldBySocket(b, k)}}
\* Equivalent matches leave the branch open: a new one is made, named by the operation.
Matches(s, new) ==
    {[branch |-> b, remote |-> FALSE, parent |-> FALSE] :
        b \in UNION {{rec[o].branch, new} : o \in {b \in Baselines(s) : rec[b].history > 0}}}

BeginPlan(o, q) ==
    /\ Free /\ phase[o] = "new"
    /\ Cardinality({p \in Ops : phase[p] # "new"}) < world.number
    /\ world.repeats \/ \A p \in Ops : phase[p] # "new" => plan[p].turn # q.turn
    /\ q.socket # None => q.socket \in open /\ binding[q.socket] \in {None, q.session}
    /\ Expire
    /\ \E b \in {Anew(q.session)} \cup Deltas(q.session, q.socket) \cup Matches(q.session, o) :
          plan' = [plan EXCEPT ![o] =
                    [session |-> q.session, socket |-> q.socket, turn |-> q.turn, branch |-> b.branch,
                     remote |-> b.remote, parent |-> b.parent, expanded |-> FALSE,
                     token |-> None]]
    /\ phase' = [phase EXCEPT ![o] = "planning"]
    /\ Ask(o, "plan", q.session, Input, None)
    /\ UNCHANGED <<charge, buffer, available, fork, env, handed>>

Planned ==
    /\ Asking("plan")
    /\ phase' = [phase EXCEPT ![room.op] = "planned"]
    /\ charge' = [charge EXCEPT ![room.op] = Input]
    /\ room' = NoRoom
    /\ UNCHANGED <<plan, buffer, available, fork, scopeVars, env, base, handed>>

\* A baseline that the upstream socket holds is tried once more without its history.
PlanRemotely ==
    /\ Denied("plan") /\ plan[room.op].remote
    /\ plan' = [plan EXCEPT ![room.op].remote = FALSE, ![room.op].parent = FALSE]
    /\ UNCHANGED <<phase, charge, buffer, available, fork, scopeVars, env, base, room, handed>>

RefusePlan == Refuse("plan") /\ ~plan[room.op].remote

BeginFullInput(o) ==
    /\ "full" \in world.inputs /\ Free /\ phase[o] = "planned" /\ Connected(o)
    /\ plan[o].parent /\ ~plan[o].expanded
    /\ Ask(o, "full", plan[o].session, Expansion, None)
    /\ UNCHANGED <<opVars, scopeVars, env, base, handed>>

FullInput ==
    /\ Asking("full")
    /\ charge' = [charge EXCEPT ![room.op] = @ + Expansion]
    /\ plan' = [plan EXCEPT ![room.op].expanded = TRUE]
    /\ room' = NoRoom
    /\ UNCHANGED <<phase, buffer, available, fork, scopeVars, env, base, handed>>
-----------------------------------------------------------------------------
(* admit.  It runs inside the identity transaction, which may still fail.  *)

SocketTaken(o) ==
    /\ plan[o].socket # None
    /\ \E p \in Ops : phase[p] \in Active /\ plan[p].socket = plan[o].socket
\* A lane is a session, its thread, a turn and a branch.
Occupied(o) ==
    \E p \in Ops : /\ phase[p] \in Active
                   /\ plan[p].session = plan[o].session
                   /\ plan[p].turn = plan[o].turn /\ plan[p].branch = plan[o].branch
ExecutionBranchShared(o) == plan[o].branch
ExecutionBranch(o) == IF Occupied(o) THEN o ELSE plan[o].branch

\* The token a conflict branch takes along.
PendingRouting(o) ==
    IF ExecutionBranch(o) # plan[o].branch /\ ~Prewarm(o) THEN routing[Key(o)] ELSE None
RoutingCharge(token) == IF token # None THEN Route ELSE 0

AdmitConflict(o) ==
    /\ Free /\ phase[o] = "planned" /\ Connected(o) /\ SocketTaken(o)
    /\ Expire
    /\ Release(o)
    /\ UNCHANGED <<env, room, handed>>

BeginAdmit(o) ==
    /\ Free /\ phase[o] = "planned" /\ Connected(o) /\ ~SocketTaken(o)
    /\ Expire
    /\ phase' = [phase EXCEPT ![o] = "admitting"]
    /\ plan' = [plan EXCEPT ![o].branch = ExecutionBranch(o), ![o].remote = FALSE,
                            ![o].parent = FALSE]
    /\ fork' = [fork EXCEPT ![o] = PendingRouting(o)]
    /\ charge' = [charge EXCEPT ![o] = @ + Thread + RoutingCharge(PendingRouting(o))]
    /\ Ask(o, "admit", plan[o].session, charge'[o], None)
    /\ UNCHANGED <<buffer, available, env, handed>>

\* There is room; now the number of the session's records.
Room ==
    /\ Asking("admit")
    /\ room' = [room EXCEPT !.use = "records"]
    /\ UNCHANGED <<opVars, scopeVars, env, base, handed>>

SessionRecordsOf(s) == {o \in Ops : rec[o].session = s}
Surplus == Cardinality(SessionRecordsOf(room.session)) >= SessionRecords
Victims == {o \in SessionRecordsOf(room.session) : rec[o].socket = None}

EvictSurplus(o) ==
    /\ room.use = "records" /\ Surplus
    /\ o \in Victims
    /\ rec' = [rec EXCEPT ![o] = NoRecord]
    /\ UNCHANGED <<opVars, known, idle, activity, routing, binding, env, base, room, handed>>

RefuseSurplus ==
    /\ room.use = "records" /\ Surplus /\ Victims = {}
    /\ Release(room.op)
    /\ room' = NoRoom
    /\ UNCHANGED <<scopeVars, env, base, handed>>

Admitted ==
    /\ room.use = "records" /\ ~Surplus
    /\ phase' = [phase EXCEPT ![room.op] = "admitted"]
    /\ room' = NoRoom
    /\ UNCHANGED <<plan, charge, buffer, available, fork, scopeVars, env, base, handed>>
-----------------------------------------------------------------------------
(* commit_admission: the identity transaction is durable, the operation's  *)
(* session, turn and routing become visible.                               *)

StartupOf(o) == {r \in Ops : plan[o].socket # None /\ rec[r].socket = plan[o].socket
                             /\ rec[r].startup}
Completed(R) == {r \in R : rec[r].completed}
CompatibleWithAny(r, o) == rec[r].session = plan[o].session /\ ~Prewarm(o)
Compatible(r, o) ==
    /\ rec[r].session = plan[o].session /\ ~Prewarm(o)
    /\ rec[r].bound \in {None, Key(o)}

\* adopt_startup, for one record.
AdoptStartup(r, o) ==
    IF Compatible(r, o)
    THEN [rec[r] EXCEPT !.bound = Key(o), !.token = None]
    ELSE [rec[r] EXCEPT !.startup = FALSE, !.bound = None, !.token = None]
Adopting(o) == {r \in Completed(StartupOf(o)) : Compatible(r, o) /\ rec[r].token # None}

\* The first token of a turn stays: its own, else the fork's, else a prewarm's.
TurnTokens(o) ==
    IF routing[Key(o)] # None THEN {routing[Key(o)]}
    ELSE IF fork[o] # None THEN {fork[o]}
    ELSE IF Adopting(o) = {} THEN {None}
    ELSE {rec[r].token : r \in Adopting(o)}

\* What admission charged in advance for what is published now.
Precharged(o) == Thread + RoutingCharge(fork[o])

Publish(o) ==
    /\ phase' = [phase EXCEPT ![o] = "committed"]
    /\ charge' = [charge EXCEPT ![o] = @ - Precharged(o)]
    /\ fork' = [fork EXCEPT ![o] = None]
    /\ IF Prewarm(o) THEN UNCHANGED routing
       ELSE \E t \in TurnTokens(o) : routing' = [routing EXCEPT ![Key(o)] = t]
    /\ activity' = IF Prewarm(o) THEN activity
                   ELSE [activity EXCEPT ![plan[o].session] = "seen"]
    /\ rec' = [r \in Ops |-> IF r \in Completed(StartupOf(o)) THEN AdoptStartup(r, o)
                             ELSE rec[r]]
    /\ handed' = [r \in Ops |-> IF r \in Adopting(o) THEN handed[r] \cup {Key(o)}
                                ELSE handed[r]]
    /\ binding' = IF plan[o].socket = None THEN binding
                  ELSE [binding EXCEPT ![plan[o].socket] = plan[o].session]
    /\ known' = known \cup {plan[o].session} /\ idle' = idle \ {plan[o].session}
    /\ UNCHANGED <<plan, buffer, available, env, base>>

BeginCommit(o) ==
    /\ Free /\ phase[o] = "admitted" /\ Connected(o) /\ StartupOf(o) # {}
    /\ Ask(o, "commit", plan[o].session, Route, None)
    /\ UNCHANGED <<opVars, scopeVars, env, base, handed>>

Commit(o) ==
    \/ /\ Free /\ phase[o] = "admitted" /\ Connected(o) /\ StartupOf(o) = {}
       /\ Publish(o) /\ UNCHANGED room
    \/ Asking("commit") /\ room.op = o /\ Publish(o) /\ room' = NoRoom
-----------------------------------------------------------------------------
(* observe, validate_event, detach_sse_failure and Lease::drop.            *)

Observing(o) == Free /\ phase[o] = "committed" /\ Connected(o)

RecordOf(o, completed, history) ==
    [session |-> plan[o].session, branch |-> plan[o].branch, turn |-> plan[o].turn,
     socket |-> plan[o].socket, completed |-> completed, history |-> history,
     startup |-> Prewarm(o) /\ plan[o].socket # None, bound |-> None, token |-> plan[o].token]

Created(o) ==
    /\ Observing(o) /\ ~Present(rec[o])
    /\ rec' = [rec EXCEPT ![o] = RecordOf(o, FALSE, 0)]
    /\ UNCHANGED <<opVars, known, idle, activity, routing, binding, env, base, room, handed>>

BeginItem(o) ==
    /\ "item" \in world.inputs /\ Observing(o) /\ available[o] /\ buffer[o] < MaxItems
    /\ Ask(o, "item", plan[o].session, Item, None)
    /\ UNCHANGED <<opVars, scopeVars, env, base, handed>>

\* The item is kept, unless it exceeds the output limits: then the output is dropped, its
\* charge only with the next item.
ItemKept ==
    /\ Asking("item")
    /\ charge' = [charge EXCEPT ![room.op] = @ + Item]
    /\ buffer' = [buffer EXCEPT ![room.op] = @ + 1]
    /\ \E fitting \in BOOLEAN : available' = [available EXCEPT ![room.op] = fitting]
    /\ room' = NoRoom
    /\ UNCHANGED <<phase, plan, fork, scopeVars, env, base, handed>>

DropOutput(o) ==
    /\ available' = [available EXCEPT ![o] = FALSE]
    /\ charge' = [charge EXCEPT ![o] = @ - buffer[o] * Item]
    /\ buffer' = [buffer EXCEPT ![o] = 0]
    /\ UNCHANGED <<phase, plan, fork, scopeVars, env, base, handed>>

ItemDropped ==
    \/ Denied("item") /\ DropOutput(room.op) /\ room' = NoRoom
    \/ \E o \in Ops : Observing(o) /\ ~available[o] /\ DropOutput(o) /\ UNCHANGED room

\* The operation is over; its lease remains.
End(o) ==
    /\ phase' = [phase EXCEPT ![o] = "ended"]
    /\ charge' = [charge EXCEPT ![o] = 0]
    /\ buffer' = [buffer EXCEPT ![o] = 0]
    /\ available' = [available EXCEPT ![o] = TRUE]
    /\ plan' = [plan EXCEPT ![o] = NoPlan]
    /\ UNCHANGED fork

\* A failed, incomplete or invalid response, or one whose references cannot be told.
Fail(o) ==
    /\ Observing(o)
    /\ End(o)
    /\ rec' = [rec EXCEPT ![o] = NoRecord]
    /\ UNCHANGED <<known, idle, activity, routing, binding, env, base, room, handed>>

\* Terminal assembly keeps the operation's charge and its session pinned.
BeginComplete(o) ==
    /\ Observing(o)
    /\ phase' = [phase EXCEPT ![o] = "publishing"]
    /\ Ask(o, IF available[o] THEN "publish" ELSE "bare", plan[o].session, Retain, None)
    /\ UNCHANGED <<plan, charge, buffer, available, fork, scopeVars, env, base, handed>>

\* The record is published and the reservation removed; a history that then exceeds a
\* budget goes at once.  What is appended or replaced decides its size.
FitsWithout(o, r) ==
    Fits(r.session, RecordCost(r) - charge[o] - RecordCost(rec[o]))
PublishedAnyway(o, r) == r
Published(o, r) == IF FitsWithout(o, r) THEN r ELSE [r EXCEPT !.history = 0]

Complete(history) ==
    LET o == room.op IN
    /\ End(o)
    /\ rec' = [rec EXCEPT ![o] = Published(o, RecordOf(o, TRUE, history))]
    /\ idle' = idle \ {plan[o].session}
    /\ activity' = [activity EXCEPT ![plan[o].session] = IF @ = "none" THEN @ ELSE "seen"]
    /\ room' = NoRoom
    /\ UNCHANGED <<known, routing, binding, env, base, handed>>

CompleteWith == Asking("publish") /\ \E h \in HistoryCosts \cup {0} : Complete(h)
CompleteWithout == (Denied("publish") \/ room.use = "bare") /\ Complete(0)

\* An SSE failure is answered at once and its footer awaited with the charge kept.
DetachSseFailure(o) ==
    /\ "tail" \in world.inputs /\ Observing(o) /\ plan[o].socket = None
    /\ phase' = [phase EXCEPT ![o] = "tail"]
    /\ rec' = [rec EXCEPT ![o] = NoRecord]
    /\ UNCHANGED <<plan, charge, buffer, available, fork, known, idle, activity, routing,
                   binding, env, base, room, handed>>

DropLease(o) ==
    /\ Free /\ phase[o] \in {"planned", "admitted", "committed", "tail", "ended"}
    /\ Release(o)
    /\ UNCHANGED <<scopeVars, env, base, room, handed>>
-----------------------------------------------------------------------------
(* learn_turn, learn_response_turn, learn_completed_startup.               *)

\* The prewarm of a socket keeps its token for the turn that follows; other operations
\* learn theirs for their turn.  A later token replaces no earlier one.
LearnsStartup(o) == Prewarm(o) /\ plan[o].socket # None

RoutingRoom(o) == Route

BeginLearn(o, t) ==
    /\ Observing(o)
    /\ ~Prewarm(o) /\ routing[Key(o)] = None
    /\ Ask(o, "learn", plan[o].session, RoutingRoom(o), t)
    /\ UNCHANGED <<opVars, scopeVars, env, base, handed>>

LearnTurn ==
    /\ Asking("learn")
    /\ routing' = [routing EXCEPT ![Key(room.op)] = room.token]
    /\ room' = NoRoom
    /\ UNCHANGED <<opVars, rec, known, idle, activity, binding, env, base, handed>>

BeginLearnStartup(o, t) ==
    /\ Observing(o)
    /\ LearnsStartup(o) /\ plan[o].token = None
    /\ Ask(o, "startup", plan[o].session, Token, t)
    /\ UNCHANGED <<opVars, scopeVars, env, base, handed>>

LearnStartup ==
    /\ Asking("startup")
    /\ charge' = [charge EXCEPT ![room.op] = @ + Token]
    /\ plan' = [plan EXCEPT ![room.op].token = room.token]
    /\ room' = NoRoom
    /\ UNCHANGED <<phase, buffer, available, fork, scopeVars, env, base, handed>>

\* Metadata of a prewarm that has completed: for the turn it is bound to, if any.
BeginLearnLate(o, t) ==
    /\ Free /\ phase[o] = "ended"
    /\ rec[o].completed /\ rec[o].startup /\ rec[o].socket \in open
    /\ rec[o].token = None
    /\ rec[o].bound # None => routing[rec[o].bound] = None
    /\ Ask(o, "late", rec[o].session, Token + (IF rec[o].bound # None THEN Route ELSE 0), t)
    /\ UNCHANGED <<opVars, scopeVars, env, base, handed>>

LearnLate ==
    LET o == room.op  k == rec[room.op].bound IN
    /\ Asking("late")
    /\ IF k # None
       THEN /\ routing' = [routing EXCEPT ![k] = room.token]
            /\ handed' = [handed EXCEPT ![o] = @ \cup {k}]
            /\ UNCHANGED rec
       ELSE /\ rec' = [rec EXCEPT ![o].token = room.token]
            /\ UNCHANGED <<routing, handed>>
    /\ room' = NoRoom
    /\ UNCHANGED <<opVars, known, idle, activity, binding, env, base>>

NotLearned ==
    /\ \E use \in {"learn", "startup", "late"} : Denied(use)
    /\ room' = NoRoom
    /\ UNCHANGED <<opVars, scopeVars, env, base, handed>>
-----------------------------------------------------------------------------
(* Sockets, the relays' comparison data, time.                             *)

SocketOpen(k) ==
    /\ Free /\ k \notin open
    /\ \A o \in Ops : plan[o].socket # k   \* a socket id is fresh
    /\ open' = open \cup {k}
    /\ UNCHANGED <<opVars, scopeVars, world, base, room, handed>>

DetachedStartup(r) == [r EXCEPT !.startup = FALSE, !.bound = None, !.token = None]
Detached(r) == [r EXCEPT !.socket = None, !.startup = FALSE, !.bound = None, !.token = None]

SocketClosed(k) ==
    /\ "close" \in world.inputs /\ Free /\ k \in open
    /\ open' = open \ {k}
    /\ base' = [base EXCEPT ![k] = NoBase]
    /\ binding' = [binding EXCEPT ![k] = None]
    /\ rec' = [o \in Ops |-> IF rec[o].socket = k THEN Detached(rec[o]) ELSE rec[o]]
    /\ UNCHANGED <<opVars, known, idle, activity, routing, world, room, handed>>

TrackBaseline(k, s) ==
    /\ "relay" \in world.inputs /\ Free /\ k \in open /\ base[k] = NoBase /\ binding[k] = s
    /\ base' = [base EXCEPT ![k] = [session |-> s, state |-> "empty"]]
    /\ UNCHANGED <<opVars, scopeVars, env, room, handed>>

\* The relay works on its state under the state's own lock, whoever holds the store's.
RelayUses(k, state) ==
    /\ base[k].session # None /\ base[k].state # state
    /\ base' = [base EXCEPT ![k].state = state]
    /\ UNCHANGED <<opVars, scopeVars, env, room, handed>>

\* enforce_baseline_budget: after expiry, one after the other, the states that do not fit
\* are emptied.  Emptying one only helps the others: those kept fit in the end, those
\* emptied did not fit at first.
EnforceBaselines ==
    /\ "relay" \in world.inputs /\ Free
    /\ ExpireScopes
    /\ UNCHANGED <<opVars, env, room, handed>>
    /\ \E emptied \in SUBSET {k \in Sockets : ExpiredBase[k].state = "cached"} :
          LET AtFirst(S) == Total(S)' + Cache * Cardinality({k \in emptied : base[k].session \in S})
          IN  /\ base' = [k \in Sockets |->
                            IF k \in emptied THEN [base[k] EXCEPT !.state = "empty"]
                            ELSE ExpiredBase[k]]
              /\ \A k \in emptied : ~Within(AtFirst, base[k].session)
              /\ \A k \in Sockets \ emptied :
                    ExpiredBase[k].state = "cached" => Fits(base[k].session, 0)'

\* The session, or just its thread, is idle for HISTORY_TTL; hours do not end inside a call.
Idle(s, S) ==
    /\ "idle" \in world.inputs /\ Free /\ s \in known
    /\ idle' = idle \cup S
    /\ activity' = [activity EXCEPT ![s] = IF @ = "none" THEN @ ELSE "stale"]
    /\ <<idle, activity>>' # <<idle, activity>>
    /\ UNCHANGED <<opVars, rec, known, routing, binding, env, base, room, handed>>

\* The sweeper; with nothing idle there is nothing to expire.
Sweep ==
    /\ Free /\ (idle # {} \/ \E s \in Sessions : activity[s] = "stale")
    /\ Expire
    /\ UNCHANGED <<opVars, env, room, handed>>
-----------------------------------------------------------------------------
RoomStep ==
    \/ \E o \in Ops : EvictHistory(o) \/ EvictRecord(o) \/ EvictSurplus(o) \/ Commit(o)
    \/ \E k \in Sockets : ReclaimComparison(k)
    \/ \E s \in Sessions : EvictUnreferencedSession(s)
    \/ Planned \/ PlanRemotely \/ RefusePlan
    \/ FullInput \/ Refuse("full")
    \/ Room \/ RefuseSurplus \/ Admitted \/ Refuse("admit")
    \/ Refuse("commit")
    \/ ItemKept \/ ItemDropped
    \/ CompleteWith \/ CompleteWithout
    \/ LearnTurn \/ LearnStartup \/ LearnLate \/ NotLearned

Request(o) ==
    \/ \E q \in world.requests : BeginPlan(o, q)
    \/ BeginFullInput(o)
    \/ AdmitConflict(o) \/ BeginAdmit(o)
    \/ BeginCommit(o)
    \/ Created(o) \/ BeginItem(o) \/ Fail(o) \/ BeginComplete(o) \/ DetachSseFailure(o)
    \/ DropLease(o)
    \/ \E t \in world.tokens : BeginLearn(o, t) \/ BeginLearnStartup(o, t) \/ BeginLearnLate(o, t)

Connection(k) ==
    \/ SocketOpen(k) \/ SocketClosed(k)
    \/ \E s \in Sessions : TrackBaseline(k, s)
    \/ \E state \in {"empty", "cached", "busy"} : RelayUses(k, state)

Next ==
    \/ RoomStep
    \/ \E o \in Ops : Request(o)
    \/ \E k \in Sockets : Connection(k)
    \/ EnforceBaselines
    \/ \E s \in Sessions : \E S \in SUBSET {s} : Idle(s, S)
    \/ Sweep

Spec == Init /\ [][Next]_vars
-----------------------------------------------------------------------------
\* Through plan, full_input, admit, commit_admission, observe, terminal
\* assembly and a detached failure, an operation is charged for what it holds, no more and
\* no less; nothing is left of its charge once it has ended or its lease is dropped.
Held(o) ==
    Input + (IF plan[o].expanded THEN Expansion ELSE 0) + buffer[o] * Item
    + (IF plan[o].token # None THEN Token ELSE 0)
    + (IF phase[o] \in {"admitting", "admitted"} THEN Thread + RoutingCharge(fork[o]) ELSE 0)
ChargeIsExact ==
    \A o \in Ops : charge[o] = IF Working(o) \/ phase[o] = "admitting" THEN Held(o) ELSE 0

\* What may exceed a budget: the record of a response in progress, and the metadata that
\* commit_admission publishes.
Unchecked(S) ==
    MapThenSumSet(LAMBDA o : DescriptorCost(rec[o]) + Meta,
                  {o \in Ops : phase[o] \in {"committed", "publishing", "tail"}
                               /\ plan[o].session \in S})

\* Every operation at work is charged for exactly what it holds, and what is retained and
\* reserved exceeds a budget by no more than the operations at work have added unchecked.
BudgetHeld ==
    ChargeIsExact /\ \A s \in Sessions : Within(LAMBDA S : Spent(S) - Unchecked(S), s)

\* A socket has one active operation, and so has a lane (a session's thread, turn
\* and branch): requests that would share one are refused or get a branch of their own.
OneOwner ==
    \A o, p \in Ops :
        (o # p /\ phase[o] \in Active /\ phase[p] \in Active /\ plan[o].session = plan[p].session) =>
            /\ plan[o].socket = None \/ plan[o].socket # plan[p].socket
            /\ plan[o].turn # plan[p].turn \/ plan[o].branch # plan[p].branch

\* A prewarm's routing token is handed to one turn, whether it was learned
\* before or after the prewarm completed and the turn was admitted.
HandedOnce == \A o \in Ops : Cardinality(handed[o]) <= 1

\* While an operation or reservation of a session is at work, no eviction for
\* another request and no expiry takes a history, the session or a token of it; only the
\* limit on the number of records does, and it takes none of a socket.
PinnedIsKept ==
    [][\A s \in {plan[o].session : o \in {p \in Ops : Working(p) /\ Working(p)'}} :
            /\ s \in known => s \in known'
            /\ \A k \in Keys : KeySession(k) = s /\ routing[k] # None => routing'[k] = routing[k]
            /\ \A p \in Ops : rec[p].session = s /\ rec[p].history > 0 =>
                    \/ rec'[p].history = rec[p].history
                    \/ room.use = "records" /\ rec[p].socket = None]_vars

\* Once no operation is at work, the sockets are closed and the sessions idle,
\* a sweep leaves no record, session, routing token or charge, however it came to that:
\* failed and abandoned responses, dropped leases, sockets closed under their operations.
NothingLeaks ==
    [][(open = {} /\ known \subseteq idle /\ (\A o \in Ops : ~Working(o)) /\ Sweep) =>
            /\ known' = {} /\ \A s \in Sessions : activity'[s] = "none"
            /\ \A o \in Ops : ~Present(rec'[o]) /\ charge'[o] = 0
            /\ \A k \in Keys : routing'[k] = None]_vars

=============================================================================
