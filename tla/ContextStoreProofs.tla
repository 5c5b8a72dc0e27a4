------------------------ MODULE ContextStoreProofs ------------------------
(***************************************************************************)
(* What holds of every context store, whatever it is asked and whatever    *)
(* its budgets.                                                            *)
(*                                                                         *)
(* Every invariant speaks of an operation and of what is kept of it: the   *)
(* phase of the operation says what its plan, its charge and its record    *)
(* can be (Operation, Record), and the call of make_room in progress says  *)
(* what its caller has checked (Call).                                     *)
(***************************************************************************)
EXTENDS ContextStore, FiniteSetTheorems, TLAPS

\* How long a leaf may take.
USE SMTT(60), ZenonT(60)

Branches == Sessions \cup Ops
Uses == {"none", "plan", "full", "admit", "records", "commit", "item", "publish", "bare",
         "learn", "startup", "late"}
Plans ==
    [session: Sessions \cup {None}, socket: Sockets \cup {None}, turn: Turns \cup {None},
     branch: Branches \cup {None}, remote: BOOLEAN, parent: BOOLEAN, expanded: BOOLEAN,
     token: Tokens \cup {None}]
Records ==
    [session: Sessions \cup {None}, branch: Branches \cup {None}, turn: Turns \cup {None},
     socket: Sockets \cup {None}, completed: BOOLEAN, history: Nat, startup: BOOLEAN,
     bound: Keys \cup {None}, token: Tokens \cup {None}]
Rooms ==
    [use: Uses, op: Ops \cup {None}, session: Sessions \cup {None}, extra: Int,
     token: Tokens \cup {None}]
Bases == [session: Sessions \cup {None}, state: {"empty", "cached", "busy"}]

TypeOK ==
    /\ world \in Worlds
    /\ phase \in [Ops -> Phases] /\ plan \in [Ops -> Plans] /\ charge \in [Ops -> Int]
    /\ buffer \in [Ops -> Nat] /\ available \in [Ops -> BOOLEAN] /\ fork \in [Ops -> Tokens \cup {None}]
    /\ rec \in [Ops -> Records]
    /\ known \subseteq Sessions /\ idle \subseteq Sessions
    /\ activity \in [Sessions -> {"none", "seen", "stale"}]
    /\ routing \in [Keys -> Tokens \cup {None}] /\ binding \in [Sockets -> Sessions \cup {None}]
    /\ open \subseteq Sockets /\ base \in [Sockets -> Bases]
    /\ room \in Rooms /\ handed \in [Ops -> SUBSET Keys]

Over == {"ended", "dropped"}
Calling == {"planning", "admitting", "publishing"}
Visible == {"committed", "publishing", "tail"}

\* Where the operation is that a call of make_room was made for.
CallPhase(use) ==
    IF use = "plan" THEN "planning" ELSE IF use = "full" THEN "planned"
    ELSE IF use \in {"admit", "records"} THEN "admitting" ELSE IF use = "commit" THEN "admitted"
    ELSE IF use \in {"publish", "bare"} THEN "publishing" ELSE IF use = "late" THEN "ended"
    ELSE "committed"

\* What the caller of make_room has checked still holds; and only one call is in progress.
Call ==
    /\ room.use = "none" => room = NoRoom
    /\ room.use # "none" => room.op \in Ops /\ phase[room.op] = CallPhase(room.use)
    /\ room.use \notin {"none", "late"} => Connected(room.op)
    /\ room.use = "full" => ~plan[room.op].expanded
    /\ room.use = "startup" => plan[room.op].token = None /\ room.token # None
    /\ room.use = "learn" => ~Prewarm(room.op) /\ routing[Key(room.op)] = None
    /\ room.use = "late" =>
           /\ rec[room.op].startup /\ rec[room.op].socket # None
           /\ rec[room.op].bound # None => routing[rec[room.op].bound] = None
    /\ \A o \in Ops : phase[o] \in Calling => room.op = o /\ room.use # "none"

\* What an operation has in a phase.
Operation(o) ==
    /\ charge[o] = IF Working(o) \/ phase[o] = "admitting" THEN Held(o) ELSE 0
    /\ phase[o] \notin {"admitting", "admitted"} => fork[o] = None
    /\ phase[o] \notin Visible => buffer[o] = 0 /\ plan[o].token = None
    /\ phase[o] \in {"new", "planning"} => ~plan[o].expanded
    /\ phase[o] \in {"new"} \cup Over => plan[o] = NoPlan
    /\ phase[o] \notin {"new"} \cup Over => plan[o].session # None /\ plan[o].branch # None
    /\ phase[o] \in Visible => plan[o].session \in known

\* What is kept of it.
Record(o) ==
    /\ rec[o].history > 0 => rec[o].completed
    /\ rec[o].completed => phase[o] \in Over
    /\ rec[o].socket \in open \cup {None}
    /\ Present(rec[o]) => rec[o].session \in known /\ rec[o].branch # None
    /\ handed[o] # {} => phase[o] \in Over
    /\ rec[o].startup => handed[o] \subseteq {rec[o].bound} \ {None}
    /\ \E k \in Keys \cup {None} : handed[o] \subseteq {k}

\* A branch made for an operation is used by others only once that has ended.
Own(o, p) ==
    o # p => (plan[p].branch = o \/ rec[p].branch = o => phase[o] \in Over)

\* Two operations that are admitted share neither their socket nor their lane.
Apart(o, p) ==
    (o # p /\ phase[o] \in Active \cup {"admitting"} /\ phase[p] \in Active \cup {"admitting"}) =>
        /\ plan[o].socket = None \/ plan[o].socket # plan[p].socket
        /\ \/ plan[o].session # plan[p].session \/ plan[o].turn # plan[p].turn
           \/ plan[o].branch # plan[p].branch

Bound == \A k \in Sockets : binding[k] # None => k \in open

IInv ==
    /\ TypeOK /\ Call /\ Bound
    /\ \A o \in Ops : Operation(o) /\ Record(o)
    /\ \A o, p \in Ops : Own(o, p) /\ Apart(o, p)
-----------------------------------------------------------------------------
(* Types.                                                                   *)

LEMMA Constants ==
    /\ None \notin Sessions /\ None \notin Ops /\ None \notin Turns /\ None \notin Sockets
    /\ None \notin Tokens /\ None \notin Keys /\ Sessions \cap Ops = {}
    /\ Input \in Nat /\ Expansion \in Nat /\ Token \in Nat /\ Thread \in Nat /\ Route \in Nat
    /\ Item \in Nat /\ Retain \in Nat /\ HistoryCosts \subseteq Nat /\ Worlds \subseteq World
    /\ ScopeOf \in [Sessions -> Scopes] /\ TurnSession \in [Turns -> Sessions]
PROOF
  BY Zenon, ConstantsAssumption DEF Keys

LEMMA Empty == NoPlan \in Plans /\ NoRecord \in Records /\ NoRoom \in Rooms /\ NoBase \in Bases
PROOF
  BY SMTT(60) DEF NoPlan, NoRecord, NoRoom, NoBase, Plans, Records, Rooms, Bases, Uses

\* Whatever is cut from a record, it is one.
LEMMA Trimmed ==
    ASSUME NEW r \in Records
    PROVE  /\ [r EXCEPT !.history = 0] \in Records
           /\ DetachedStartup(r) \in Records /\ Detached(r) \in Records
           /\ \A k \in Keys \cup {None} : [r EXCEPT !.bound = k, !.token = None] \in Records
           /\ \A t \in Tokens \cup {None} : [r EXCEPT !.token = t] \in Records
PROOF
  BY ZenonT(60) DEF Records, DetachedStartup, Detached

\* Expiry forgets, and adds nothing.
LEMMA ExpireTypes ==
    ASSUME TypeOK, ExpireScopes
    PROVE  /\ rec' \in [Ops -> Records] /\ known' \subseteq Sessions /\ idle' \subseteq Sessions
           /\ activity' \in [Sessions -> {"none", "seen", "stale"}]
           /\ routing' \in [Keys -> Tokens \cup {None}] /\ binding' = binding
PROOF
<1>1. \A r \in Records : ExpiredRecord(r) \in Records
  BY Zenon, Trimmed, Empty DEF ExpiredRecord
<1>2. rec' \in [Ops -> Records]
  BY Zenon, <1>1 DEF ExpireScopes, TypeOK
<1>3. known' \subseteq Sessions /\ idle' \subseteq Sessions
  BY Zenon DEF ExpireScopes, PruneMetadata, KeptSessions, TypeOK
<1>4. activity' \in [Sessions -> {"none", "seen", "stale"}]
  BY Zenon DEF ExpireScopes, PruneMetadata, KeptActivity, TypeOK
<1>5. routing' \in [Keys -> Tokens \cup {None}]
  BY Zenon DEF ExpireScopes, PruneMetadata, KeptRouting, TypeOK
<1> QED
  BY Zenon, <1>2, <1>3, <1>4, <1>5 DEF ExpireScopes

LEMMA ExpiredBaseType ==
    ASSUME TypeOK
    PROVE  ExpiredBase \in [Sockets -> Bases]
PROOF
  BY DEF ExpiredBase, TypeOK, Bases

LEMMA AskTypes ==
    ASSUME NEW o \in Ops, NEW use \in Uses, NEW s \in Sessions \cup {None}, NEW extra \in Int,
           NEW t \in Tokens \cup {None}, Ask(o, use, s, extra, t)
    PROVE  room' \in Rooms
PROOF
  BY Zenon DEF Ask, Rooms

\* The operation's variables.
OpTypes ==
    /\ phase \in [Ops -> Phases] /\ plan \in [Ops -> Plans] /\ charge \in [Ops -> Int]
    /\ buffer \in [Ops -> Nat] /\ available \in [Ops -> BOOLEAN] /\ fork \in [Ops -> Tokens \cup {None}]

LEMMA ReleaseTypes ==
    ASSUME OpTypes, NEW o \in Ops, Release(o)
    PROVE  OpTypes'
PROOF
<1>1. plan' \in [Ops -> Plans]
  BY Zenon, Empty DEF OpTypes, Release
<1>2. phase' \in [Ops -> Phases]
  BY Zenon DEF OpTypes, Release, Phases
<1>3. charge' \in [Ops -> Int] /\ buffer' \in [Ops -> Nat]
  BY DEF OpTypes, Release
<1>4. available' \in [Ops -> BOOLEAN] /\ fork' \in [Ops -> Tokens \cup {None}]
  BY Zenon DEF OpTypes, Release
<1> QED
  BY Zenon, <1>1, <1>2, <1>3, <1>4 DEF OpTypes

LEMMA EndTypes ==
    ASSUME OpTypes, NEW o \in Ops, End(o)
    PROVE  OpTypes'
PROOF
<1>1. plan' \in [Ops -> Plans]
  BY Zenon, Empty DEF OpTypes, End
<1>2. phase' \in [Ops -> Phases]
  BY Zenon DEF OpTypes, End, Phases
<1>3. charge' \in [Ops -> Int] /\ buffer' \in [Ops -> Nat]
  BY DEF OpTypes, End
<1>4. available' \in [Ops -> BOOLEAN] /\ fork' \in [Ops -> Tokens \cup {None}]
  BY Zenon DEF OpTypes, End
<1> QED
  BY Zenon, <1>1, <1>2, <1>3, <1>4 DEF OpTypes

LEMMA PlanEdits ==
    ASSUME OpTypes, NEW o \in Ops
    PROVE  /\ [plan EXCEPT ![o].remote = FALSE, ![o].parent = FALSE] \in [Ops -> Plans]
           /\ [plan EXCEPT ![o].expanded = TRUE] \in [Ops -> Plans]
           /\ \A t \in Tokens \cup {None} : [plan EXCEPT ![o].token = t] \in [Ops -> Plans]
           /\ \A b \in Branches : [plan EXCEPT ![o].branch = b, ![o].remote = FALSE, ![o].parent = FALSE]
                                     \in [Ops -> Plans]
PROOF
<1>1. ASSUME NEW q \in Plans
      PROVE  /\ [q EXCEPT !.remote = FALSE] \in Plans /\ [q EXCEPT !.parent = FALSE] \in Plans
             /\ [q EXCEPT !.expanded = TRUE] \in Plans
             /\ \A t \in Tokens \cup {None} : [q EXCEPT !.token = t] \in Plans
             /\ \A b \in Branches : [q EXCEPT !.branch = b] \in Plans
  BY ZenonT(60) DEF Plans
<1>2. plan \in [Ops -> Plans]
  BY Zenon DEF OpTypes
<1>3. [plan EXCEPT ![o].remote = FALSE, ![o].parent = FALSE] \in [Ops -> Plans]
  BY Zenon, <1>1, <1>2
<1>4. [plan EXCEPT ![o].expanded = TRUE] \in [Ops -> Plans]
  BY Zenon, <1>1, <1>2
<1>5. ASSUME NEW t \in Tokens \cup {None} PROVE [plan EXCEPT ![o].token = t] \in [Ops -> Plans]
  BY Zenon, <1>1, <1>2
<1>6. ASSUME NEW b \in Branches
      PROVE  [plan EXCEPT ![o].branch = b, ![o].remote = FALSE, ![o].parent = FALSE] \in [Ops -> Plans]
  BY Zenon, <1>1, <1>2
<1> QED
  BY Zenon, <1>3, <1>4, <1>5, <1>6

\* The steps of make_room's callers that leave the scopes alone.
LEMMA CallTypes ==
    ASSUME TypeOK, Call,
           \/ Planned \/ PlanRemotely \/ FullInput \/ Room \/ Admitted \/ ItemKept \/ ItemDropped
           \/ LearnStartup \/ NotLearned
    PROVE  TypeOK'
PROOF
<1>0. OpTypes /\ Expansion \in Int /\ Input \in Int /\ Item \in Nat /\ Token \in Int
  BY Constants DEF TypeOK, OpTypes
<1>1. CASE Planned
  <2>1. room.op \in Ops
    BY Zenon, <1>1 DEF Planned, Asking, Call
  <2>2. phase' \in [Ops -> Phases] /\ charge' \in [Ops -> Int] /\ room' \in Rooms
    BY Zenon, <1>0, <1>1, <2>1, Empty DEF Planned, OpTypes, Phases, Reserved
  <2> QED
    BY <1>1, <2>2, ZenonT(60) DEF Planned, TypeOK, scopeVars, env
<1>2. CASE PlanRemotely
  <2>1. room.op \in Ops
    BY Zenon, <1>2 DEF PlanRemotely, Denied, Call
  <2>2. plan' \in [Ops -> Plans]
    BY Zenon, <1>0, <1>2, <2>1, PlanEdits DEF PlanRemotely
  <2> QED
    BY <1>2, <2>2, ZenonT(60) DEF PlanRemotely, TypeOK, scopeVars, env
<1>3. CASE FullInput
  <2>1. room.op \in Ops
    BY Zenon, <1>3 DEF FullInput, Asking, Call
  <2>2. plan' \in [Ops -> Plans]
    BY Zenon, <1>0, <1>3, <2>1, PlanEdits DEF FullInput
  <2>3. charge' \in [Ops -> Int] /\ room' \in Rooms
    BY <1>0, <1>3, <2>1, Empty DEF FullInput, OpTypes
  <2> QED
    BY <1>3, <2>2, <2>3, ZenonT(60) DEF FullInput, TypeOK, scopeVars, env
<1>4. CASE Room
  <2>1. room' \in Rooms
    BY Zenon, <1>4 DEF Room, TypeOK, Rooms, Uses
  <2> QED
    BY <1>4, <2>1, ZenonT(60) DEF Room, TypeOK, scopeVars, env, opVars
<1>5. CASE Admitted
  <2>1. phase' \in [Ops -> Phases] /\ room' \in Rooms
    BY Zenon, <1>0, <1>5, Empty DEF Admitted, OpTypes, Phases, Active
  <2> QED
    BY <1>5, <2>1, ZenonT(60) DEF Admitted, TypeOK, scopeVars, env
<1>6. CASE ItemKept
  <2>1. room.op \in Ops
    BY Zenon, <1>6 DEF ItemKept, Asking, Call
  <2>2. charge' \in [Ops -> Int] /\ room' \in Rooms /\ buffer' \in [Ops -> Nat]
    BY <1>0, <1>6, <2>1, Empty DEF ItemKept, OpTypes
  <2>3. available' \in [Ops -> BOOLEAN]
    BY Zenon, <1>0, <1>6 DEF ItemKept, OpTypes
  <2> QED
    BY <1>6, <2>2, <2>3, ZenonT(60) DEF ItemKept, TypeOK, scopeVars, env
<1>7. ASSUME NEW o \in Ops, DropOutput(o), room' \in Rooms PROVE TypeOK'
  <2>1. buffer[o] * Item \in Int
    BY <1>0 DEF OpTypes
  <2>2. charge' \in [Ops -> Int] /\ buffer' \in [Ops -> Nat]
    BY <1>0, <1>7, <2>1 DEF DropOutput, OpTypes
  <2>3. available' \in [Ops -> BOOLEAN]
    BY Zenon, <1>0, <1>7 DEF DropOutput, OpTypes
  <2> QED
    BY <1>7, <2>2, <2>3, ZenonT(60) DEF DropOutput, TypeOK, scopeVars, env
<1>8. CASE ItemDropped
  <2>1. Denied("item") => room.op \in Ops
    BY Zenon DEF Denied, Call
  <2>2. NoRoom \in Rooms /\ room \in Rooms
    BY Zenon, Empty DEF TypeOK
  <2> QED
    BY Zenon, <1>7, <1>8, <2>1, <2>2 DEF ItemDropped
<1>9. CASE LearnStartup
  <2>1. room.op \in Ops /\ room.token \in Tokens \cup {None}
    BY Zenon, <1>9 DEF LearnStartup, Asking, Call, TypeOK, Rooms
  <2>2. plan' \in [Ops -> Plans]
    BY Zenon, <1>0, <1>9, <2>1, PlanEdits DEF LearnStartup
  <2>3. charge' \in [Ops -> Int] /\ room' \in Rooms
    BY <1>0, <1>9, <2>1, Empty DEF LearnStartup, OpTypes
  <2> QED
    BY <1>9, <2>2, <2>3, ZenonT(60) DEF LearnStartup, TypeOK, scopeVars, env
<1>10. CASE NotLearned
  BY <1>10, Empty, ZenonT(60) DEF NotLearned, TypeOK, scopeVars, env, opVars
<1> QED
  BY Zenon, <1>1, <1>2, <1>3, <1>4, <1>5, <1>6, <1>8, <1>9, <1>10

\* Refusals, drops and what only asks for room.
LEMMA ReleasingTypes ==
    ASSUME TypeOK, Call,
           \/ RefuseSurplus \/ \E use \in Uses \ {"none"} : Refuse(use)
           \/ \E o \in Ops : DropLease(o)
    PROVE  TypeOK'
PROOF
<1>0. OpTypes
  BY Zenon DEF TypeOK, OpTypes
<1>1. room' \in Rooms /\ \E o \in Ops : Release(o)
  BY Zenon, Empty DEF RefuseSurplus, Refuse, Denied, Call, DropLease, TypeOK
<1>2. OpTypes'
  BY Zenon, <1>0, <1>1, ReleaseTypes
<1>3. UNCHANGED <<scopeVars, env, base, handed>>
  BY Zenon DEF RefuseSurplus, Refuse, DropLease
<1> QED
  BY <1>1, <1>2, <1>3, ZenonT(60) DEF TypeOK, OpTypes, scopeVars, env

LEMMA AskingTypes ==
    ASSUME TypeOK, Call, \A p \in Ops : Operation(p), NEW o \in Ops,
           \/ BeginFullInput(o) \/ BeginCommit(o) \/ BeginItem(o) \/ BeginComplete(o)
           \/ \E t \in world.tokens : BeginLearn(o, t) \/ BeginLearnStartup(o, t) \/ BeginLearnLate(o, t)
    PROVE  TypeOK'
PROOF
<1>0. /\ plan[o].session \in Sessions \cup {None} /\ rec[o].session \in Sessions \cup {None}
      /\ world.tokens \subseteq Tokens
      /\ Expansion \in Int /\ Route \in Int /\ Item \in Int /\ Retain \in Int /\ Token \in Int
  BY Constants DEF TypeOK, Plans, Records, World
<1>1. CASE BeginComplete(o)
  <2>1. phase' \in [Ops -> Phases]
    BY Zenon, <1>1 DEF BeginComplete, TypeOK, Phases, Reserved
  <2>2. room' \in Rooms
    BY Zenon, <1>0, <1>1 DEF BeginComplete, Ask, Rooms, Uses
  <2> QED
    BY <1>1, <2>1, <2>2, ZenonT(60) DEF BeginComplete, TypeOK, scopeVars, env
<1>2. ASSUME UNCHANGED <<opVars, scopeVars, env, base, handed>>, room' \in Rooms PROVE TypeOK'
  BY <1>2, ZenonT(60) DEF TypeOK, scopeVars, env, opVars
<1>3. CASE BeginFullInput(o) \/ BeginCommit(o) \/ BeginItem(o)
  <2>1. room' \in Rooms
    BY <1>0, <1>3 DEF BeginFullInput, BeginCommit, BeginItem, Ask, Rooms, Uses
  <2> QED
    BY Zenon, <1>2, <1>3, <2>1 DEF BeginFullInput, BeginCommit, BeginItem
<1>4. ASSUME NEW t \in world.tokens, BeginLearn(o, t) \/ BeginLearnStartup(o, t) PROVE TypeOK'
  <2>1. room' \in Rooms
    BY <1>0, <1>4 DEF BeginLearn, BeginLearnStartup, RoutingRoom, Ask, Rooms, Uses
  <2> QED
    BY Zenon, <1>2, <1>4, <2>1 DEF BeginLearn, BeginLearnStartup
<1>5. ASSUME NEW t \in world.tokens, BeginLearnLate(o, t) PROVE TypeOK'
  <2>1. Token + (IF rec[o].bound # None THEN Route ELSE 0) \in Int
    BY <1>0
  <2>2. room' \in Rooms
    BY Zenon, <1>0, <1>5, <2>1 DEF BeginLearnLate, Ask, Rooms, Uses
  <2> QED
    BY Zenon, <1>2, <1>5, <2>2 DEF BeginLearnLate
<1> QED
  BY Zenon, <1>1, <1>3, <1>4, <1>5

\* Records come and go.
LEMMA RecordTypes ==
    ASSUME TypeOK, NEW o \in Ops
    PROVE  RecordOf(o, FALSE, 0) \in Records /\ \A h \in Nat : RecordOf(o, TRUE, h) \in Records
PROOF
  BY Zenon DEF TypeOK, RecordOf, Records, Plans, Prewarm

LEMMA RecordingTypes ==
    ASSUME TypeOK, Call,
           \/ \E o \in Ops : \/ EvictHistory(o) \/ EvictSurplus(o) \/ Created(o) \/ Fail(o)
                             \/ DetachSseFailure(o)
           \/ CompleteWith \/ CompleteWithout \/ LearnTurn \/ LearnLate
    PROVE  TypeOK'
PROOF
<1>0. OpTypes
  BY Zenon DEF TypeOK, OpTypes
<1>1. ASSUME NEW o \in Ops, EvictHistory(o) \/ EvictSurplus(o) \/ Created(o) PROVE TypeOK'
  <2>1. rec' \in [Ops -> Records]
    <3>1. [rec[o] EXCEPT !.history = 0] \in Records
      BY Zenon, Trimmed DEF TypeOK
    <3> QED
      BY ZenonT(60), <1>1, <3>1, Empty, RecordTypes DEF EvictHistory, EvictSurplus, Created, TypeOK
  <2> QED
    BY <1>1, <2>1, ZenonT(60) DEF EvictHistory, EvictSurplus, Created, TypeOK, opVars, env
<1>2. ASSUME NEW o \in Ops, Fail(o) PROVE TypeOK'
  <2>1. rec' \in [Ops -> Records] /\ OpTypes'
    BY Zenon, <1>0, <1>2, Empty, EndTypes DEF Fail, TypeOK
  <2> QED
    BY <1>2, <2>1, ZenonT(60) DEF Fail, TypeOK, OpTypes, env
<1>3. ASSUME NEW o \in Ops, DetachSseFailure(o) PROVE TypeOK'
  <2>1. rec' \in [Ops -> Records] /\ phase' \in [Ops -> Phases]
    BY Zenon, <1>3, Empty DEF DetachSseFailure, TypeOK, Phases, Reserved
  <2> QED
    BY <1>3, <2>1, ZenonT(60) DEF DetachSseFailure, TypeOK, env
<1>4. ASSUME NEW h \in Nat, room.op \in Ops, Complete(h) PROVE TypeOK'
  <2>1. Published(room.op, RecordOf(room.op, TRUE, h)) \in Records
    BY Zenon, <1>4, RecordTypes, Trimmed DEF Published
  <2>2. rec' \in [Ops -> Records]
    BY Zenon, <1>4, <2>1 DEF Complete, TypeOK
  <2>3. OpTypes'
    BY Zenon, <1>0, <1>4, EndTypes DEF Complete
  <2>4. idle' \subseteq Sessions /\ room' \in Rooms
    BY Zenon, <1>4, Empty DEF Complete, TypeOK
  <2>5. activity' \in [Sessions -> {"none", "seen", "stale"}]
    BY Zenon, <1>4 DEF Complete, TypeOK
  <2> QED
    BY <1>4, <2>2, <2>3, <2>4, <2>5, ZenonT(60) DEF Complete, TypeOK, OpTypes, env
<1>5. CASE CompleteWith \/ CompleteWithout
  <2>1. room.op \in Ops
    BY Zenon, <1>5 DEF CompleteWith, CompleteWithout, Asking, Denied, Call
  <2>2. HistoryCosts \cup {0} \subseteq Nat
    BY Constants
  <2> QED
    BY Zenon, <1>4, <1>5, <2>1, <2>2 DEF CompleteWith, CompleteWithout
<1>6. CASE LearnTurn
  <2>1. room.token \in Tokens \cup {None}
    BY Zenon DEF TypeOK, Rooms
  <2>2. routing' \in [Keys -> Tokens \cup {None}] /\ room' \in Rooms
    BY Zenon, <1>6, <2>1, Empty DEF LearnTurn, TypeOK
  <2> QED
    BY <1>6, <2>2, ZenonT(60) DEF LearnTurn, TypeOK, opVars, env
<1>7. CASE LearnLate
  <2>1. /\ room.token \in Tokens \cup {None} /\ room.op \in Ops
        /\ rec[room.op].bound # None => rec[room.op].bound \in Keys
    BY Zenon, <1>7 DEF TypeOK, Rooms, Records, LearnLate, Asking, Call
  <2>2. routing' \in [Keys -> Tokens \cup {None}]
    BY ZenonT(60), <1>7, <2>1 DEF LearnLate, TypeOK
  <2>3. handed' \in [Ops -> SUBSET Keys]
    BY <1>7, <2>1 DEF LearnLate, TypeOK
  <2>4. rec' \in [Ops -> Records]
    <3>1. [rec[room.op] EXCEPT !.token = room.token] \in Records
      BY Zenon, <2>1, Trimmed DEF TypeOK
    <3> QED
      BY Zenon, <1>7, <2>1, <3>1 DEF LearnLate, TypeOK
  <2> QED
    BY <1>7, <2>2, <2>3, <2>4, Empty, ZenonT(60) DEF LearnLate, TypeOK, opVars, env
<1> QED
  BY Zenon, <1>1, <1>2, <1>3, <1>5, <1>6, <1>7

\* The branch of a plan is the thread's own, a new one, or that of a completed response.
LEMMA PlanOptions ==
    ASSUME TypeOK, NEW q \in Requests, NEW o \in Ops,
           NEW b \in {Anew(q.session)} \cup Deltas(q.session, q.socket) \cup Matches(q.session, o)
    PROVE  /\ b.remote \in BOOLEAN /\ b.parent \in BOOLEAN
           /\ b.branch \in {q.session, o} \cup {rec[r].branch : r \in Baselines(q.session)}
PROOF
<1>1. CASE b = Anew(q.session)
  BY Zenon, <1>1 DEF Anew
<1>2. CASE b \in Deltas(q.session, q.socket)
  <2>1. PICK r \in Baselines(q.session) :
           b = [branch |-> rec[r].branch, remote |-> HeldBySocket(r, q.socket), parent |-> rec[r].history > 0]
    BY Zenon, <1>2 DEF Deltas
  <2> QED
    BY <2>1 DEF HeldBySocket
<1>3. CASE b \in Matches(q.session, o)
  <2>1. PICK x \in UNION {{rec[r].branch, o} : r \in {r \in Baselines(q.session) : rec[r].history > 0}} :
           b = [branch |-> x, remote |-> FALSE, parent |-> FALSE]
    BY Zenon, <1>3 DEF Matches
  <2> QED
    BY Zenon, <2>1
<1> QED
  BY Zenon, <1>1, <1>2, <1>3

LEMMA ExpiringTypes ==
    ASSUME TypeOK, Call, \A p \in Ops : Operation(p),
           \/ \E o \in Ops : \/ \E q \in world.requests : BeginPlan(o, q)
                             \/ AdmitConflict(o) \/ BeginAdmit(o) \/ EvictRecord(o)
           \/ \E s \in Sessions : EvictUnreferencedSession(s)
           \/ EnforceBaselines \/ Sweep
    PROVE  TypeOK'
PROOF
<1>0. OpTypes
  BY Zenon DEF TypeOK, OpTypes
<1>1. Expire => base' \in [Sockets -> Bases]
  BY Zenon, ExpiredBaseType DEF Expire
<1>2. ASSUME NEW o \in Ops, NEW q \in world.requests, BeginPlan(o, q) PROVE TypeOK'
  <2>1. q \in Requests /\ q.session \in Sessions /\ q.socket \in Sockets \cup {None}
        /\ q.turn \in Turns \cup {None} /\ Input \in Int
    BY Constants DEF TypeOK, World, Requests
  <2>2. plan' \in [Ops -> Plans]
    <3>1. PICK b \in {Anew(q.session)} \cup Deltas(q.session, q.socket) \cup Matches(q.session, o) :
             plan' = [plan EXCEPT ![o] =
                       [session |-> q.session, socket |-> q.socket, turn |-> q.turn,
                        branch |-> b.branch, remote |-> b.remote, parent |-> b.parent,
                        expanded |-> FALSE, token |-> None]]
      BY Zenon, <1>2 DEF BeginPlan
    <3>2. b.remote \in BOOLEAN /\ b.parent \in BOOLEAN /\ b.branch \in Branches \cup {None}
      <4>1. /\ b.remote \in BOOLEAN /\ b.parent \in BOOLEAN
            /\ b.branch \in {q.session, o} \cup {rec[r].branch : r \in Baselines(q.session)}
        BY Zenon, <2>1, PlanOptions
      <4>2. \A r \in Ops : rec[r].branch \in Branches \cup {None}
        BY Zenon DEF TypeOK, Records
      <4> QED
        BY Zenon, <2>1, <4>1, <4>2 DEF Branches, Baselines
    <3>3. [session |-> q.session, socket |-> q.socket, turn |-> q.turn,
           branch |-> b.branch, remote |-> b.remote, parent |-> b.parent,
           expanded |-> FALSE, token |-> None] \in Plans
      BY Zenon, <2>1, <3>2 DEF Plans
    <3> QED
      BY Zenon, <1>0, <3>1, <3>3 DEF OpTypes
  <2>3. phase' \in [Ops -> Phases] /\ room' \in Rooms
    BY Zenon, <1>0, <1>2, <2>1, AskTypes DEF BeginPlan, OpTypes, Phases, Uses
  <2> QED
    BY <1>1, <1>2, <2>2, <2>3, ExpireTypes, ZenonT(60) DEF BeginPlan, Expire, TypeOK, env
<1>3. ASSUME NEW o \in Ops, AdmitConflict(o) PROVE TypeOK'
  <2>1. OpTypes'
    BY Zenon, <1>0, <1>3, ReleaseTypes DEF AdmitConflict
  <2> QED
    BY <1>1, <1>3, <2>1, ExpireTypes, ZenonT(60) DEF AdmitConflict, Expire, TypeOK, OpTypes, env
<1>4. ASSUME NEW o \in Ops, BeginAdmit(o) PROVE TypeOK'
  <2>1. plan[o].branch \in Branches /\ plan[o].session \in Sessions /\ PendingRouting(o) \in Tokens \cup {None}
    <3>1. phase[o] \notin {"new"} \cup Over
      BY Zenon, <1>4 DEF BeginAdmit, Over
    <3>2. plan[o].branch \in Branches /\ plan[o].session \in Sessions
      BY Zenon, <3>1 DEF Operation, TypeOK, Plans
    <3>3. ~Prewarm(o) => Key(o) \in Keys
      BY Zenon, <3>2 DEF Prewarm, Key, Keys, Branches, TypeOK, Plans
    <3> QED
      BY Zenon, <3>2, <3>3 DEF PendingRouting, TypeOK
  <2>2. ExecutionBranch(o) \in Branches
    BY Zenon, <2>1 DEF ExecutionBranch, Branches
  <2>3. plan' \in [Ops -> Plans]
    BY ZenonT(60), <1>0, <1>4, <2>2, PlanEdits DEF BeginAdmit
  <2>4. RoutingCharge(PendingRouting(o)) \in Int /\ Thread \in Int
    BY Constants DEF RoutingCharge
  <2>5. charge' \in [Ops -> Int] /\ charge'[o] \in Int
    <3>1. PICK c : c = RoutingCharge(PendingRouting(o))
      BY Zenon
    <3>2. charge' = [charge EXCEPT ![o] = charge[o] + Thread + c]
      BY Zenon, <1>4, <3>1 DEF BeginAdmit
    <3> QED
      BY <1>0, <2>4, <3>1, <3>2 DEF OpTypes
  <2>6. phase' \in [Ops -> Phases] /\ fork' \in [Ops -> Tokens \cup {None}]
    BY Zenon, <1>0, <1>4, <2>1 DEF BeginAdmit, OpTypes, Phases
  <2>7. room' \in Rooms
    BY Zenon, <1>4, <2>1, <2>5, AskTypes DEF BeginAdmit, Uses
  <2> QED
    BY <1>1, <1>4, <2>3, <2>5, <2>6, <2>7, ExpireTypes, ZenonT(60) DEF BeginAdmit, Expire, TypeOK, env
<1>5. ASSUME NEW o \in Ops, EvictRecord(o) PROVE TypeOK'
  <2>1. rec' \in [Ops -> Records]
    BY Zenon, <1>5, Empty DEF EvictRecord, TypeOK
  <2>2. known' \subseteq Sessions /\ idle' \subseteq Sessions
    BY Zenon, <1>5 DEF EvictRecord, PruneMetadata, KeptSessions, TypeOK
  <2>3. activity' \in [Sessions -> {"none", "seen", "stale"}]
    BY Zenon, <1>5 DEF EvictRecord, PruneMetadata, KeptActivity, TypeOK
  <2>4. routing' \in [Keys -> Tokens \cup {None}]
    BY Zenon, <1>5 DEF EvictRecord, PruneMetadata, KeptRouting, TypeOK
  <2> QED
    BY <1>5, <2>1, <2>2, <2>3, <2>4, ZenonT(60) DEF EvictRecord, TypeOK, opVars, env
<1>6. ASSUME NEW s \in Sessions, EvictUnreferencedSession(s) PROVE TypeOK'
  <2>1. known' \subseteq Sessions /\ idle' \subseteq Sessions
    BY Zenon, <1>6 DEF EvictUnreferencedSession, TypeOK
  <2>2. activity' \in [Sessions -> {"none", "seen", "stale"}]
    BY Zenon, <1>6 DEF EvictUnreferencedSession, TypeOK
  <2>3. routing' \in [Keys -> Tokens \cup {None}]
    BY Zenon, <1>6 DEF EvictUnreferencedSession, TypeOK
  <2> QED
    BY <1>6, <2>1, <2>2, <2>3, ZenonT(60) DEF EvictUnreferencedSession, TypeOK, opVars, env
<1>7. CASE EnforceBaselines
  <2>1. ExpireScopes /\ UNCHANGED <<opVars, env, room, handed>>
        /\ \E E : base' = [k \in Sockets |-> IF k \in E THEN [base[k] EXCEPT !.state = "empty"]
                                             ELSE ExpiredBase[k]]
    BY <1>7, ZenonT(60) DEF EnforceBaselines
  <2>2. \A k \in Sockets : [base[k] EXCEPT !.state = "empty"] \in Bases
    BY ZenonT(60) DEF TypeOK, Bases
  <2>3. base' \in [Sockets -> Bases]
    BY Zenon, <2>1, <2>2, ExpiredBaseType
  <2> QED
    BY <2>1, <2>3, ExpireTypes, ZenonT(60) DEF TypeOK, opVars, env
<1>8. CASE Sweep
  BY <1>1, <1>8, ExpireTypes, ZenonT(60) DEF Sweep, Expire, TypeOK, opVars, env
<1> QED
  BY Zenon, <1>2, <1>3, <1>4, <1>5, <1>6, <1>7, <1>8

LEMMA SocketTypes ==
    ASSUME TypeOK,
           \/ \E k \in Sockets : Connection(k) \/ ReclaimComparison(k)
           \/ \E s \in Sessions : \E S \in SUBSET {s} : Idle(s, S)
    PROVE  TypeOK'
PROOF
<1>1. ASSUME NEW k \in Sockets, SocketOpen(k) PROVE TypeOK'
  <2>1. open' \subseteq Sockets
    BY Zenon, <1>1 DEF SocketOpen, TypeOK
  <2> QED
    BY <1>1, <2>1, ZenonT(60) DEF SocketOpen, TypeOK, opVars, scopeVars
<1>2. ASSUME NEW k \in Sockets, SocketClosed(k) PROVE TypeOK'
  <2>1. open' \subseteq Sockets /\ base' \in [Sockets -> Bases]
    BY Zenon, <1>2, Empty DEF SocketClosed, TypeOK
  <2>2. binding' \in [Sockets -> Sessions \cup {None}]
    BY Zenon, <1>2 DEF SocketClosed, TypeOK
  <2>3. rec' \in [Ops -> Records]
    BY Zenon, <1>2, Trimmed DEF SocketClosed, TypeOK
  <2> QED
    BY <1>2, <2>1, <2>2, <2>3, ZenonT(60) DEF SocketClosed, TypeOK, opVars
<1>3. ASSUME NEW k \in Sockets, UNCHANGED <<opVars, scopeVars, env, room, handed>>,
             base' \in [Sockets -> Bases]
      PROVE  TypeOK'
  BY <1>3, ZenonT(60) DEF TypeOK, opVars, scopeVars, env
<1>4. ASSUME NEW k \in Sockets, NEW s \in Sessions, TrackBaseline(k, s) PROVE TypeOK'
  <2>1. base' \in [Sockets -> Bases]
    BY Zenon, <1>4 DEF TrackBaseline, TypeOK, Bases
  <2> QED
    BY Zenon, <1>3, <1>4, <2>1 DEF TrackBaseline
<1>5. ASSUME NEW k \in Sockets, NEW state \in {"empty", "cached", "busy"},
             RelayUses(k, state) \/ ReclaimComparison(k)
      PROVE  TypeOK'
  <2>1. \A x \in {"empty", "cached", "busy"} : [base[k] EXCEPT !.state = x] \in Bases
    BY Zenon DEF TypeOK, Bases
  <2>2. base' \in [Sockets -> Bases]
    BY Zenon, <1>5, <2>1 DEF RelayUses, ReclaimComparison, TypeOK
  <2> QED
    BY Zenon, <1>3, <1>5, <2>2 DEF RelayUses, ReclaimComparison
<1>6. ASSUME NEW s \in Sessions, NEW S \in SUBSET {s}, Idle(s, S) PROVE TypeOK'
  <2>1. idle' \subseteq Sessions
    BY Zenon, <1>6 DEF Idle, TypeOK
  <2>2. activity' \in [Sessions -> {"none", "seen", "stale"}]
    BY Zenon, <1>6 DEF Idle, TypeOK
  <2> QED
    BY <1>6, <2>1, <2>2, ZenonT(60) DEF Idle, TypeOK, opVars, env
<1> QED
  BY Zenon, <1>1, <1>2, <1>4, <1>5, <1>6 DEF Connection

\* What is published.
LEMMA KeyTypes ==
    ASSUME TypeOK, NEW o \in Ops, Operation(o), phase[o] \notin {"new"} \cup Over
    PROVE  /\ plan[o].session \in Sessions /\ plan[o].branch \in Branches
           /\ ~Prewarm(o) => Key(o) \in Keys
PROOF
<1>1. plan[o].branch \in Branches /\ plan[o].session \in Sessions
  BY Zenon DEF Operation, TypeOK, Plans
<1> QED
  BY Zenon, <1>1 DEF Prewarm, Key, Keys, Branches, TypeOK, Plans

LEMMA PublishTypes ==
    ASSUME TypeOK, NEW o \in Ops, Operation(o), phase[o] = "admitted", Publish(o), room' \in Rooms
    PROVE  TypeOK'
PROOF
<1>0. /\ OpTypes /\ plan[o].session \in Sessions /\ plan[o].socket \in Sockets \cup {None}
      /\ ~Prewarm(o) => Key(o) \in Keys
  BY Zenon, KeyTypes DEF TypeOK, OpTypes, Plans, Over
<1>1. phase' \in [Ops -> Phases] /\ fork' \in [Ops -> Tokens \cup {None}]
  BY Zenon, <1>0 DEF Publish, OpTypes, Phases, Active
<1>2. charge' \in [Ops -> Int]
  <2>1. Precharged(o) \in Int
    BY Constants DEF Precharged, RoutingCharge
  <2> QED
    BY <1>0, <2>1 DEF Publish, OpTypes
<1>3. routing' \in [Keys -> Tokens \cup {None}]
  <2>1. ~Prewarm(o) => TurnTokens(o) \subseteq Tokens \cup {None}
    BY <1>0 DEF TurnTokens, TypeOK, Adopting, Completed, StartupOf, Records
  <2> QED
    BY Zenon, <2>1 DEF Publish, TypeOK
<1>4. activity' \in [Sessions -> {"none", "seen", "stale"}]
  BY Zenon, <1>0 DEF Publish, TypeOK
<1>5. rec' \in [Ops -> Records]
  <2>1. \A r \in Ops : AdoptStartup(r, o) \in Records
    <3>1. SUFFICES ASSUME NEW r \in Ops PROVE AdoptStartup(r, o) \in Records
      BY Zenon
    <3>2. rec[r] \in Records
      BY Zenon DEF TypeOK
    <3>3. Compatible(r, o) => [rec[r] EXCEPT !.bound = Key(o), !.token = None] \in Records
      BY Zenon, <1>0, <3>2, Trimmed DEF Compatible
    <3> QED
      BY Zenon, <3>2, <3>3, Trimmed DEF AdoptStartup, DetachedStartup
  <2> QED
    BY Zenon, <2>1 DEF Publish, TypeOK
<1>6. handed' \in [Ops -> SUBSET Keys]
  BY Zenon, <1>0 DEF Publish, TypeOK, Adopting, Compatible
<1>7. binding' \in [Sockets -> Sessions \cup {None}]
  BY Zenon, <1>0 DEF Publish, TypeOK
<1>8. known' \subseteq Sessions /\ idle' \subseteq Sessions
  BY Zenon, <1>0 DEF Publish, TypeOK
<1> QED
  BY <1>1, <1>2, <1>3, <1>4, <1>5, <1>6, <1>7, <1>8, ZenonT(60) DEF Publish, TypeOK, env

LEMMA Committing ==
    ASSUME TypeOK, Call, NEW o \in Ops, Commit(o)
    PROVE  /\ phase[o] = "admitted" /\ Connected(o) /\ Publish(o) /\ room' = NoRoom
           /\ room.use \in {"none", "commit"}
PROOF
<1>1. CASE Free /\ phase[o] = "admitted" /\ Connected(o) /\ StartupOf(o) = {} /\ Publish(o) /\ UNCHANGED room
  BY Zenon, <1>1 DEF Free, NoRoom
<1>2. CASE Asking("commit") /\ room.op = o /\ Publish(o) /\ room' = NoRoom
  BY Zenon, <1>2 DEF Asking, Call, CallPhase
<1> QED
  BY Zenon, <1>1, <1>2 DEF Commit

LEMMA NextTypes ==
    ASSUME TypeOK, Call, \A p \in Ops : Operation(p), [Next]_vars
    PROVE  TypeOK'
PROOF
<1>1. ASSUME NEW o \in Ops, Commit(o) PROVE TypeOK'
  BY Zenon, <1>1, Committing, PublishTypes, Empty
<1>2. CASE UNCHANGED vars
  BY <1>2, ZenonT(60) DEF vars, opVars, scopeVars, env, TypeOK
<1>3. CASE RoomStep
  <2>1. \A use \in {"full", "admit", "commit"} : use \in Uses \ {"none"}
    BY Zenon DEF Uses
  <2>2. RefusePlan => \E use \in Uses \ {"none"} : Refuse(use)
    BY Zenon DEF Uses, RefusePlan
  <2> QED
    BY <1>1, <1>3, <2>1, <2>2, CallTypes, ReleasingTypes, RecordingTypes, ExpiringTypes, SocketTypes, ZenonT(60)
       DEF RoomStep
<1>4. ASSUME NEW o \in Ops, Request(o) PROVE TypeOK'
  BY <1>4, ReleasingTypes, AskingTypes, RecordingTypes, ExpiringTypes, ZenonT(60) DEF Request
<1> QED
  BY <1>2, <1>3, <1>4, SocketTypes, ExpiringTypes, ZenonT(60) DEF Next

-----------------------------------------------------------------------------
(* Calls of make_room.                                                      *)

\* A step after which no call is in progress.
LEMMA CallEnds ==
    ASSUME TypeOK, Call, room' = NoRoom,
           \A o \in Ops : phase'[o] = phase[o] \/ phase'[o] \notin Calling,
           room.op \in Ops => phase'[room.op] \notin Calling
    PROVE  Call'
PROOF
<1>1. \A o \in Ops : phase'[o] \notin Calling
  BY Zenon DEF Call
<1>2. room'.use = "none"
  BY Zenon DEF NoRoom
<1> QED
  BY Zenon, <1>1, <1>2 DEF Call

\* A step that begins one.
LEMMA CallBegins ==
    ASSUME TypeOK, Call, Free, NEW o \in Ops, NEW use \in Uses \ {"none"}, room'.use = use, room'.op = o,
           \A p \in Ops \ {o} : phase'[p] = phase[p], phase'[o] = CallPhase(use),
           use # "late" => Connected(o)',
           use = "full" => ~plan'[o].expanded,
           use = "startup" => plan'[o].token = None /\ room'.token # None,
           use = "learn" => ~Prewarm(o)' /\ routing'[Key(o)'] = None,
           use = "late" =>
               /\ rec'[o].startup /\ rec'[o].socket # None
               /\ rec'[o].bound # None => routing'[rec'[o].bound] = None
    PROVE  Call'
PROOF
<1>1. \A p \in Ops : phase[p] \notin Calling
  BY Zenon DEF Call, Free, NoRoom
<1>2. \A p \in Ops : phase'[p] \in Calling => p = o
  BY Zenon, <1>1
<1>3. (~Prewarm(room.op))' <=> (~Prewarm(o))'
  BY Zenon DEF Prewarm
<1>4. Key(room.op)' = Key(o)' /\ (Connected(room.op)' <=> Connected(o)')
  BY Zenon DEF Key, Connected
<1> QED
  BY <1>2, <1>3, <1>4, ZenonT(60) DEF Call

\* A step inside one forgets at most what its caller does not rely on.
LEMMA CallStays ==
    ASSUME TypeOK, Call, UNCHANGED <<phase, plan, open>>,
           room'.op = room.op, room'.token = room.token,
           \/ room' = room
           \/ room.use = "admit" /\ room'.use = "records",
           \A k \in Keys : routing'[k] \in {routing[k], None},
           room.use = "late" =>
               /\ rec'[room.op].startup = rec[room.op].startup
               /\ rec'[room.op].socket = rec[room.op].socket
               /\ rec'[room.op].bound = rec[room.op].bound,
           \A o \in Ops : Operation(o)
    PROVE  Call'
PROOF
<1>1. room.use = "learn" => Key(room.op) \in Keys
  BY Zenon, KeyTypes DEF Call, CallPhase, Over
<1>2. room.use = "late" => rec[room.op].bound \in Keys \cup {None}
  BY Zenon DEF Call, TypeOK, Records
<1>3. Key(room.op)' = Key(room.op) /\ (Prewarm(room.op)' <=> Prewarm(room.op))
      /\ (Connected(room.op)' <=> Connected(room.op))
  BY Zenon DEF Key, Prewarm, Connected
<1>4. CASE room' = room
  <2>1. room.use = "learn" => routing'[Key(room.op)] = None
    BY Zenon, <1>1 DEF Call
  <2>2. room.use = "late" => (rec[room.op].bound # None => routing'[rec[room.op].bound] = None)
    BY Zenon, <1>2 DEF Call
  <2> QED
    BY <1>3, <1>4, <2>1, <2>2, ZenonT(60) DEF Call, CallPhase
<1>5. CASE room.use = "admit" /\ room'.use = "records"
  BY Zenon, <1>3, <1>5 DEF Call, CallPhase
<1> QED
  BY Zenon, <1>4, <1>5

LEMMA Idling ==
    ASSUME TypeOK, Call, Free
    PROVE  room.use = "none" /\ room.op \notin Ops /\ \A o \in Ops : phase[o] \notin Calling
PROOF
  BY Zenon, Constants DEF Call, Free, NoRoom

\* The caller of a call that ends leaves the phases in which it calls, if it was in one.
LEMMA EndedCall ==
    ASSUME TypeOK, Call,
           \/ Planned \/ FullInput \/ RefuseSurplus \/ Admitted \/ ItemKept \/ ItemDropped
           \/ \E use \in Uses \ {"none"} : Refuse(use)
           \/ CompleteWith \/ CompleteWithout \/ LearnTurn \/ LearnStartup \/ LearnLate \/ NotLearned
           \/ \E o \in Ops : Commit(o)
    PROVE  Call'
PROOF
<1>1. CASE Planned
  <2>1. room.op \in Ops
    BY Zenon, <1>1 DEF Planned, Asking, Call
  <2> QED
    BY Zenon, <1>1, <2>1, CallEnds DEF Planned, Calling, TypeOK
<1>2. CASE FullInput
  BY Zenon, <1>2, CallEnds DEF FullInput, Asking, Call, CallPhase, Calling
<1>3. CASE RefuseSurplus \/ \E use \in Uses \ {"none"} : Refuse(use)
  <2>1. room.op \in Ops /\ Release(room.op) /\ room' = NoRoom
    BY Zenon, <1>3 DEF RefuseSurplus, Refuse, Denied, Call
  <2> QED
    BY Zenon, <2>1, CallEnds DEF Release, Calling, TypeOK
<1>4. CASE Admitted
  <2>1. room.op \in Ops
    BY Zenon, <1>4 DEF Admitted, Call
  <2> QED
    BY Zenon, <1>4, <2>1, CallEnds DEF Admitted, Calling, TypeOK
<1>5. CASE ItemKept \/ LearnTurn \/ LearnStartup \/ LearnLate \/ NotLearned
  <2>1. phase' = phase /\ room' = NoRoom /\ room.use \in {"item", "learn", "startup", "late"}
    BY Zenon, <1>5 DEF ItemKept, LearnTurn, LearnStartup, LearnLate, NotLearned, Asking, Denied, opVars
  <2> QED
    BY Zenon, <2>1, CallEnds DEF Call, CallPhase, Calling
<1>6. CASE ItemDropped
  <2>1. CASE Denied("item") /\ DropOutput(room.op) /\ room' = NoRoom
    BY Zenon, <2>1, CallEnds DEF Denied, DropOutput, Call, CallPhase, Calling
  <2>2. CASE \E o \in Ops : Observing(o) /\ ~available[o] /\ DropOutput(o) /\ UNCHANGED room
    BY Zenon, <2>2, CallEnds, Idling DEF Observing, DropOutput, Free
  <2> QED
    BY Zenon, <1>6, <2>1, <2>2 DEF ItemDropped
<1>7. CASE CompleteWith \/ CompleteWithout
  <2>1. room.op \in Ops /\ End(room.op) /\ room' = NoRoom
    BY Zenon, <1>7 DEF CompleteWith, CompleteWithout, Complete, Asking, Denied, Call
  <2> QED
    BY Zenon, <2>1, CallEnds DEF End, Calling, TypeOK
<1>8. ASSUME NEW o \in Ops, Commit(o) PROVE Call'
  <2>1. room' = NoRoom /\ phase' = [phase EXCEPT ![o] = "committed"] /\ room.use \in {"none", "commit"}
    BY Zenon, <1>8, Committing DEF Publish
  <2>2. room.op \in Ops => phase[room.op] \notin Calling
    BY Zenon, <2>1, Constants DEF Call, CallPhase, Calling, NoRoom
  <2> QED
    BY Zenon, <2>1, <2>2, CallEnds DEF Calling, TypeOK
<1> QED
  BY Zenon, <1>1, <1>2, <1>3, <1>4, <1>5, <1>6, <1>7, <1>8

LEMMA NoCall ==
    ASSUME TypeOK, Call,
           \/ \E o \in Ops : Created(o) \/ Fail(o) \/ DetachSseFailure(o) \/ DropLease(o) \/ AdmitConflict(o)
           \/ \E k \in Sockets : SocketOpen(k) \/ SocketClosed(k) \/ \E s \in Sessions : TrackBaseline(k, s)
           \/ EnforceBaselines \/ Sweep
           \/ \E s \in Sessions : \E S \in SUBSET {s} : Idle(s, S)
    PROVE  Call'
PROOF
<1>1. Free /\ room' = room
  BY ZenonT(60) DEF Created, Fail, DetachSseFailure, DropLease, AdmitConflict, SocketOpen, SocketClosed,
         TrackBaseline, EnforceBaselines, Sweep, Idle, Observing
<1>2. phase' = phase \/ \E o \in Ops, p \in {"ended", "tail", "dropped"} : phase' = [phase EXCEPT ![o] = p]
  <2>1. ASSUME NEW o \in Ops, Fail(o) \/ DetachSseFailure(o) \/ DropLease(o) \/ AdmitConflict(o)
        PROVE  \E p \in {"ended", "tail", "dropped"} : phase' = [phase EXCEPT ![o] = p]
    BY Zenon, <2>1 DEF Fail, DetachSseFailure, DropLease, AdmitConflict, Release, End
  <2>2. ASSUME \/ \E o \in Ops : Created(o)
               \/ \E k \in Sockets : SocketOpen(k) \/ SocketClosed(k) \/ \E s \in Sessions : TrackBaseline(k, s)
               \/ EnforceBaselines \/ Sweep
               \/ \E s \in Sessions : \E S \in SUBSET {s} : Idle(s, S)
        PROVE  phase' = phase
    BY <2>2, ZenonT(60) DEF Created, SocketOpen, SocketClosed, TrackBaseline, EnforceBaselines, Sweep, Idle, opVars
  <2> QED
    BY <2>1, <2>2, ZenonT(60)
<1>3. \A o \in Ops : phase'[o] = phase[o] \/ phase'[o] \notin Calling
  BY Zenon, <1>2 DEF Calling, TypeOK
<1> QED
  BY Zenon, <1>1, <1>3, Idling, CallEnds DEF Free

LEMMA BegunCall ==
    ASSUME TypeOK, Call, NEW o \in Ops,
           \/ \E q \in world.requests : BeginPlan(o, q)
           \/ BeginFullInput(o) \/ BeginAdmit(o) \/ BeginCommit(o) \/ BeginItem(o) \/ BeginComplete(o)
           \/ \E t \in world.tokens : BeginLearn(o, t) \/ BeginLearnStartup(o, t) \/ BeginLearnLate(o, t)
    PROVE  Call'
PROOF
<1>0. /\ world.tokens \subseteq Tokens /\ None \notin Tokens
      /\ \A use \in {"plan", "full", "admit", "commit", "item", "publish", "bare", "learn", "startup", "late"} :
            use \in Uses \ {"none"}
  BY Zenon, Constants DEF TypeOK, World, Uses
<1>1. ASSUME NEW q \in world.requests, BeginPlan(o, q) PROVE Call'
  <2>1. Free /\ room'.use = "plan" /\ room'.op = o /\ phase' = [phase EXCEPT ![o] = "planning"]
    BY ZenonT(60), <1>1 DEF BeginPlan, Ask
  <2>2. plan'[o].socket = q.socket /\ open' = open
    BY <1>1 DEF BeginPlan, TypeOK, env
  <2>3. Connected(o)'
    BY Zenon, <1>1, <2>2 DEF BeginPlan, Connected
  <2>4. phase'[o] = "planning" /\ \A p \in Ops \ {o} : phase'[p] = phase[p]
    BY Zenon, <2>1 DEF TypeOK
  <2> QED
    BY Zenon, <1>0, <2>1, <2>3, <2>4, CallBegins DEF CallPhase
<1>2. CASE BeginFullInput(o) \/ BeginCommit(o) \/ BeginItem(o)
  <2>1. /\ Free /\ room'.op = o /\ phase' = phase /\ plan' = plan /\ open' = open /\ Connected(o)
        /\ room'.use \in {"full", "commit", "item"} /\ phase[o] = CallPhase(room'.use)
        /\ room'.use = "full" => ~plan[o].expanded
    BY <1>2 DEF BeginFullInput, BeginCommit, BeginItem, Observing, Ask, CallPhase, opVars, env
  <2>2. Connected(o)'
    BY Zenon, <2>1 DEF Connected
  <2> QED
    BY ZenonT(60), <1>0, <2>1, <2>2, CallBegins
<1>3. CASE BeginAdmit(o)
  <2>1. Free /\ room'.use = "admit" /\ room'.op = o /\ phase' = [phase EXCEPT ![o] = "admitting"] /\ Connected(o)
    BY Zenon, <1>3 DEF BeginAdmit, Ask
  <2>2. plan'[o].socket = plan[o].socket /\ open' = open
    BY <1>3 DEF BeginAdmit, TypeOK, env, Plans
  <2>3. Connected(o)'
    BY Zenon, <2>1, <2>2 DEF Connected
  <2>4. phase'[o] = "admitting" /\ \A p \in Ops \ {o} : phase'[p] = phase[p]
    BY Zenon, <2>1 DEF TypeOK
  <2> QED
    BY ZenonT(60), <1>0, <2>1, <2>3, <2>4, CallBegins DEF CallPhase
<1>4. CASE BeginComplete(o)
  <2>1. /\ Free /\ room'.use \in {"publish", "bare"} /\ room'.op = o
        /\ phase' = [phase EXCEPT ![o] = "publishing"] /\ Connected(o) /\ plan' = plan /\ open' = open
    BY Zenon, <1>4 DEF BeginComplete, Ask, Observing, env
  <2>2. Connected(o)'
    BY Zenon, <2>1 DEF Connected
  <2>3. phase'[o] = "publishing" /\ \A p \in Ops \ {o} : phase'[p] = phase[p]
    BY Zenon, <2>1 DEF TypeOK
  <2> QED
    BY Zenon, <1>0, <2>1, <2>2, <2>3, CallBegins DEF CallPhase
<1>5. ASSUME NEW t \in world.tokens, BeginLearn(o, t) \/ BeginLearnStartup(o, t) PROVE Call'
  <2>1. /\ Free /\ room'.op = o /\ phase' = phase /\ plan' = plan /\ open' = open /\ Connected(o)
        /\ room'.use \in {"learn", "startup"} /\ phase[o] = CallPhase(room'.use)
        /\ room'.use = "startup" => plan[o].token = None /\ room'.token # None
        /\ room'.use = "learn" => ~Prewarm(o) /\ routing[Key(o)] = None
        /\ routing' = routing
    <3>1. CASE BeginLearn(o, t)
      BY Zenon, <3>1 DEF BeginLearn, Observing, Ask, CallPhase, opVars, scopeVars, env
    <3>2. CASE BeginLearnStartup(o, t)
      BY Zenon, <1>0, <3>2 DEF BeginLearnStartup, Observing, Ask, CallPhase, opVars, scopeVars, env
    <3> QED
      BY Zenon, <1>5, <3>1, <3>2
  <2>2. Connected(o)' /\ Key(o)' = Key(o) /\ (Prewarm(o)' <=> Prewarm(o))
    BY Zenon, <2>1 DEF Connected, Key, Prewarm
  <2> QED
    BY Zenon, <1>0, <2>1, <2>2, CallBegins
<1>6. ASSUME NEW t \in world.tokens, BeginLearnLate(o, t) PROVE Call'
  <2>1. /\ Free /\ room'.op = o /\ phase' = phase /\ rec' = rec /\ routing' = routing
        /\ room'.use = "late" /\ phase[o] = "ended" /\ rec[o].startup /\ rec[o].socket \in open
        /\ rec[o].bound # None => routing[rec[o].bound] = None
    BY Zenon, <1>6 DEF BeginLearnLate, Ask, opVars, scopeVars
  <2>2. rec[o].socket # None
    BY <2>1, Constants DEF TypeOK
  <2> QED
    BY Zenon, <1>0, <2>1, <2>2, CallBegins DEF CallPhase
<1> QED
  BY Zenon, <1>1, <1>2, <1>3, <1>4, <1>5, <1>6

LEMMA PruneForgets ==
    ASSUME TypeOK, NEW C, NEW left, PruneMetadata(C, left)
    PROVE  known' \subseteq known /\ \A k \in Keys : routing'[k] \in {routing[k], None}
PROOF
  BY Zenon DEF PruneMetadata, KeptSessions, KeptRouting

LEMMA CallGoesOn ==
    ASSUME TypeOK, Call, \A o \in Ops : Operation(o),
           \/ \E o \in Ops : EvictHistory(o) \/ EvictRecord(o) \/ EvictSurplus(o)
           \/ \E k \in Sockets : ReclaimComparison(k) \/ \E s \in {"empty", "cached", "busy"} : RelayUses(k, s)
           \/ \E s \in Sessions : EvictUnreferencedSession(s)
           \/ PlanRemotely \/ Room
    PROVE  Call'
PROOF
<1>1. ASSUME NEW o \in Ops, EvictHistory(o) PROVE Call'
  <2>1. UNCHANGED <<phase, plan, open, room, routing>> /\ rec' = [rec EXCEPT ![o].history = 0]
    BY Zenon, <1>1 DEF EvictHistory, opVars, env
  <2>2. \A p \in Ops : /\ rec'[p].startup = rec[p].startup /\ rec'[p].socket = rec[p].socket
                       /\ rec'[p].bound = rec[p].bound
    BY <2>1 DEF TypeOK, Records
  <2>3. room.use = "late" => room.op \in Ops
    BY Zenon DEF Call
  <2> QED
    BY Zenon, <2>1, <2>2, <2>3, CallStays
<1>2. ASSUME NEW o \in Ops, EvictRecord(o) \/ EvictSurplus(o) PROVE Call'
  <2>1. /\ UNCHANGED <<phase, plan, open, room>> /\ rec' = [rec EXCEPT ![o] = NoRecord]
        /\ \A k \in Keys : routing'[k] \in {routing[k], None}
        /\ room.use = "late" => rec[o].socket = None
    BY Zenon, <1>2, PruneForgets DEF EvictRecord, EvictSurplus, StaleRecords, opVars, env
  <2>2. room.use = "late" => room.op \in Ops /\ room.op # o
    BY Zenon, <2>1 DEF Call
  <2>3. \A p \in Ops \ {o} : rec'[p] = rec[p]
    BY Zenon, <2>1 DEF TypeOK
  <2> QED
    BY Zenon, <2>1, <2>2, <2>3, CallStays
<1>3. ASSUME NEW k \in Sockets, ReclaimComparison(k) \/ \E s \in {"empty", "cached", "busy"} : RelayUses(k, s)
      PROVE  Call'
  <2>1. UNCHANGED <<phase, plan, open, room, routing, rec>>
    BY <1>3, ZenonT(60) DEF ReclaimComparison, RelayUses, opVars, scopeVars, env
  <2> QED
    BY Zenon, <2>1, CallStays
<1>4. ASSUME NEW s \in Sessions, EvictUnreferencedSession(s) PROVE Call'
  <2>1. UNCHANGED <<phase, plan, open, room, rec>> /\ \A k \in Keys : routing'[k] \in {routing[k], None}
    BY Zenon, <1>4 DEF EvictUnreferencedSession, opVars, env
  <2> QED
    BY Zenon, <2>1, CallStays
<1>5. CASE PlanRemotely
  <2>1. room.op \in Ops /\ room.use = "plan" /\ phase[room.op] = "planning" /\ Connected(room.op)
    BY Zenon, <1>5 DEF PlanRemotely, Denied, Call, CallPhase
  <2>2. room' = room /\ phase' = phase /\ open' = open /\ plan'[room.op].socket = plan[room.op].socket
    BY <1>5, <2>1 DEF PlanRemotely, TypeOK, Plans, env
  <2> QED
    BY Zenon, <2>1, <2>2 DEF Call, CallPhase, Connected
<1>6. CASE Room
  <2>1. UNCHANGED <<phase, plan, open, rec, routing>> /\ room.use = "admit" /\ room' = [room EXCEPT !.use = "records"]
    BY Zenon, <1>6 DEF Room, Asking, opVars, scopeVars, env
  <2>2. room'.use = "records" /\ room'.op = room.op /\ room'.token = room.token
    BY Zenon, <2>1 DEF TypeOK, Rooms
  <2> QED
    BY Zenon, <2>1, <2>2, CallStays
<1> QED
  BY Zenon, <1>1, <1>2, <1>3, <1>4, <1>5, <1>6

LEMMA NextCall ==
    ASSUME TypeOK, Call, \A o \in Ops : Operation(o), [Next]_vars
    PROVE  Call'
PROOF
<1>1. CASE UNCHANGED vars
  BY <1>1, ZenonT(60) DEF vars, opVars, scopeVars, env, Call, Connected, Prewarm, Key, CallPhase
<1>2. CASE RoomStep
  <2>1. \A use \in {"full", "admit", "commit"} : use \in Uses \ {"none"}
    BY Zenon DEF Uses
  <2>2. RefusePlan => \E use \in Uses \ {"none"} : Refuse(use)
    BY Zenon DEF Uses, RefusePlan
  <2> QED
    BY <1>2, <2>1, <2>2, EndedCall, CallGoesOn, ZenonT(60) DEF RoomStep
<1>3. ASSUME NEW o \in Ops, Request(o) PROVE Call'
  BY <1>3, BegunCall, NoCall, ZenonT(60) DEF Request
<1>4. ASSUME NEW k \in Sockets, Connection(k) PROVE Call'
  BY <1>4, NoCall, CallGoesOn, ZenonT(60) DEF Connection
<1> QED
  BY <1>1, <1>2, <1>3, <1>4, NoCall, ZenonT(60) DEF Next

-----------------------------------------------------------------------------
(* What expiry and eviction leave alone.                                    *)

LEMMA PrunePinned ==
    ASSUME TypeOK, NEW C, C \subseteq QuietScopes, NEW left, PruneMetadata(C, left),
           NEW s \in Sessions, Pinned(s)
    PROVE  /\ s \in known => s \in known'
           /\ \A k \in Keys : KeySession(k) = s => routing'[k] = routing[k]
PROOF
<1>1. ScopeOf[s] \notin C
  BY Zenon DEF QuietScopes, PinnedScope, Pinned
<1> QED
  BY Zenon, <1>1 DEF PruneMetadata, KeptSessions, KeptRouting

LEMMA PinnedStays ==
    ASSUME TypeOK, NEW s \in Sessions, Pinned(s),
           \/ ExpireScopes \/ \E o \in Ops : EvictRecord(o)
           \/ \E t \in Sessions : EvictUnreferencedSession(t)
    PROVE  /\ s \in known => s \in known'
           /\ \A k \in Keys : KeySession(k) = s => routing'[k] = routing[k]
           /\ \A p \in Ops : rec[p].session = s => rec'[p] = rec[p]
PROOF
<1>1. CASE ExpireScopes
  <2>1. s \notin Expired
    BY Zenon DEF Expired
  <2>2. \A p \in Ops : rec[p].session = s => rec'[p] = rec[p]
    BY Zenon, <1>1, <2>1 DEF ExpireScopes, ExpiredRecord
  <2>3. PruneMetadata(QuietScopes, rec')
    BY Zenon, <1>1 DEF ExpireScopes
  <2> QED
    BY Zenon, <2>2, <2>3, PrunePinned
<1>2. ASSUME NEW o \in Ops, EvictRecord(o)
      PROVE  /\ s \in known => s \in known'
             /\ \A k \in Keys : KeySession(k) = s => routing'[k] = routing[k]
             /\ \A p \in Ops : rec[p].session = s => rec'[p] = rec[p]
  <2>1. rec[o].session # s /\ rec' = [rec EXCEPT ![o] = NoRecord]
    BY Zenon, <1>2 DEF EvictRecord, StaleRecords
  <2>2. \A p \in Ops : rec[p].session = s => rec'[p] = rec[p]
    BY Zenon, <2>1 DEF TypeOK
  <2>3. PruneMetadata({ScopeOf[rec[o].session]} \cap QuietScopes, rec')
    BY Zenon, <1>2 DEF EvictRecord
  <2> QED
    BY Zenon, <2>2, <2>3, PrunePinned
<1>3. ASSUME NEW t \in Sessions, EvictUnreferencedSession(t)
      PROVE  /\ s \in known => s \in known'
             /\ \A k \in Keys : KeySession(k) = s => routing'[k] = routing[k]
             /\ \A p \in Ops : rec[p].session = s => rec'[p] = rec[p]
  BY Zenon, <1>3 DEF EvictUnreferencedSession, Unreferenced
<1> QED
  BY Zenon, <1>1, <1>2, <1>3

\* A session whose operation is at work stays known.
LEMMA KnownStays ==
    ASSUME TypeOK, Call, \A p \in Ops : Operation(p), [Next]_vars, NEW o \in Ops, Working(o),
           plan[o].session \in known
    PROVE  plan[o].session \in known'
PROOF
<1>1. plan[o].session \in Sessions /\ Pinned(plan[o].session)
  BY Zenon DEF TypeOK, Pinned
<1>2. CASE \/ ExpireScopes \/ \E p \in Ops : EvictRecord(p)
           \/ \E t \in Sessions : EvictUnreferencedSession(t)
  BY Zenon, <1>1, <1>2, PinnedStays
<1>3. ASSUME NEW p \in Ops, Commit(p) PROVE plan[o].session \in known'
  BY Zenon, <1>3, Committing DEF Publish
<1>4. CASE known' = known
  BY Zenon, <1>4
<1>5. \/ ExpireScopes \/ (\E p \in Ops : EvictRecord(p) \/ Commit(p))
      \/ (\E t \in Sessions : EvictUnreferencedSession(t)) \/ known' = known
  <2>1. CASE UNCHANGED vars
    BY <2>1, ZenonT(60) DEF vars, scopeVars
  <2>2. CASE RoomStep
    BY <2>2, ZenonT(60)
       DEF RoomStep, EvictHistory, EvictSurplus, ReclaimComparison, Planned, PlanRemotely, RefusePlan, Refuse,
           FullInput, Room, RefuseSurplus, Admitted, ItemKept, ItemDropped, DropOutput, CompleteWith,
           CompleteWithout, Complete, LearnTurn, LearnStartup, LearnLate, NotLearned, scopeVars
  <2>3. ASSUME NEW p \in Ops, Request(p) PROVE ExpireScopes \/ known' = known
    BY <2>3, ZenonT(60)
       DEF Request, BeginPlan, BeginFullInput, AdmitConflict, BeginAdmit, Expire, BeginCommit, Created, BeginItem, Fail,
           BeginComplete, DetachSseFailure, DropLease, BeginLearn, BeginLearnStartup, BeginLearnLate, scopeVars
  <2>4. ASSUME NEW k \in Sockets, Connection(k) PROVE known' = known
    BY <2>4, ZenonT(60) DEF Connection, SocketOpen, SocketClosed, TrackBaseline, RelayUses, scopeVars
  <2>5. CASE EnforceBaselines \/ Sweep \/ \E t \in Sessions : \E S \in SUBSET {t} : Idle(t, S)
    BY <2>5, ZenonT(60) DEF EnforceBaselines, Sweep, Idle, Expire
  <2> QED
    BY <2>1, <2>2, <2>3, <2>4, <2>5, ZenonT(60) DEF Next
<1> QED
  BY <1>2, <1>3, <1>4, <1>5, ZenonT(60)
-----------------------------------------------------------------------------
(* Operations.                                                              *)

LEMMA OperationStays ==
    ASSUME NEW o \in Ops, Operation(o), phase'[o] = phase[o], plan'[o] = plan[o], charge'[o] = charge[o],
           buffer'[o] = buffer[o], fork'[o] = fork[o],
           phase[o] \in Visible /\ plan[o].session \in known => plan[o].session \in known'
    PROVE  Operation(o)'
PROOF
<1>1. (Held(o)' = Held(o)) /\ (Working(o)' <=> Working(o))
  BY Zenon DEF Held, Working
<1> QED
  BY <1>1, ZenonT(60) DEF Operation

LEMMA OneOperates ==
    ASSUME \A p \in Ops : Operation(p), NEW o \in Ops, Operation(o)',
           \A p \in Ops \ {o} :
              /\ phase'[p] = phase[p] /\ plan'[p] = plan[p] /\ charge'[p] = charge[p]
              /\ buffer'[p] = buffer[p] /\ fork'[p] = fork[p]
              /\ phase[p] \in Visible /\ plan[p].session \in known => plan[p].session \in known'
    PROVE  \A p \in Ops : Operation(p)'
PROOF
  BY Zenon, OperationStays

\* An operation that is over has nothing.
LEMMA OperationOver ==
    ASSUME NEW o \in Ops, phase'[o] \in Over, plan'[o] = NoPlan, charge'[o] = 0, buffer'[o] = 0, fork'[o] = None
    PROVE  Operation(o)'
PROOF
<1>1. NoPlan.token = None
  BY Zenon DEF NoPlan
<1> QED
  BY Zenon, <1>1 DEF Operation, Over, Working, Reserved, Active, Visible

\* Nothing that a visible operation needs is forgotten.
KnownKept == \A p \in Ops : phase[p] \in Visible /\ plan[p].session \in known => plan[p].session \in known'

LEMMA OverOperates ==
    ASSUME TypeOK, \A p \in Ops : Operation(p), KnownKept, NEW o \in Ops,
           Release(o) \/ (End(o) /\ phase[o] \in Visible)
    PROVE  \A p \in Ops : Operation(p)'
PROOF
<1>1. phase'[o] \in Over /\ plan'[o] = NoPlan /\ charge'[o] = 0 /\ buffer'[o] = 0
  BY ZenonT(60) DEF Release, End, TypeOK, Over
<1>2. fork'[o] = None
  BY Zenon DEF Release, End, TypeOK, Operation, Visible
<1>3. \A p \in Ops \ {o} :
         /\ phase'[p] = phase[p] /\ plan'[p] = plan[p] /\ charge'[p] = charge[p]
         /\ buffer'[p] = buffer[p] /\ fork'[p] = fork[p]
  BY Zenon DEF Release, End, TypeOK
<1>4. Operation(o)'
  BY Zenon, <1>1, <1>2, OperationOver
<1> QED
  BY Zenon, <1>3, <1>4, OneOperates DEF KnownKept

\* Steps that leave the operations alone.
LEMMA SameOperations ==
    ASSUME \A p \in Ops : Operation(p), KnownKept, opVars' = opVars
    PROVE  \A p \in Ops : Operation(p)'
PROOF
<1>1. phase' = phase /\ plan' = plan /\ charge' = charge /\ buffer' = buffer /\ fork' = fork
  BY Zenon DEF opVars
<1> QED
  BY Zenon, <1>1, OperationStays DEF KnownKept

\* Planning.
LEMMA PlanOperates ==
    ASSUME TypeOK, Call, \A p \in Ops : Operation(p) /\ Record(p), KnownKept,
           \/ Planned \/ PlanRemotely \/ FullInput
           \/ \E o \in Ops, q \in world.requests : BeginPlan(o, q)
    PROVE  \A p \in Ops : Operation(p)'
PROOF
<1>0. Input \in Nat /\ Expansion \in Nat /\ Token \in Nat /\ Item \in Nat /\ Thread \in Nat /\ Route \in Nat
  BY Zenon, Constants
<1>1. CASE Planned
  <2>1. PICK o \in Ops : o = room.op
    BY Zenon, <1>1 DEF Planned, Asking, Call
  <2>2. phase[o] = "planning"
    BY Zenon, <1>1, <2>1 DEF Planned, Asking, Call, CallPhase
  <2>3. /\ phase'[o] = "planned" /\ charge'[o] = Input /\ plan'[o] = plan[o] /\ buffer'[o] = buffer[o]
        /\ fork'[o] = fork[o]
    BY Zenon, <1>1, <2>1 DEF Planned, TypeOK
  <2>4. \A p \in Ops \ {o} : phase'[p] = phase[p] /\ charge'[p] = charge[p]
    BY Zenon, <1>1, <2>1 DEF Planned, TypeOK
  <2>5. ~plan[o].expanded /\ buffer[o] = 0 /\ plan[o].token = None /\ fork[o] = None
        /\ plan[o].session # None /\ plan[o].branch # None
    BY ZenonT(60), <2>2 DEF Operation, Visible, Over
  <2>6. Held(o)' = Input
    BY <1>0, <2>3, <2>5 DEF Held
  <2>7. Operation(o)'
    BY Zenon, <2>3, <2>5, <2>6 DEF Operation, Visible, Over, Working, Reserved
  <2> QED
    BY Zenon, <1>1, <2>4, <2>7, OneOperates DEF Planned, KnownKept
<1>2. CASE PlanRemotely
  <2>1. PICK o \in Ops : o = room.op
    BY Zenon, <1>2 DEF PlanRemotely, Denied, Call
  <2>2. phase[o] = "planning"
    BY ZenonT(60), <1>2, <2>1 DEF PlanRemotely, Denied, Call, CallPhase
  <2>3. /\ plan'[o].session = plan[o].session /\ plan'[o].branch = plan[o].branch
        /\ plan'[o].token = plan[o].token /\ plan'[o].expanded = plan[o].expanded
    BY <1>2, <2>1 DEF PlanRemotely, TypeOK, Plans
  <2>4. \A p \in Ops \ {o} : plan'[p] = plan[p]
    BY Zenon, <1>2, <2>1 DEF PlanRemotely, TypeOK
  <2>5. phase' = phase /\ charge' = charge /\ buffer' = buffer /\ fork' = fork
    BY Zenon, <1>2 DEF PlanRemotely
  <2>6. Operation(o)'
    BY Zenon, <2>2, <2>3, <2>5 DEF Operation, Visible, Over, Working, Reserved, Active
  <2> QED
    BY Zenon, <2>4, <2>5, <2>6, OneOperates DEF KnownKept
<1>3. CASE FullInput
  <2>1. PICK o \in Ops : o = room.op
    BY Zenon, <1>3 DEF FullInput, Asking, Call
  <2>2. phase[o] = "planned" /\ ~plan[o].expanded
    BY Zenon, <1>3, <2>1 DEF FullInput, Asking, Call, CallPhase
  <2>3. /\ plan'[o].session = plan[o].session /\ plan'[o].branch = plan[o].branch
        /\ plan'[o].token = plan[o].token /\ plan'[o].expanded = TRUE /\ charge'[o] = charge[o] + Expansion
    BY <1>3, <2>1 DEF FullInput, TypeOK, Plans
  <2>4. \A p \in Ops \ {o} : plan'[p] = plan[p] /\ charge'[p] = charge[p]
    BY Zenon, <1>3, <2>1 DEF FullInput, TypeOK
  <2>5. phase' = phase /\ buffer' = buffer /\ fork' = fork
    BY Zenon, <1>3 DEF FullInput
  <2>6. charge[o] = Held(o) /\ buffer[o] = 0 /\ plan[o].token = None /\ fork[o] = None
        /\ plan[o].session # None /\ plan[o].branch # None
    BY Zenon, <2>2 DEF Operation, Visible, Over, Working, Reserved
  <2>7. Held(o)' = Held(o) + Expansion
    BY SMTT(60), <1>0, <2>2, <2>3, <2>5, <2>6 DEF Held
  <2>8. Operation(o)'
    BY <2>2, <2>3, <2>5, <2>6, <2>7 DEF Operation, Visible, Over, Working, Reserved
  <2> QED
    BY Zenon, <2>4, <2>5, <2>8, OneOperates DEF KnownKept
<1>4. ASSUME NEW o \in Ops, NEW q \in world.requests, BeginPlan(o, q) PROVE \A p \in Ops : Operation(p)'
  <2>1. q \in Requests /\ q.session \in Sessions /\ q.session # None
    BY Constants DEF TypeOK, World, Requests
  <2>2. PICK b \in {Anew(q.session)} \cup Deltas(q.session, q.socket) \cup Matches(q.session, o) :
          plan' = [plan EXCEPT ![o] =
                    [session |-> q.session, socket |-> q.socket, turn |-> q.turn, branch |-> b.branch,
                     remote |-> b.remote, parent |-> b.parent, expanded |-> FALSE, token |-> None]]
    BY Zenon, <1>4 DEF BeginPlan
  <2>3. b.branch # None
    <3>1. \A r \in Baselines(q.session) : rec[r].branch # None
      BY Zenon, <2>1 DEF Baselines, Record, Present
    <3> QED
      BY <2>1, <3>1, Constants, PlanOptions
  <2>4. /\ plan'[o].session = q.session /\ plan'[o].branch = b.branch /\ plan'[o].token = None
        /\ plan'[o].expanded = FALSE
    BY ZenonT(60), <2>2 DEF TypeOK
  <2>5. \A p \in Ops \ {o} : plan'[p] = plan[p] /\ phase'[p] = phase[p]
    BY ZenonT(60), <1>4, <2>2 DEF BeginPlan, TypeOK
  <2>6. charge' = charge /\ buffer' = buffer /\ fork' = fork /\ phase'[o] = "planning"
    BY Zenon, <1>4 DEF BeginPlan, TypeOK
  <2>7. charge[o] = 0 /\ buffer[o] = 0 /\ fork[o] = None
    BY Zenon, <1>4 DEF BeginPlan, Operation, Visible, Working, Reserved, Active
  <2>8. Operation(o)'
    BY Zenon, <2>1, <2>3, <2>4, <2>6, <2>7 DEF Operation, Visible, Over, Working, Reserved, Active
  <2> QED
    BY ZenonT(60), <2>5, <2>6, <2>8, OneOperates DEF KnownKept
<1> QED
  BY Zenon, <1>1, <1>2, <1>3, <1>4

\* Admission and commitment.
LEMMA AdmitOperates ==
    ASSUME TypeOK, Call, \A p \in Ops : Operation(p), KnownKept,
           Admitted \/ \E o \in Ops : BeginAdmit(o) \/ Commit(o)
    PROVE  \A p \in Ops : Operation(p)'
PROOF
<1>0. Input \in Nat /\ Expansion \in Nat /\ Token \in Nat /\ Item \in Nat /\ Thread \in Nat /\ Route \in Nat
  BY Zenon, Constants
<1>1. CASE Admitted
  <2>1. PICK o \in Ops : o = room.op
    BY Zenon, <1>1 DEF Admitted, Call
  <2>2. phase[o] = "admitting" /\ phase'[o] = "admitted"
    BY Zenon, <1>1, <2>1 DEF Admitted, Call, CallPhase, TypeOK
  <2>3. \A p \in Ops \ {o} : phase'[p] = phase[p]
    BY Zenon, <1>1, <2>1 DEF Admitted, TypeOK
  <2>4. plan' = plan /\ charge' = charge /\ buffer' = buffer /\ fork' = fork
    BY Zenon, <1>1 DEF Admitted
  <2>5. /\ charge[o] = Held(o) /\ buffer[o] = 0 /\ plan[o].token = None
        /\ plan[o].session # None /\ plan[o].branch # None
    BY Zenon, <2>2 DEF Operation, Visible, Over
  <2>6. Held(o)' = Held(o)
    BY Zenon, <2>2, <2>4 DEF Held
  <2>7. Operation(o)'
    BY Zenon, <2>2, <2>4, <2>5, <2>6 DEF Operation, Visible, Over, Working, Active
  <2> QED
    BY Zenon, <2>3, <2>4, <2>7, OneOperates DEF KnownKept
<1>2. ASSUME NEW o \in Ops, BeginAdmit(o) PROVE \A p \in Ops : Operation(p)'
  <2>1. PICK c : c = RoutingCharge(PendingRouting(o))
    BY Zenon
  <2>2. phase[o] = "planned" /\ phase'[o] = "admitting" /\ fork'[o] = PendingRouting(o) /\ c \in Nat
        /\ charge'[o] = charge[o] + Thread + c /\ RoutingCharge(fork[o])' = c
    BY Zenon, <1>2, <1>0, <2>1 DEF BeginAdmit, RoutingCharge, TypeOK
  <2>3. /\ plan'[o].session = plan[o].session /\ plan'[o].branch = ExecutionBranch(o)
        /\ plan'[o].token = plan[o].token /\ plan'[o].expanded = plan[o].expanded /\ buffer' = buffer
    <3>1. PICK b : b = ExecutionBranch(o)
      BY Zenon
    <3>2. plan' = [plan EXCEPT ![o].branch = b, ![o].remote = FALSE, ![o].parent = FALSE] /\ buffer' = buffer
      BY Zenon, <1>2, <3>1 DEF BeginAdmit
    <3>3. plan \in [Ops -> Plans]
      BY Zenon DEF TypeOK
    <3> QED
      BY ZenonT(60), <3>1, <3>2, <3>3 DEF Plans
  <2>4. \A p \in Ops \ {o} : /\ phase'[p] = phase[p] /\ plan'[p] = plan[p] /\ charge'[p] = charge[p]
                             /\ fork'[p] = fork[p]
    BY Zenon, <1>2 DEF BeginAdmit, TypeOK
  <2>5. /\ charge[o] = Held(o) /\ buffer[o] = 0 /\ plan[o].token = None
        /\ plan[o].session # None /\ plan[o].branch # None
    BY Zenon, <2>2 DEF Operation, Visible, Over, Working, Reserved
  <2>6. ExecutionBranch(o) # None
    BY ZenonT(60), <2>5, Constants DEF ExecutionBranch
  <2>7. Held(o)' = Held(o) + Thread + c
    BY <1>0, <2>2, <2>3, <2>5 DEF Held
  <2>8. Operation(o)'
    BY Zenon, <2>2, <2>3, <2>5, <2>6, <2>7 DEF Operation, Visible, Over
  <2> QED
    BY Zenon, <2>3, <2>4, <2>8, OneOperates DEF KnownKept
<1>3. ASSUME NEW o \in Ops, Commit(o) PROVE \A p \in Ops : Operation(p)'
  <2>1. phase[o] = "admitted" /\ Publish(o)
    BY Zenon, <1>3, Committing
  <2>2. /\ phase'[o] = "committed" /\ fork'[o] = None /\ charge'[o] = charge[o] - (Thread + RoutingCharge(fork[o]))
        /\ plan' = plan /\ buffer' = buffer /\ plan[o].session \in known'
    BY Zenon, <2>1 DEF Publish, Precharged, TypeOK
  <2>3. \A p \in Ops \ {o} : /\ phase'[p] = phase[p] /\ charge'[p] = charge[p] /\ fork'[p] = fork[p]
    BY Zenon, <2>1 DEF Publish, TypeOK
  <2>4. /\ charge[o] = Held(o) /\ buffer[o] = 0 /\ plan[o].token = None
        /\ plan[o].session # None /\ plan[o].branch # None /\ RoutingCharge(fork[o]) \in Nat
    BY ZenonT(60), <1>0, <2>1 DEF Operation, Visible, Over, Working, Active, RoutingCharge
  <2>5. Held(o)' = Held(o) - (Thread + RoutingCharge(fork[o]))
    BY <1>0, <2>1, <2>2, <2>4 DEF Held
  <2>6. Operation(o)'
    BY Zenon, <2>2, <2>4, <2>5 DEF Operation, Visible, Over, Working, Active
  <2> QED
    BY Zenon, <2>2, <2>3, <2>6, OneOperates DEF KnownKept
<1> QED
  BY Zenon, <1>1, <1>2, <1>3

\* Output items, routing tokens, terminal assembly.
LEMMA ObserveOperates ==
    ASSUME TypeOK, Call, \A p \in Ops : Operation(p), KnownKept,
           ItemKept \/ ItemDropped \/ LearnStartup \/ \E o \in Ops : BeginComplete(o) \/ DetachSseFailure(o)
    PROVE  \A p \in Ops : Operation(p)'
PROOF
<1>0. Input \in Nat /\ Expansion \in Nat /\ Token \in Nat /\ Item \in Nat /\ Thread \in Nat /\ Route \in Nat
  BY Zenon, Constants
<1>c. ASSUME NEW o \in Ops, phase[o] = "committed"
      PROVE  /\ charge[o] = Held(o) /\ fork[o] = None /\ plan[o].session # None /\ plan[o].branch # None
             /\ plan[o].session \in known /\ buffer[o] \in Nat /\ buffer[o] * Item \in Nat
             /\ Held(o) = Input + (IF plan[o].expanded THEN Expansion ELSE 0) + buffer[o] * Item
                          + (IF plan[o].token # None THEN Token ELSE 0)
  <2>1. buffer[o] \in Nat /\ charge[o] \in Int
    BY Zenon DEF TypeOK
  <2>2. buffer[o] * Item \in Nat
    BY <1>0, <2>1
  <2>3. Held(o) = Input + (IF plan[o].expanded THEN Expansion ELSE 0) + buffer[o] * Item
                          + (IF plan[o].token # None THEN Token ELSE 0)
    BY <1>0, <1>c, <2>2 DEF Held
  <2> QED
    BY Zenon, <1>c, <2>1, <2>2, <2>3 DEF Operation, Visible, Over, Working, Active
<1>1. CASE ItemKept
  <2>1. PICK o \in Ops : o = room.op
    BY Zenon, <1>1 DEF ItemKept, Asking, Call
  <2>2. phase[o] = "committed" /\ phase' = phase /\ plan' = plan /\ fork' = fork /\ known' = known
    BY Zenon, <1>1, <2>1 DEF ItemKept, Asking, Call, CallPhase, scopeVars
  <2>3. charge'[o] = charge[o] + Item /\ buffer'[o] = buffer[o] + 1
    BY Zenon, <1>1, <2>1 DEF ItemKept, TypeOK
  <2>4. \A p \in Ops \ {o} : charge'[p] = charge[p] /\ buffer'[p] = buffer[p]
    BY Zenon, <1>1, <2>1 DEF ItemKept, TypeOK
  <2>5. (buffer[o] + 1) * Item = buffer[o] * Item + Item
    BY SMTT(60), <1>0, <1>c, <2>2
  <2>6. Held(o)' = Held(o) + Item
    BY <1>0, <1>c, <2>2, <2>3, <2>5 DEF Held
  <2>7. Operation(o)'
    BY Zenon, <1>c, <2>2, <2>3, <2>6 DEF Operation, Visible, Over, Working, Active
  <2> QED
    BY Zenon, <2>2, <2>4, <2>7, OneOperates DEF KnownKept
<1>2. CASE ItemDropped
  <2>1. PICK o \in Ops : phase[o] = "committed" /\ DropOutput(o)
    BY Zenon, <1>2 DEF ItemDropped, Denied, Call, CallPhase, Observing
  <2>2. phase' = phase /\ plan' = plan /\ fork' = fork /\ known' = known
    BY Zenon, <2>1 DEF DropOutput, scopeVars
  <2>3. charge'[o] = charge[o] - buffer[o] * Item /\ buffer'[o] = 0
    BY Zenon, <2>1 DEF DropOutput, TypeOK
  <2>4. \A p \in Ops \ {o} : charge'[p] = charge[p] /\ buffer'[p] = buffer[p]
    BY ZenonT(60), <2>1 DEF DropOutput, TypeOK
  <2>6. Held(o)' = Held(o) - buffer[o] * Item
    BY <1>0, <1>c, <2>1, <2>2, <2>3 DEF Held
  <2>7. Operation(o)'
    BY ZenonT(60), <1>c, <2>1, <2>2, <2>3, <2>6 DEF Operation, Visible, Over, Working, Active
  <2> QED
    BY Zenon, <2>2, <2>4, <2>7, OneOperates DEF KnownKept
<1>3. CASE LearnStartup
  <2>1. PICK o \in Ops : o = room.op
    BY ZenonT(60), <1>3 DEF LearnStartup, Asking, Call
  <2>2. /\ phase[o] = "committed" /\ phase' = phase /\ buffer' = buffer /\ fork' = fork /\ known' = known
        /\ plan[o].token = None /\ room.token # None
    BY Zenon, <1>3, <2>1 DEF LearnStartup, Asking, Call, CallPhase, scopeVars
  <2>3. /\ charge'[o] = charge[o] + Token /\ plan'[o].token = room.token /\ plan'[o].session = plan[o].session
        /\ plan'[o].branch = plan[o].branch /\ plan'[o].expanded = plan[o].expanded
    BY <1>3, <2>1 DEF LearnStartup, TypeOK, Plans
  <2>4. \A p \in Ops \ {o} : charge'[p] = charge[p] /\ plan'[p] = plan[p]
    BY ZenonT(60), <1>3, <2>1 DEF LearnStartup, TypeOK
  <2>6. Held(o)' = Held(o) + Token
    BY <1>0, <1>c, <2>2, <2>3 DEF Held
  <2>7. Operation(o)'
    BY ZenonT(60), <1>c, <2>2, <2>3, <2>6 DEF Operation, Visible, Over, Working, Active
  <2> QED
    BY Zenon, <2>2, <2>4, <2>7, OneOperates DEF KnownKept
<1>4. ASSUME NEW o \in Ops, BeginComplete(o) \/ DetachSseFailure(o) PROVE \A p \in Ops : Operation(p)'
  <2>1. /\ phase[o] = "committed" /\ phase'[o] \in {"publishing", "tail"} /\ known' = known
        /\ \A p \in Ops \ {o} : phase'[p] = phase[p]
    BY ZenonT(60), <1>4 DEF BeginComplete, DetachSseFailure, Observing, TypeOK, scopeVars
  <2>2. plan' = plan /\ charge' = charge /\ buffer' = buffer /\ fork' = fork
    BY Zenon, <1>4 DEF BeginComplete, DetachSseFailure
  <2>3. Held(o)' = Held(o)
    BY Zenon, <1>0, <1>c, <2>1, <2>2 DEF Held
  <2>4. Operation(o)'
    BY Zenon, <1>c, <2>1, <2>2, <2>3 DEF Operation, Visible, Over, Working, Reserved
  <2> QED
    BY Zenon, <2>1, <2>2, <2>4, OneOperates DEF KnownKept
<1> QED
  BY Zenon, <1>1, <1>2, <1>3, <1>4

LEMMA NextOperates ==
    ASSUME TypeOK, Call, \A p \in Ops : Operation(p) /\ Record(p), [Next]_vars
    PROVE  \A p \in Ops : Operation(p)'
PROOF
<1>1. KnownKept
  BY Zenon, KnownStays DEF KnownKept, Visible, Working, Reserved, Active
<1>2. CASE UNCHANGED vars
  BY <1>1, <1>2, SameOperations, ZenonT(60) DEF vars
<1>3. CASE RoomStep
  <2>1. ASSUME \/ RefuseSurplus \/ RefusePlan \/ \E use \in {"full", "admit", "commit"} : Refuse(use)
        PROVE  \E o \in Ops : Release(o)
    BY Zenon, <2>1 DEF RefuseSurplus, RefusePlan, Refuse, Denied, Call
  <2>2. ASSUME CompleteWith \/ CompleteWithout PROVE \E o \in Ops : End(o) /\ phase[o] \in Visible
    BY Zenon, <2>2 DEF CompleteWith, CompleteWithout, Complete, Asking, Denied, Call, CallPhase, Visible
  <2>3. ASSUME \/ \E o \in Ops : EvictHistory(o) \/ EvictRecord(o) \/ EvictSurplus(o)
               \/ \E k \in Sockets : ReclaimComparison(k)
               \/ \E s \in Sessions : EvictUnreferencedSession(s)
               \/ Room \/ LearnTurn \/ LearnLate \/ NotLearned
        PROVE  opVars' = opVars
    BY <2>3, ZenonT(60) DEF EvictHistory, EvictRecord, EvictSurplus, ReclaimComparison, EvictUnreferencedSession, Room,
                       LearnTurn, LearnLate, NotLearned
  <2> QED
    BY <1>1, <1>3, <2>1, <2>2, <2>3, OverOperates, SameOperations, PlanOperates, AdmitOperates, ObserveOperates, ZenonT(60)
       DEF RoomStep
<1>4. ASSUME NEW o \in Ops, Request(o) PROVE \A p \in Ops : Operation(p)'
  <2>1. ASSUME Fail(o) \/ AdmitConflict(o) \/ DropLease(o) PROVE Release(o) \/ (End(o) /\ phase[o] \in Visible)
    BY Zenon, <2>1 DEF Fail, AdmitConflict, DropLease, Observing, Visible
  <2>2. ASSUME \/ BeginFullInput(o) \/ BeginCommit(o) \/ Created(o) \/ BeginItem(o)
               \/ \E t \in world.tokens : BeginLearn(o, t) \/ BeginLearnStartup(o, t) \/ BeginLearnLate(o, t)
        PROVE  opVars' = opVars
    BY <2>2, ZenonT(60) DEF BeginFullInput, BeginCommit, Created, BeginItem, BeginLearn, BeginLearnStartup, BeginLearnLate
  <2> QED
    BY <1>1, <1>4, <2>1, <2>2, OverOperates, SameOperations, PlanOperates, AdmitOperates, ObserveOperates, ZenonT(60)
       DEF Request
<1>5. ASSUME \/ \E k \in Sockets : Connection(k)
             \/ EnforceBaselines \/ Sweep \/ \E s \in Sessions : \E S \in SUBSET {s} : Idle(s, S)
      PROVE  opVars' = opVars
  BY <1>5, ZenonT(60) DEF Connection, SocketOpen, SocketClosed, TrackBaseline, RelayUses, EnforceBaselines, Sweep, Idle
<1> QED
  BY <1>1, <1>2, <1>3, <1>4, <1>5, SameOperations, ZenonT(60) DEF Next

-----------------------------------------------------------------------------
(* Records.                                                                 *)

\* An operation that is over stays over.
LEMMA OverStays ==
    ASSUME TypeOK, Call, [Next]_vars, NEW o \in Ops, phase[o] \in Over
    PROVE  phase'[o] \in Over
PROOF
<1>1. CASE phase' = phase
  BY Zenon, <1>1
<1>2. ASSUME NEW p \in Ops, NEW to, phase' = [phase EXCEPT ![p] = to], to \in Over \/ phase[p] \notin Over
      PROVE  phase'[o] \in Over
  BY Zenon, <1>2 DEF TypeOK
<1>3. CASE RoomStep
  <2>1. CASE RefuseSurplus \/ RefusePlan \/ \E use \in {"full", "admit", "commit"} : Refuse(use)
    <3>1. PICK p \in Ops : phase' = [phase EXCEPT ![p] = "dropped"]
      BY Zenon, <2>1 DEF RefuseSurplus, RefusePlan, Refuse, Release, Denied, Call
    <3> QED
      BY Zenon, <1>2, <3>1 DEF Over
  <2>2. CASE CompleteWith \/ CompleteWithout
    <3>1. PICK p \in Ops : phase' = [phase EXCEPT ![p] = "ended"]
      BY Zenon, <2>2 DEF CompleteWith, CompleteWithout, Complete, Asking, Denied, Call, End
    <3> QED
      BY Zenon, <1>2, <3>1 DEF Over
  <2>3. CASE Planned \/ Admitted
    <3>1. PICK p \in Ops : p = room.op /\ phase[p] \notin Over
      BY Zenon, <2>3 DEF Planned, Admitted, Asking, Call, CallPhase, Over
    <3> QED
      BY Zenon, <1>2, <2>3, <3>1 DEF Planned, Admitted
  <2>4. ASSUME NEW p \in Ops, Commit(p) PROVE phase'[o] \in Over
    BY Zenon, <1>2, <2>4, Committing DEF Publish, Over
  <2>5. CASE ~(\/ RefuseSurplus \/ RefusePlan \/ CompleteWith \/ CompleteWithout \/ Planned \/ Admitted
               \/ (\E use \in {"full", "admit", "commit"} : Refuse(use)) \/ \E p \in Ops : Commit(p))
    <3>1. phase' = phase
      BY <1>3, <2>5, ZenonT(60)
         DEF RoomStep, EvictHistory, EvictRecord, EvictSurplus, ReclaimComparison, EvictUnreferencedSession, PlanRemotely,
             FullInput, Room, ItemKept, ItemDropped, DropOutput, LearnTurn, LearnStartup, LearnLate, NotLearned, opVars
    <3> QED
      BY Zenon, <1>1, <3>1
  <2> QED
    BY <2>1, <2>2, <2>3, <2>4, <2>5, ZenonT(60)
<1>4. ASSUME NEW p \in Ops, Request(p) PROVE phase'[o] \in Over
  <2>1. CASE AdmitConflict(p) \/ Fail(p) \/ DropLease(p)
    <3>1. PICK to \in Over : phase' = [phase EXCEPT ![p] = to]
      BY Zenon, <2>1 DEF AdmitConflict, Fail, DropLease, Release, End, Over
    <3> QED
      BY Zenon, <1>2, <3>1
  <2>2. CASE BeginAdmit(p) \/ BeginComplete(p) \/ DetachSseFailure(p) \/ \E q \in world.requests : BeginPlan(p, q)
    <3>1. phase[p] \notin Over /\ \E to : phase' = [phase EXCEPT ![p] = to]
      BY Zenon, <2>2 DEF BeginAdmit, BeginComplete, DetachSseFailure, BeginPlan, Observing, Over
    <3> QED
      BY Zenon, <1>2, <3>1
  <2>3. CASE \/ BeginFullInput(p) \/ BeginCommit(p) \/ Created(p) \/ BeginItem(p)
             \/ \E t \in world.tokens : BeginLearn(p, t) \/ BeginLearnStartup(p, t) \/ BeginLearnLate(p, t)
    <3>1. phase' = phase
      BY <2>3, ZenonT(60) DEF BeginFullInput, BeginCommit, Created, BeginItem, BeginLearn, BeginLearnStartup, BeginLearnLate, opVars
    <3> QED
      BY Zenon, <1>1, <3>1
  <2> QED
    BY <1>4, <2>1, <2>2, <2>3, ZenonT(60) DEF Request
<1>5. CASE UNCHANGED vars \/ EnforceBaselines \/ Sweep \/ (\E k \in Sockets : Connection(k))
           \/ \E s \in Sessions : \E S \in SUBSET {s} : Idle(s, S)
  <2>1. phase' = phase
    BY <1>5, ZenonT(60) DEF vars, EnforceBaselines, Sweep, Connection, SocketOpen, SocketClosed, TrackBaseline, RelayUses, Idle, opVars
  <2> QED
    BY Zenon, <1>1, <2>1
<1> QED
  BY <1>3, <1>4, <1>5, ZenonT(60) DEF Next

\* A record is left as it was, is trimmed, or goes.
LEMMA RecordStays ==
    ASSUME NEW o \in Ops, Record(o), phase[o] \in Over => phase'[o] \in Over, handed'[o] = handed[o],
           rec'[o] \in {rec[o], [rec[o] EXCEPT !.history = 0]}, rec[o] \in Records,
           rec[o].socket \in open' \cup {None}, Present(rec[o]) => rec[o].session \in known'
    PROVE  Record(o)'
PROOF
<1>1. CASE rec'[o] = rec[o]
  BY Zenon, <1>1 DEF Record, Present
<1>2. CASE rec'[o] = [rec[o] EXCEPT !.history = 0]
  <2>1. /\ rec'[o].history = 0 /\ rec'[o].completed = rec[o].completed /\ rec'[o].socket = rec[o].socket
        /\ rec'[o].session = rec[o].session /\ rec'[o].branch = rec[o].branch
        /\ rec'[o].startup = rec[o].startup /\ rec'[o].bound = rec[o].bound
    BY ZenonT(60), <1>2 DEF Records
  <2> QED
    BY <2>1 DEF Record, Present
<1> QED
  BY Zenon, <1>1, <1>2

LEMMA RecordGoes ==
    ASSUME NEW o \in Ops, Record(o), phase[o] \in Over => phase'[o] \in Over, handed'[o] = handed[o],
           rec'[o] = NoRecord
    PROVE  Record(o)'
PROOF
  BY DEF Record, NoRecord, Present

\* A record is made of an operation that is visible.
LEMMA RecordMade ==
    ASSUME TypeOK, NEW o \in Ops, Operation(o), Record(o), phase[o] \in {"committed", "publishing"}, Connected(o),
           handed'[o] = handed[o], open' = open, known' = known,
           NEW completed \in BOOLEAN, NEW history \in Nat, completed => phase'[o] \in Over,
           history > 0 => completed,
           rec'[o] \in {RecordOf(o, completed, history), [RecordOf(o, completed, history) EXCEPT !.history = 0]}
    PROVE  Record(o)'
PROOF
<1>1. handed[o] = {} /\ plan[o].session \in known /\ plan[o].branch # None
  BY Zenon DEF Record, Operation, Over, Visible
<1>2. /\ rec'[o].session = plan[o].session /\ rec'[o].branch = plan[o].branch /\ rec'[o].socket = plan[o].socket
      /\ rec'[o].completed = completed /\ rec'[o].history \in {0, history}
  BY DEF RecordOf
<1> QED
  BY <1>1, <1>2 DEF Record, Connected, Present

\* What a record may rely on is kept.
Kept ==
    \A o \in Ops : /\ phase[o] \in Over => phase'[o] \in Over
                   /\ rec[o] \in Records

LEMMA SameRecords ==
    ASSUME Kept, \A o \in Ops : Record(o), UNCHANGED <<rec, known, handed>>, open \subseteq open'
    PROVE  \A o \in Ops : Record(o)'
PROOF
<1> SUFFICES ASSUME NEW o \in Ops PROVE Record(o)'
  BY Zenon
<1>1. rec[o].socket \in open' \cup {None} /\ (Present(rec[o]) => rec[o].session \in known')
  BY Zenon DEF Record
<1> QED
  BY Zenon, <1>1, RecordStays DEF Kept

LEMMA ChangedRecords ==
    ASSUME TypeOK, Call, Kept, \A o \in Ops : Operation(o) /\ Record(o),
           \/ \E o \in Ops : \/ EvictHistory(o) \/ EvictSurplus(o) \/ Created(o) \/ Fail(o)
                             \/ DetachSseFailure(o)
           \/ CompleteWith \/ CompleteWithout
    PROVE  \A o \in Ops : Record(o)'
PROOF
<1>0. ASSUME NEW o \in Ops, open' = open, known' = known, handed' = handed, rec'[o] = rec[o] PROVE Record(o)'
  <2>1. rec[o].socket \in open' \cup {None} /\ (Present(rec[o]) => rec[o].session \in known')
    BY Zenon, <1>0 DEF Record
  <2> QED
    BY Zenon, <1>0, <2>1, RecordStays DEF Kept
<1>1. ASSUME NEW o \in Ops, EvictHistory(o), NEW p \in Ops PROVE Record(p)'
  <2>1. open' = open /\ known' = known /\ handed' = handed /\ rec' = [rec EXCEPT ![o].history = 0]
    BY Zenon, <1>1 DEF EvictHistory, env
  <2>2. p # o => rec'[p] = rec[p]
    BY Zenon, <2>1 DEF TypeOK
  <2>3. p = o => rec'[p] = [rec[p] EXCEPT !.history = 0]
    BY Zenon, <2>1 DEF TypeOK
  <2>4. rec[p].socket \in open' \cup {None} /\ (Present(rec[p]) => rec[p].session \in known')
    BY Zenon, <2>1 DEF Record
  <2>5. rec'[p] \in {rec[p], [rec[p] EXCEPT !.history = 0]}
    BY <2>2, <2>3, ZenonT(60)
  <2> QED
    BY Zenon, <2>1, <2>4, <2>5, RecordStays DEF Kept
<1>2. ASSUME NEW o \in Ops, EvictSurplus(o) \/ Fail(o) \/ DetachSseFailure(o), NEW p \in Ops PROVE Record(p)'
  <2>1. open' = open /\ known' = known /\ handed' = handed /\ rec' = [rec EXCEPT ![o] = NoRecord]
    BY Zenon, <1>2 DEF EvictSurplus, Fail, DetachSseFailure, env
  <2>2. p # o => rec'[p] = rec[p]
    BY Zenon, <2>1 DEF TypeOK
  <2>3. p = o => rec'[p] = NoRecord
    BY Zenon, <2>1 DEF TypeOK
  <2> QED
    BY ZenonT(60), <1>0, <2>1, <2>2, <2>3, RecordGoes DEF Kept
<1>3. ASSUME NEW o \in Ops, Created(o), NEW p \in Ops PROVE Record(p)'
  <2>1. /\ open' = open /\ known' = known /\ handed' = handed /\ rec' = [rec EXCEPT ![o] = RecordOf(o, FALSE, 0)]
        /\ phase[o] = "committed" /\ Connected(o)
    BY Zenon, <1>3 DEF Created, Observing, env
  <2>2. p # o => rec'[p] = rec[p]
    BY Zenon, <2>1 DEF TypeOK
  <2>3. rec'[o] = RecordOf(o, FALSE, 0)
    BY Zenon, <2>1 DEF TypeOK
  <2>4. Record(o)'
    <3>1. rec'[o] \in {RecordOf(o, FALSE, 0), [RecordOf(o, FALSE, 0) EXCEPT !.history = 0]} /\ ~(0 > 0)
      BY <2>3
    <3> QED
      BY <2>1, <3>1, RecordMade, ZenonT(60)
  <2> QED
    BY Zenon, <1>0, <2>1, <2>2, <2>4
<1>4. ASSUME CompleteWith \/ CompleteWithout, NEW p \in Ops PROVE Record(p)'
  <2>1. PICK o \in Ops : o = room.op
    BY Zenon, <1>4 DEF CompleteWith, CompleteWithout, Asking, Denied, Call
  <2>2. phase[o] = "publishing" /\ Connected(o)
    BY Zenon, <1>4, <2>1 DEF CompleteWith, CompleteWithout, Asking, Denied, Call, CallPhase
  <2>3. PICK h \in Nat : Complete(h)
    BY Zenon, <1>4, Constants DEF CompleteWith, CompleteWithout
  <2>4. /\ open' = open /\ known' = known /\ handed' = handed /\ phase' = [phase EXCEPT ![o] = "ended"]
        /\ rec' = [rec EXCEPT ![o] = Published(o, RecordOf(o, TRUE, h))]
    BY Zenon, <2>1, <2>3 DEF Complete, End, env
  <2>5. p # o => rec'[p] = rec[p]
    BY Zenon, <2>4 DEF TypeOK
  <2>6. rec'[o] \in {RecordOf(o, TRUE, h), [RecordOf(o, TRUE, h) EXCEPT !.history = 0]} /\ phase'[o] \in Over
    BY Zenon, <2>4 DEF TypeOK, Published, Over
  <2>7. Record(o)'
    BY ZenonT(60), <2>2, <2>4, <2>6, RecordMade
  <2> QED
    BY Zenon, <1>0, <2>4, <2>5, <2>7
<1> QED
  BY Zenon, <1>1, <1>2, <1>3, <1>4

\* What is left of a session's records keeps the session.
LEMMA ExpiredRecords ==
    ASSUME TypeOK, Kept, \A o \in Ops : Record(o), open' = open, handed' = handed,
           \/ ExpireScopes \/ \E o \in Ops : EvictRecord(o)
           \/ \E s \in Sessions : EvictUnreferencedSession(s)
    PROVE  \A o \in Ops : Record(o)'
PROOF
<1>0. ASSUME NEW p \in Ops,
             \/ rec'[p] = NoRecord
             \/ /\ rec'[p] \in {rec[p], [rec[p] EXCEPT !.history = 0]}
                /\ Present(rec[p]) => rec[p].session \in known'
      PROVE  Record(p)'
  <2>1. rec[p].socket \in open' \cup {None}
    BY Zenon DEF Record
  <2> QED
    BY Zenon, <1>0, <2>1, RecordStays, RecordGoes DEF Kept
<1>1. ASSUME NEW C, PruneMetadata(C, rec'), NEW p \in Ops, rec'[p].session = rec[p].session, Present(rec[p])
      PROVE  rec[p].session \in known'
  BY Zenon, <1>1 DEF PruneMetadata, KeptSessions, Record
<1>2. ASSUME ExpireScopes, NEW p \in Ops PROVE Record(p)'
  <2>1. rec'[p] = ExpiredRecord(rec[p]) /\ PruneMetadata(QuietScopes, rec') /\ rec[p] \in Records
    BY Zenon, <1>2 DEF ExpireScopes, TypeOK
  <2>2. rec'[p] \in {rec[p], NoRecord, [rec[p] EXCEPT !.history = 0]}
    BY Zenon, <2>1 DEF ExpiredRecord
  <2>3. [rec[p] EXCEPT !.history = 0].session = rec[p].session
    BY Zenon, <2>1 DEF Records
  <2> QED
    BY ZenonT(60), <1>0, <1>1, <2>1, <2>2, <2>3
<1>3. ASSUME NEW o \in Ops, EvictRecord(o), NEW p \in Ops PROVE Record(p)'
  <2>1. /\ PruneMetadata({ScopeOf[rec[o].session]} \cap QuietScopes, rec') /\ rec' = [rec EXCEPT ![o] = NoRecord]
    BY Zenon, <1>3 DEF EvictRecord
  <2>2. (p # o => rec'[p] = rec[p]) /\ (p = o => rec'[p] = NoRecord)
    BY Zenon, <2>1 DEF TypeOK
  <2> QED
    BY Zenon, <1>0, <1>1, <2>1, <2>2
<1>4. ASSUME NEW s \in Sessions, EvictUnreferencedSession(s), NEW p \in Ops PROVE Record(p)'
  <2>1. rec' = rec /\ rec[p].session # s /\ known' = known \ {s}
    BY Zenon, <1>4 DEF EvictUnreferencedSession, Unreferenced
  <2>2. Present(rec[p]) => rec[p].session \in known'
    BY Zenon, <2>1 DEF Record
  <2> QED
    BY Zenon, <1>0, <2>1, <2>2
<1> QED
  BY Zenon, <1>2, <1>3, <1>4

\* A prewarm that hands its token over is bound to the turn it hands it to.
LEMMA AdoptedRecords ==
    ASSUME TypeOK, Kept, \A o \in Ops : Record(o), NEW o \in Ops, Operation(o), phase[o] = "admitted", Publish(o)
    PROVE  \A r \in Ops : Record(r)'
PROOF
<1> SUFFICES ASSUME NEW r \in Ops PROVE Record(r)'
  BY Zenon
<1>1. open' = open /\ known \subseteq known' /\ (phase[r] \in Over => phase'[r] \in Over) /\ rec[r] \in Records
  BY Zenon DEF Publish, env, Kept
<1>2. ~Prewarm(o) => Key(o) \in Keys /\ Key(o) # None
  BY Zenon, KeyTypes, Constants DEF Over
<1>3. CASE r \notin Completed(StartupOf(o))
  <2>1. rec'[r] = rec[r] /\ handed'[r] = handed[r]
    BY Zenon, <1>3 DEF Publish, Adopting
  <2>2. rec[r].socket \in open' \cup {None} /\ (Present(rec[r]) => rec[r].session \in known')
    BY Zenon, <1>1 DEF Record
  <2> QED
    BY Zenon, <1>1, <2>1, <2>2, RecordStays
<1>4. CASE r \in Completed(StartupOf(o)) /\ Compatible(r, o)
  <2>1. rec[r].startup /\ rec[r].completed /\ ~Prewarm(o) /\ rec[r].bound \in {None, Key(o)}
    BY Zenon, <1>4 DEF Completed, StartupOf, Compatible
  <2>2. rec'[r] = [rec[r] EXCEPT !.bound = Key(o), !.token = None]
    BY Zenon, <1>4 DEF Publish, AdoptStartup
  <2>3. /\ rec'[r].history = rec[r].history /\ rec'[r].completed = rec[r].completed
        /\ rec'[r].socket = rec[r].socket /\ rec'[r].session = rec[r].session /\ rec'[r].branch = rec[r].branch
        /\ rec'[r].bound = Key(o)
    BY Zenon, <1>1, <2>2 DEF Records
  <2>4. handed'[r] \subseteq {Key(o)}
    <3>1. handed[r] \subseteq {Key(o)}
      BY Zenon, <2>1 DEF Record
    <3>2. handed'[r] = handed[r] \/ handed'[r] = handed[r] \cup {Key(o)}
      BY Zenon DEF Publish
    <3> QED
      BY Zenon, <3>1, <3>2
  <2>5. phase'[r] \in Over
    BY Zenon, <1>1, <2>1 DEF Record
  <2> QED
    BY ZenonT(60), <1>1, <1>2, <2>1, <2>3, <2>4, <2>5 DEF Record, Present
<1>5. CASE r \in Completed(StartupOf(o)) /\ ~Compatible(r, o)
  <2>1. rec'[r] = [rec[r] EXCEPT !.startup = FALSE, !.bound = None, !.token = None] /\ handed'[r] = handed[r]
    BY Zenon, <1>5 DEF Publish, AdoptStartup, Adopting
  <2>2. /\ rec'[r].history = rec[r].history /\ rec'[r].completed = rec[r].completed
        /\ rec'[r].socket = rec[r].socket /\ rec'[r].session = rec[r].session /\ rec'[r].branch = rec[r].branch
        /\ rec'[r].startup = FALSE
    BY Zenon, <1>1, <2>1 DEF Records
  <2> QED
    BY Zenon, <1>1, <2>1, <2>2 DEF Record, Present
<1> QED
  BY Zenon, <1>3, <1>4, <1>5

LEMMA LearnedRecords ==
    ASSUME TypeOK, Call, Kept, \A o \in Ops : Record(o), LearnLate
    PROVE  \A r \in Ops : Record(r)'
PROOF
<1> SUFFICES ASSUME NEW r \in Ops PROVE Record(r)'
  BY Zenon
<1>1. PICK o \in Ops : o = room.op
  BY Zenon DEF LearnLate, Asking, Call
<1>2. phase[o] = "ended" /\ rec[o].startup
  BY Zenon, <1>1 DEF LearnLate, Asking, Call, CallPhase
<1>3. open' = open /\ known' = known /\ phase' = phase /\ rec[r] \in Records
  BY Zenon DEF LearnLate, env, opVars, TypeOK
<1>4. ASSUME r # o \/ rec[o].bound = None PROVE handed'[r] = handed[r]
  BY Zenon, <1>1, <1>4 DEF LearnLate, TypeOK
<1>5. CASE rec[o].bound # None
  <2>1. rec' = rec /\ handed'[o] = handed[o] \cup {rec[o].bound} /\ rec[o].bound \in Keys
    BY Zenon, <1>1, <1>5 DEF LearnLate, TypeOK, Records
  <2>2. handed'[o] \subseteq {rec[o].bound}
    BY Zenon, <1>2, <2>1 DEF Record
  <2> QED
    BY ZenonT(60), <1>2, <1>3, <1>4, <1>5, <2>1, <2>2 DEF Record, Over, Present
<1>6. CASE rec[o].bound = None
  <2>1. rec' = [rec EXCEPT ![o].token = room.token]
    BY Zenon, <1>1, <1>6 DEF LearnLate
  <2>2. /\ rec'[r].history = rec[r].history /\ rec'[r].completed = rec[r].completed
        /\ rec'[r].socket = rec[r].socket /\ rec'[r].session = rec[r].session /\ rec'[r].branch = rec[r].branch
        /\ rec'[r].startup = rec[r].startup /\ rec'[r].bound = rec[r].bound
    BY <2>1 DEF TypeOK, Records
  <2> QED
    BY ZenonT(60), <1>3, <1>4, <1>6, <2>2 DEF Record, Present
<1> QED
  BY Zenon, <1>5, <1>6

LEMMA DetachedRecords ==
    ASSUME TypeOK, Kept, \A o \in Ops : Record(o), NEW k \in Sockets, SocketClosed(k)
    PROVE  \A r \in Ops : Record(r)'
PROOF
<1> SUFFICES ASSUME NEW r \in Ops PROVE Record(r)'
  BY Zenon
<1>1. open' = open \ {k} /\ known' = known /\ phase' = phase /\ handed' = handed /\ rec[r] \in Records
  BY Zenon DEF SocketClosed, opVars, TypeOK
<1>2. CASE rec[r].socket = k
  <2>1. rec'[r] = Detached(rec[r])
    BY Zenon, <1>2 DEF SocketClosed
  <2>2. /\ rec'[r].history = rec[r].history /\ rec'[r].completed = rec[r].completed
        /\ rec'[r].socket = None /\ rec'[r].session = rec[r].session /\ rec'[r].branch = rec[r].branch
        /\ rec'[r].startup = FALSE
    BY Zenon, <1>1, <2>1 DEF Records, Detached
  <2> QED
    BY Zenon, <1>1, <2>2 DEF Record, Present
<1>3. CASE rec[r].socket # k
  <2>1. rec'[r] = rec[r]
    BY Zenon, <1>3 DEF SocketClosed
  <2>2. rec[r].socket \in open' \cup {None} /\ (Present(rec[r]) => rec[r].session \in known')
    BY Zenon, <1>1, <1>3 DEF Record
  <2> QED
    BY Zenon, <1>1, <2>1, <2>2, RecordStays
<1> QED
  BY Zenon, <1>2, <1>3

LEMMA NextRecords ==
    ASSUME TypeOK, Call, \A o \in Ops : Operation(o) /\ Record(o), [Next]_vars
    PROVE  \A o \in Ops : Record(o)'
PROOF
<1>1. Kept
  BY Zenon, OverStays DEF Kept, TypeOK
<1>2. CASE UNCHANGED vars
  <2>1. UNCHANGED <<rec, known, handed, open>>
    BY <1>2, ZenonT(60) DEF vars, scopeVars, env
  <2> QED
    BY Zenon, <1>1, <2>1, SameRecords
<1>3. CASE RoomStep
  <2>1. ASSUME NEW o \in Ops, Commit(o) PROVE \A r \in Ops : Record(r)'
    BY ZenonT(60), <1>1, <2>1, Committing, AdoptedRecords
  <2>2. ASSUME \/ \E o \in Ops : EvictRecord(o)
               \/ \E s \in Sessions : EvictUnreferencedSession(s)
        PROVE  open' = open /\ handed' = handed
    BY <2>2, ZenonT(60) DEF EvictRecord, EvictUnreferencedSession, env
  <2>3. ASSUME \/ \E k \in Sockets : ReclaimComparison(k)
               \/ Planned \/ PlanRemotely \/ RefusePlan \/ FullInput \/ Refuse("full")
               \/ Room \/ RefuseSurplus \/ Admitted \/ Refuse("admit") \/ Refuse("commit")
               \/ ItemKept \/ ItemDropped \/ LearnTurn \/ LearnStartup \/ NotLearned
        PROVE  UNCHANGED <<rec, known, handed, open>>
    BY <2>3, ZenonT(60) DEF ReclaimComparison, Planned, PlanRemotely, RefusePlan, Refuse, FullInput, Room, RefuseSurplus,
          Admitted, ItemKept, ItemDropped, DropOutput, LearnTurn, LearnStartup, NotLearned, scopeVars, env
  <2>4. ASSUME UNCHANGED <<rec, known, handed, open>> PROVE \A r \in Ops : Record(r)'
    BY Zenon, <1>1, <2>4, SameRecords
  <2> QED
    BY <1>1, <1>3, <2>1, <2>2, <2>3, <2>4, ChangedRecords, ExpiredRecords, LearnedRecords, ZenonT(60) DEF RoomStep
<1>4. ASSUME NEW o \in Ops, Request(o) PROVE \A r \in Ops : Record(r)'
  <2>1. ASSUME (\E q \in world.requests : BeginPlan(o, q)) \/ AdmitConflict(o) \/ BeginAdmit(o)
        PROVE  ExpireScopes /\ open' = open /\ handed' = handed
    BY <2>1, ZenonT(60) DEF BeginPlan, AdmitConflict, BeginAdmit, Expire, env
  <2>2. ASSUME \/ BeginFullInput(o) \/ BeginCommit(o) \/ BeginItem(o) \/ BeginComplete(o) \/ DropLease(o)
               \/ \E t \in world.tokens : BeginLearn(o, t) \/ BeginLearnStartup(o, t) \/ BeginLearnLate(o, t)
        PROVE  UNCHANGED <<rec, known, handed, open>>
    BY <2>2, ZenonT(60) DEF BeginFullInput, BeginCommit, BeginItem, BeginComplete, DropLease, BeginLearn, BeginLearnStartup,
          BeginLearnLate, scopeVars, env
  <2>3. ASSUME UNCHANGED <<rec, known, handed, open>> PROVE \A r \in Ops : Record(r)'
    BY Zenon, <1>1, <2>3, SameRecords
  <2> QED
    BY <1>1, <1>4, <2>1, <2>2, <2>3, ChangedRecords, ExpiredRecords, ZenonT(60) DEF Request
<1>5. ASSUME NEW k \in Sockets, Connection(k) PROVE \A r \in Ops : Record(r)'
  <2>1. ASSUME \/ SocketOpen(k) \/ \E s \in Sessions : TrackBaseline(k, s)
               \/ \E state \in {"empty", "cached", "busy"} : RelayUses(k, state)
        PROVE  UNCHANGED <<rec, known, handed>> /\ open \subseteq open'
    BY Zenon, <2>1 DEF SocketOpen, TrackBaseline, RelayUses, scopeVars, env
  <2> QED
    BY <1>1, <1>5, <2>1, SameRecords, DetachedRecords, ZenonT(60) DEF Connection
<1>6. CASE EnforceBaselines \/ Sweep
  <2>1. ExpireScopes /\ open' = open /\ handed' = handed
    BY <1>6, ZenonT(60) DEF EnforceBaselines, Sweep, Expire, env
  <2> QED
    BY Zenon, <1>1, <2>1, ExpiredRecords
<1>7. ASSUME NEW s \in Sessions, NEW S \in SUBSET {s}, Idle(s, S) PROVE \A r \in Ops : Record(r)'
  <2>1. UNCHANGED <<rec, known, handed, open>>
    BY <1>7, ZenonT(60) DEF Idle, env
  <2> QED
    BY Zenon, <1>1, <2>1, SameRecords
<1> QED
  BY <1>2, <1>3, <1>4, <1>5, <1>6, <1>7, ZenonT(60) DEF Next

-----------------------------------------------------------------------------
(* Lanes and branches.                                                      *)

Admissible == Active \cup {"admitting"}

\* Only planning and admission give an operation a branch, a lane or a socket.
SameLane(p) ==
    /\ plan'[p].branch \in {plan[p].branch, None}
    /\ phase'[p] \in Admissible =>
          /\ phase[p] \in Admissible /\ plan'[p].branch = plan[p].branch
          /\ plan'[p].session = plan[p].session /\ plan'[p].turn = plan[p].turn
          /\ plan'[p].socket = plan[p].socket

LEMMA LanesStay ==
    ASSUME TypeOK, Call, [Next]_vars,
           \A o \in Ops : ~BeginAdmit(o) /\ \A q \in world.requests : ~BeginPlan(o, q), NEW p \in Ops
    PROVE  SameLane(p)
PROOF
<1>1. ASSUME plan' = plan, phase'[p] = phase[p] \/ phase'[p] \notin Admissible \/ phase[p] \in Admissible
      PROVE  SameLane(p)
  BY Zenon, <1>1 DEF SameLane
<1>2. ASSUME NEW o \in Ops, Release(o) \/ End(o) PROVE SameLane(p)
  <2>1. NoPlan.branch = None /\ phase'[o] \notin Admissible
    BY Zenon, <1>2 DEF NoPlan, Release, End, TypeOK, Admissible, Active
  <2>2. IF p = o THEN plan'[p] = NoPlan ELSE plan'[p] = plan[p] /\ phase'[p] = phase[p]
    BY Zenon, <1>2 DEF Release, End, TypeOK
  <2> QED
    BY Zenon, <2>1, <2>2 DEF SameLane
<1>3. CASE RoomStep
  <2>1. CASE RefuseSurplus \/ RefusePlan \/ \E use \in {"full", "admit", "commit"} : Refuse(use)
    <3>1. PICK o \in Ops : Release(o)
      BY Zenon, <2>1 DEF RefuseSurplus, RefusePlan, Refuse, Denied, Call
    <3> QED
      BY Zenon, <1>2, <3>1
  <2>2. CASE CompleteWith \/ CompleteWithout
    <3>1. PICK o \in Ops : End(o)
      BY Zenon, <2>2 DEF CompleteWith, CompleteWithout, Complete, Asking, Denied, Call
    <3> QED
      BY Zenon, <1>2, <3>1
  <2>3. CASE Planned \/ Admitted
    <3>1. PICK o \in Ops : o = room.op /\ (phase[o] = "admitting" \/ phase'[o] = "planned")
      BY ZenonT(60), <2>3 DEF Planned, Admitted, Asking, Call, CallPhase, TypeOK
    <3>2. plan' = plan /\ (p # o => phase'[p] = phase[p])
      BY Zenon, <2>3, <3>1 DEF Planned, Admitted, TypeOK
    <3> QED
      BY Zenon, <1>1, <3>1, <3>2 DEF Admissible, Active
  <2>4. ASSUME NEW o \in Ops, Commit(o) PROVE SameLane(p)
    <3>1. phase[o] = "admitted" /\ plan' = plan /\ phase' = [phase EXCEPT ![o] = "committed"]
      BY Zenon, <2>4, Committing DEF Publish
    <3> QED
      BY Zenon, <1>1, <3>1 DEF Admissible, Active, TypeOK
  <2>5. CASE PlanRemotely \/ FullInput \/ LearnStartup
    <3>1. PICK o \in Ops : o = room.op
      BY Zenon, <2>5 DEF PlanRemotely, FullInput, LearnStartup, Asking, Denied, Call
    <3>2. phase' = phase /\ plan \in [Ops -> Plans]
      BY Zenon, <2>5 DEF PlanRemotely, FullInput, LearnStartup, TypeOK
    <3>3. /\ plan'[p].branch = plan[p].branch /\ plan'[p].session = plan[p].session
          /\ plan'[p].turn = plan[p].turn /\ plan'[p].socket = plan[p].socket
      <4>1. CASE PlanRemotely
        BY ZenonT(60), <3>1, <3>2, <4>1 DEF PlanRemotely, Plans
      <4>2. CASE FullInput
        BY Zenon, <3>1, <3>2, <4>2 DEF FullInput, Plans
      <4>3. CASE LearnStartup
        BY Zenon, <3>1, <3>2, <4>3 DEF LearnStartup, Plans
      <4> QED
        BY ZenonT(60), <2>5, <4>1, <4>2, <4>3
    <3> QED
      BY Zenon, <3>2, <3>3 DEF SameLane
  <2>6. CASE ~(\/ RefuseSurplus \/ RefusePlan \/ CompleteWith \/ CompleteWithout \/ Planned \/ Admitted
               \/ PlanRemotely \/ FullInput \/ LearnStartup
               \/ (\E use \in {"full", "admit", "commit"} : Refuse(use)) \/ \E o \in Ops : Commit(o))
    <3>1. phase' = phase /\ plan' = plan
      BY <1>3, <2>6, ZenonT(60)
         DEF RoomStep, EvictHistory, EvictRecord, EvictSurplus, ReclaimComparison, EvictUnreferencedSession, Room,
             ItemKept, ItemDropped, DropOutput, LearnTurn, LearnLate, NotLearned, opVars
    <3> QED
      BY ZenonT(60), <1>1, <3>1
  <2> QED
    BY <2>1, <2>2, <2>3, <2>4, <2>5, <2>6, ZenonT(60)
<1>4. ASSUME NEW o \in Ops, Request(o) PROVE SameLane(p)
  <2>1. CASE AdmitConflict(o) \/ Fail(o) \/ DropLease(o)
    BY <1>2, <2>1, ZenonT(60) DEF AdmitConflict, Fail, DropLease
  <2>2. CASE BeginComplete(o) \/ DetachSseFailure(o)
    <3>1. plan' = plan /\ phase'[o] \notin Admissible /\ (p # o => phase'[p] = phase[p])
      BY Zenon, <2>2 DEF BeginComplete, DetachSseFailure, TypeOK, Admissible, Active
    <3> QED
      BY Zenon, <1>1, <3>1
  <2>3. CASE \/ BeginFullInput(o) \/ BeginCommit(o) \/ Created(o) \/ BeginItem(o)
             \/ \E t \in world.tokens : BeginLearn(o, t) \/ BeginLearnStartup(o, t) \/ BeginLearnLate(o, t)
    <3>1. phase' = phase /\ plan' = plan
      BY <2>3, ZenonT(60) DEF BeginFullInput, BeginCommit, Created, BeginItem, BeginLearn, BeginLearnStartup, BeginLearnLate, opVars
    <3> QED
      BY Zenon, <1>1, <3>1
  <2> QED
    BY <1>4, <2>1, <2>2, <2>3, ZenonT(60) DEF Request
<1>5. CASE UNCHANGED vars \/ EnforceBaselines \/ Sweep \/ (\E k \in Sockets : Connection(k))
           \/ \E s \in Sessions : \E S \in SUBSET {s} : Idle(s, S)
  <2>1. phase' = phase /\ plan' = plan
    BY <1>5, ZenonT(60) DEF vars, EnforceBaselines, Sweep, Connection, SocketOpen, SocketClosed, TrackBaseline, RelayUses, Idle, opVars
  <2> QED
    BY Zenon, <1>1, <2>1
<1> QED
  BY <1>3, <1>4, <1>5, ZenonT(60) DEF Next

\* A record has the branch of its operation.
LEMMA BranchesStay ==
    ASSUME TypeOK, Call, [Next]_vars, NEW p \in Ops
    PROVE  rec'[p].branch \in {rec[p].branch, plan[p].branch, None}
PROOF
<1>0. NoRecord.branch = None /\ rec \in [Ops -> Records]
  BY Zenon DEF NoRecord, TypeOK
<1>1. ASSUME NEW o \in Ops, EvictHistory(o) PROVE rec'[p].branch = rec[p].branch
  BY <1>0, <1>1 DEF EvictHistory, Records
<1>2. ASSUME NEW o \in Ops, EvictRecord(o) \/ EvictSurplus(o) \/ Fail(o) \/ DetachSseFailure(o)
      PROVE  rec'[p].branch \in {rec[p].branch, None}
  <2>1. rec' = [rec EXCEPT ![o] = NoRecord]
    BY Zenon, <1>2 DEF EvictRecord, EvictSurplus, Fail, DetachSseFailure
  <2> QED
    BY Zenon, <1>0, <2>1
<1>3. ASSUME NEW o \in Ops, NEW r, r.branch = plan[o].branch, rec' = [rec EXCEPT ![o] = r]
      PROVE  rec'[p].branch \in {rec[p].branch, plan[p].branch}
  BY Zenon, <1>0, <1>3
<1>4. ASSUME NEW o \in Ops, Created(o) PROVE rec'[p].branch \in {rec[p].branch, plan[p].branch}
  <2>1. RecordOf(o, FALSE, 0).branch = plan[o].branch
    BY Zenon DEF RecordOf
  <2> QED
    BY <1>3, <1>4, <2>1, ZenonT(60) DEF Created
<1>5. ASSUME CompleteWith \/ CompleteWithout PROVE rec'[p].branch \in {rec[p].branch, plan[p].branch}
  <2>1. PICK h \in Nat : Complete(h)
    BY Zenon, <1>5, Constants DEF CompleteWith, CompleteWithout
  <2>2. PICK o \in Ops : o = room.op
    BY Zenon, <1>5 DEF CompleteWith, CompleteWithout, Asking, Denied, Call
  <2>3. PICK r : r = Published(o, RecordOf(o, TRUE, h))
    BY Zenon
  <2>4. r.branch = plan[o].branch
    BY Zenon, <2>3 DEF Published, RecordOf
  <2>5. rec' = [rec EXCEPT ![o] = r]
    BY Zenon, <2>1, <2>2, <2>3 DEF Complete
  <2> QED
    BY <1>3, <2>4, <2>5, ZenonT(60)
<1>6. ASSUME NEW o \in Ops, Commit(o) PROVE rec'[p].branch = rec[p].branch
  <2>1. /\ rec' = [r \in Ops |-> IF r \in Completed(StartupOf(o)) THEN AdoptStartup(r, o) ELSE rec[r]]
    BY Zenon, <1>6, Committing DEF Publish
  <2>2. AdoptStartup(p, o).branch = rec[p].branch
    BY ZenonT(60), <1>0 DEF AdoptStartup, Records
  <2> QED
    BY Zenon, <2>1, <2>2
<1>7. ASSUME LearnLate PROVE rec'[p].branch = rec[p].branch
  BY <1>0, <1>7 DEF LearnLate, Records
<1>8. ASSUME ExpireScopes PROVE rec'[p].branch \in {rec[p].branch, None}
  <2>1. rec'[p] = ExpiredRecord(rec[p]) /\ rec[p] \in Records
    BY Zenon, <1>0, <1>8 DEF ExpireScopes
  <2>2. rec'[p] \in {rec[p], NoRecord, [rec[p] EXCEPT !.history = 0]}
    BY Zenon, <2>1 DEF ExpiredRecord
  <2>3. [rec[p] EXCEPT !.history = 0].branch = rec[p].branch
    BY Zenon, <2>1 DEF Records
  <2> QED
    BY Zenon, <1>0, <2>2, <2>3
<1>9. ASSUME NEW k \in Sockets, SocketClosed(k) PROVE rec'[p].branch = rec[p].branch
  <2>1. rec'[p] \in {rec[p], Detached(rec[p])}
    BY Zenon, <1>9 DEF SocketClosed
  <2> QED
    BY Zenon, <1>0, <2>1 DEF Detached, Records
<1>10. CASE UNCHANGED vars \/ RoomStep
  <2>1. CASE rec' = rec
    BY Zenon, <2>1
  <2>2. ASSUME rec' # rec
        PROVE  \/ \E o \in Ops : EvictHistory(o) \/ EvictRecord(o) \/ EvictSurplus(o) \/ Commit(o)
               \/ CompleteWith \/ CompleteWithout \/ LearnLate
    BY <1>10, <2>2, ZenonT(60)
       DEF vars, RoomStep, ReclaimComparison, EvictUnreferencedSession, Planned, PlanRemotely, RefusePlan, Refuse, FullInput,
           Room, RefuseSurplus, Admitted, ItemKept, ItemDropped, DropOutput, LearnTurn, LearnStartup, NotLearned, scopeVars
  <2> QED
    BY ZenonT(60), <1>1, <1>2, <1>5, <1>6, <1>7, <2>1, <2>2
<1>11. ASSUME NEW o \in Ops, Request(o) PROVE rec'[p].branch \in {rec[p].branch, plan[p].branch, None}
  <2>1. CASE rec' = rec
    BY Zenon, <2>1
  <2>2. ASSUME rec' # rec PROVE ExpireScopes \/ Created(o) \/ Fail(o) \/ DetachSseFailure(o)
    BY <1>11, <2>2, ZenonT(60)
       DEF Request, BeginPlan, BeginFullInput, AdmitConflict, BeginAdmit, Expire, BeginCommit, BeginItem,
           BeginComplete, DropLease, BeginLearn, BeginLearnStartup, BeginLearnLate, scopeVars
  <2> QED
    BY ZenonT(60), <1>2, <1>4, <1>8, <2>1, <2>2
<1>12. CASE \/ EnforceBaselines \/ Sweep \/ (\E k \in Sockets : Connection(k))
            \/ \E s \in Sessions : \E S \in SUBSET {s} : Idle(s, S)
  <2>1. CASE rec' = rec
    BY Zenon, <2>1
  <2>2. ASSUME rec' # rec PROVE ExpireScopes \/ \E k \in Sockets : SocketClosed(k)
    BY <1>12, <2>2, ZenonT(60) DEF EnforceBaselines, Sweep, Expire, Connection, SocketOpen, TrackBaseline, RelayUses, Idle, scopeVars
  <2> QED
    BY ZenonT(60), <1>8, <1>9, <2>1, <2>2
<1> QED
  BY <1>10, <1>11, <1>12, ZenonT(60) DEF Next

LEMMA NextOwn ==
    ASSUME TypeOK, Call, \A o \in Ops : Operation(o) /\ Record(o), \A o, p \in Ops : Own(o, p), [Next]_vars
    PROVE  \A o, p \in Ops : Own(o, p)'
PROOF
<1> SUFFICES ASSUME NEW o \in Ops, NEW p \in Ops, o # p, plan'[p].branch = o \/ rec'[p].branch = o
             PROVE  phase'[o] \in Over
  BY Zenon DEF Own
<1>1. None \notin Ops /\ Sessions \cap Ops = {}
  BY Zenon, Constants
<1>2. CASE rec'[p].branch = o
  BY ZenonT(60), <1>1, <1>2, BranchesStay, OverStays DEF Own
<1>3. CASE plan'[p].branch = o
  <2>1. CASE \A u \in Ops : ~BeginAdmit(u) /\ \A q \in world.requests : ~BeginPlan(u, q)
    BY ZenonT(60), <1>1, <1>3, <2>1, LanesStay, OverStays DEF Own, SameLane
  <2>2. ASSUME NEW u \in Ops, BeginAdmit(u) PROVE phase'[o] \in Over
    <3>1. plan'[p].branch \in {plan[p].branch, p}
      <4>1. PICK b : b = ExecutionBranch(u)
        BY Zenon
      <4>2. plan' = [plan EXCEPT ![u].branch = b, ![u].remote = FALSE, ![u].parent = FALSE]
        BY Zenon, <2>2, <4>1 DEF BeginAdmit
      <4>3. plan'[p].branch \in {plan[p].branch} \cup (IF p = u THEN {b} ELSE {})
        BY <4>2 DEF TypeOK, Plans
      <4> QED
        BY Zenon, <4>1, <4>3 DEF ExecutionBranch
    <3> QED
      BY Zenon, <1>3, <3>1, OverStays DEF Own
  <2>3. ASSUME NEW u \in Ops, NEW q \in world.requests, BeginPlan(u, q) PROVE phase'[o] \in Over
    <3>1. q \in Requests /\ q.session \in Sessions
      BY Zenon, Constants DEF TypeOK, World, Requests
    <3>2. PICK b \in {Anew(q.session)} \cup Deltas(q.session, q.socket) \cup Matches(q.session, u) :
            plan' = [plan EXCEPT ![u] =
                      [session |-> q.session, socket |-> q.socket, turn |-> q.turn, branch |-> b.branch,
                       remote |-> b.remote, parent |-> b.parent, expanded |-> FALSE, token |-> None]]
      BY Zenon, <2>3 DEF BeginPlan
    <3>3. CASE p # u
      <4>1. plan'[p] = plan[p]
        BY Zenon, <3>2, <3>3 DEF TypeOK
      <4> QED
        BY Zenon, <1>3, <4>1, OverStays DEF Own
    <3>4. CASE p = u
      <4>1. plan'[p].branch = b.branch
        BY Zenon, <3>2, <3>4 DEF TypeOK
      <4>2. b.branch \in {q.session, u} \cup {rec[r].branch : r \in Baselines(q.session)}
        BY Zenon, <3>1, <3>2, PlanOptions
      <4>3. PICK r \in Baselines(q.session) : rec[r].branch = o
        BY ZenonT(60), <1>1, <1>3, <3>1, <3>4, <4>1, <4>2
      <4>4. r \in Ops /\ phase[r] \in Over
        BY Zenon, <4>3 DEF Baselines, Record
      <4>5. phase[o] \in Over
        BY Zenon, <4>3, <4>4 DEF Own
      <4> QED
        BY Zenon, <4>5, OverStays
    <3> QED
      BY Zenon, <3>3, <3>4
  <2> QED
    BY Zenon, <2>1, <2>2, <2>3
<1> QED
  BY Zenon, <1>2, <1>3

LEMMA NextApart ==
    ASSUME TypeOK, Call, \A o \in Ops : Operation(o), \A o, p \in Ops : Own(o, p) /\ Apart(o, p), [Next]_vars
    PROVE  \A o, p \in Ops : Apart(o, p)'
PROOF
<1>1. CASE \A u \in Ops : ~BeginAdmit(u) /\ \A q \in world.requests : ~BeginPlan(u, q)
  <2>1. \A p \in Ops : SameLane(p)
    BY ZenonT(60), <1>1, LanesStay
  <2> QED
    BY <2>1 DEF Apart, SameLane, Admissible
<1>2. ASSUME NEW u \in Ops, NEW q \in world.requests, BeginPlan(u, q) PROVE \A o, p \in Ops : Apart(o, p)'
  <2>1. phase'[u] \notin Admissible
    BY Zenon, <1>2 DEF BeginPlan, TypeOK, Admissible, Active
  <2>2. \A p \in Ops \ {u} : phase'[p] = phase[p] /\ plan'[p] = plan[p]
    BY Zenon, <1>2 DEF BeginPlan, TypeOK
  <2> QED
    BY <2>1, <2>2 DEF Apart, Admissible
<1>3. ASSUME NEW u \in Ops, BeginAdmit(u) PROVE \A o, p \in Ops : Apart(o, p)'
  <2>1. PICK b : b = ExecutionBranch(u)
    BY Zenon
  <2>2. plan' = [plan EXCEPT ![u].branch = b, ![u].remote = FALSE, ![u].parent = FALSE]
    BY Zenon, <1>3, <2>1 DEF BeginAdmit
  <2>3. /\ plan'[u].branch = b /\ plan'[u].session = plan[u].session /\ plan'[u].turn = plan[u].turn
        /\ plan'[u].socket = plan[u].socket
    BY <2>2 DEF TypeOK, Plans
  <2>4. \A p \in Ops \ {u} : phase'[p] = phase[p] /\ plan'[p] = plan[p]
    BY Zenon, <1>3 DEF BeginAdmit, TypeOK
  <2>5. phase[u] = "planned" /\ ~SocketTaken(u) /\ \A p \in Ops : phase[p] # "admitting"
    BY Zenon, <1>3, Idling DEF BeginAdmit, Calling
  <2>6. ASSUME NEW p \in Ops \ {u}, phase'[p] \in Admissible
        PROVE  /\ plan'[u].socket = None \/ plan'[u].socket # plan'[p].socket
               /\ \/ plan'[u].session # plan'[p].session \/ plan'[u].turn # plan'[p].turn
                  \/ plan'[u].branch # plan'[p].branch
    <3>1. phase[p] \in Active
      BY Zenon, <2>4, <2>5, <2>6 DEF Admissible
    <3>2. plan[p].branch # u
      BY Zenon, <2>5, <2>6 DEF Own, Over
    <3>3. plan'[u].socket = None \/ plan'[u].socket # plan'[p].socket
      BY Zenon, <2>3, <2>4, <2>5, <3>1 DEF SocketTaken
    <3>4. CASE Occupied(u)
      BY ZenonT(60), <2>1, <2>3, <2>4, <3>2, <3>3, <3>4 DEF ExecutionBranch
    <3>5. CASE ~Occupied(u)
      BY ZenonT(60), <2>1, <2>3, <2>4, <3>1, <3>3, <3>5 DEF ExecutionBranch, Occupied
    <3> QED
      BY Zenon, <3>4, <3>5
  <2>7. ASSUME NEW o \in Ops, NEW p \in Ops PROVE Apart(o, p)'
    <3>1. CASE o # u /\ p # u
      BY <2>4, <3>1 DEF Apart
    <3>2. CASE o = u
      BY Zenon, <2>6, <3>2 DEF Apart, Admissible
    <3>3. CASE p = u
      BY Zenon, <2>6, <3>3 DEF Apart, Admissible
    <3> QED
      BY ZenonT(60), <3>1, <3>2, <3>3
  <2> QED
    BY Zenon, <2>7
<1> QED
  BY <1>1, <1>2, <1>3, ZenonT(60)

\* A socket that is bound is open.
LEMMA NextBound ==
    ASSUME TypeOK, Call, Bound, [Next]_vars
    PROVE  Bound'
PROOF
<1>1. CASE binding' = binding /\ open \subseteq open'
  BY Zenon, <1>1 DEF Bound
<1>2. ASSUME NEW o \in Ops, Commit(o) PROVE Bound'
  <2>1. plan[o].socket \in open \cup {None} /\ open' = open
        /\ binding' = IF plan[o].socket = None THEN binding ELSE [binding EXCEPT ![plan[o].socket] = plan[o].session]
    BY Zenon, <1>2, Committing DEF Publish, Connected, env
  <2> QED
    BY Zenon, <2>1 DEF Bound, TypeOK
<1>3. ASSUME NEW k \in Sockets, SocketClosed(k) PROVE Bound'
  BY Zenon, <1>3 DEF SocketClosed, Bound, TypeOK
<1>4. CASE UNCHANGED vars \/ RoomStep
  <2>1. (\E o \in Ops : Commit(o)) \/ UNCHANGED <<binding, open>>
    BY <1>4, ZenonT(60)
       DEF vars, RoomStep, EvictHistory, EvictRecord, EvictSurplus, ReclaimComparison, EvictUnreferencedSession, Planned,
           PlanRemotely, RefusePlan, Refuse, FullInput, Room, RefuseSurplus, Admitted, ItemKept, ItemDropped, DropOutput,
           CompleteWith, CompleteWithout, Complete, LearnTurn, LearnStartup, LearnLate, NotLearned, scopeVars, env
  <2> QED
    BY ZenonT(60), <1>1, <1>2, <2>1
<1>5. ASSUME NEW o \in Ops, Request(o) PROVE Bound'
  <2>1. UNCHANGED <<binding, open>>
    BY <1>5, ZenonT(60)
       DEF Request, BeginPlan, BeginFullInput, AdmitConflict, BeginAdmit, Expire, ExpireScopes, BeginCommit, Created,
           BeginItem, Fail, BeginComplete, DetachSseFailure, DropLease, BeginLearn, BeginLearnStartup, BeginLearnLate,
           scopeVars, env
  <2> QED
    BY Zenon, <1>1, <2>1
<1>6. ASSUME NEW k \in Sockets, Connection(k) PROVE Bound'
  <2>1. SocketClosed(k) \/ (binding' = binding /\ open \subseteq open')
    BY Zenon, <1>6 DEF Connection, SocketOpen, TrackBaseline, RelayUses, scopeVars, env
  <2> QED
    BY Zenon, <1>1, <1>3, <2>1
<1>7. CASE EnforceBaselines \/ Sweep \/ \E s \in Sessions : \E S \in SUBSET {s} : Idle(s, S)
  <2>1. UNCHANGED <<binding, open>>
    BY <1>7, ZenonT(60) DEF EnforceBaselines, Sweep, Expire, ExpireScopes, Idle, env
  <2> QED
    BY Zenon, <1>1, <2>1
<1> QED
  BY <1>4, <1>5, <1>6, <1>7, ZenonT(60) DEF Next
-----------------------------------------------------------------------------
(* Theorems.                                                                *)

LEMMA Start == Init => IInv
PROOF
<1> SUFFICES ASSUME Init PROVE IInv
  BY Zenon
<1>1. TypeOK
  BY Empty, Constants DEF Init, TypeOK, Phases
<1>2. /\ NoPlan.branch = None /\ NoPlan.token = None /\ NoPlan.expanded = FALSE /\ NoRecord.branch = None
      /\ NoRoom.use = "none" /\ NoRoom.op = None
  BY Zenon DEF NoPlan, NoRecord, NoRoom
<1>3. Call
  BY Zenon, <1>2 DEF Init, Call, Calling
<1>4. \A o \in Ops : Operation(o)
  BY ZenonT(60), <1>2 DEF Init, Operation, Working, Reserved, Active, Visible, Over
<1>5. \A o \in Ops : Record(o)
  BY DEF Init, Record, NoRecord, Present
<1>6. \A o, p \in Ops : Own(o, p) /\ Apart(o, p)
  BY Zenon, <1>2, Constants DEF Init, Own, Apart, Active
<1>7. Bound
  BY Zenon DEF Init, Bound
<1> QED
  BY ZenonT(60), <1>1, <1>3, <1>4, <1>5, <1>6, <1>7 DEF IInv

\* The store's state is always what its operations' phases and the call in progress say.
THEOREM Invariance == Spec => []IInv
PROOF
<1>1. Init => IInv
  BY Zenon, Start
<1>2. IInv /\ [Next]_vars => IInv'
  BY NextTypes, NextCall, NextOperates, NextRecords, NextOwn, NextApart, NextBound, ZenonT(60) DEF IInv
<1> QED
  BY <1>1, <1>2, PTL DEF Spec

\* Through plan, full_input, admit, commit_admission, observe and terminal assembly, whichever of
\* them fails, an operation is charged for exactly what it holds.
THEOREM Charged == Spec => []ChargeIsExact
PROOF
<1>1. IInv => ChargeIsExact
  BY Zenon DEF IInv, Operation, ChargeIsExact
<1> QED
  BY <1>1, Invariance, PTL

\* admit gives no two operations one socket or one lane.
THEOREM Owned == Spec => []OneOwner
PROOF
<1>1. IInv => OneOwner
  BY Zenon DEF IInv, Apart, OneOwner
<1> QED
  BY <1>1, Invariance, PTL

\* adopt_startup and learn_completed_startup hand a prewarm's token to one turn.
THEOREM Handed == Spec => []HandedOnce
PROOF
<1>1. ASSUME IInv, NEW o \in Ops PROVE Cardinality(handed[o]) <= 1
  <2>1. PICK k \in Keys \cup {None} : handed[o] \subseteq {k}
    BY Zenon, <1>1 DEF IInv, Record
  <2>2. handed[o] = {} \/ handed[o] = {k}
    BY Zenon, <2>1
  <2>3. Cardinality({}) = 0 /\ Cardinality({k}) = 1
    BY Zenon, FS_EmptySet, FS_Singleton
  <2> QED
    BY <2>2, <2>3
<1>2. IInv => HandedOnce
  BY Zenon, <1>1 DEF HandedOnce
<1> QED
  BY <1>2, Invariance, PTL

\* A token that is there is replaced by none.
LEMMA TokensStay ==
    ASSUME IInv, [Next]_vars, NEW s \in Sessions, Pinned(s), NEW k \in Keys, KeySession(k) = s, routing[k] # None
    PROVE  routing'[k] = routing[k]
PROOF
<1>0. TypeOK /\ Call /\ \A o \in Ops : Operation(o)
  BY Zenon DEF IInv
<1>1. CASE routing' = routing
  BY Zenon, <1>1
<1>2. CASE ExpireScopes \/ (\E o \in Ops : EvictRecord(o)) \/ \E t \in Sessions : EvictUnreferencedSession(t)
  BY Zenon, <1>0, <1>2, PinnedStays
<1>3. ASSUME NEW o \in Ops, Commit(o) PROVE routing'[k] = routing[k]
  <2>1. CASE Prewarm(o)
    BY Zenon, <1>0, <1>3, <2>1, Committing DEF Publish
  <2>2. CASE ~Prewarm(o)
    <3>1. PICK t \in TurnTokens(o) : routing' = [routing EXCEPT ![Key(o)] = t]
      BY ZenonT(60), <1>0, <1>3, <2>2, Committing DEF Publish
    <3>2. Key(o) = k => t = routing[k]
      BY Zenon, <3>1 DEF TurnTokens
    <3> QED
      BY Zenon, <1>0, <3>1, <3>2 DEF TypeOK
  <2> QED
    BY Zenon, <2>1, <2>2
<1>4. CASE LearnTurn
  BY Zenon, <1>0, <1>4 DEF LearnTurn, Asking, Call, TypeOK
<1>5. CASE LearnLate
  BY ZenonT(60), <1>0, <1>5 DEF LearnLate, Asking, Call, TypeOK
<1>6. CASE UNCHANGED vars \/ RoomStep
  <2>1. \/ routing' = routing \/ LearnTurn \/ LearnLate
        \/ (\E o \in Ops : EvictRecord(o) \/ Commit(o)) \/ \E t \in Sessions : EvictUnreferencedSession(t)
    BY <1>6, ZenonT(60)
       DEF vars, RoomStep, EvictHistory, EvictSurplus, ReclaimComparison, Planned, PlanRemotely, RefusePlan, Refuse, FullInput,
           Room, RefuseSurplus, Admitted, ItemKept, ItemDropped, DropOutput, CompleteWith, CompleteWithout, Complete,
           LearnStartup, NotLearned, scopeVars
  <2> QED
    BY <1>1, <1>2, <1>3, <1>4, <1>5, <2>1, ZenonT(60)
<1>7. ASSUME NEW o \in Ops, Request(o) PROVE routing' = routing \/ ExpireScopes
  BY <1>7, ZenonT(60)
     DEF Request, BeginPlan, BeginFullInput, AdmitConflict, BeginAdmit, Expire, BeginCommit, Created, BeginItem, Fail,
         BeginComplete, DetachSseFailure, DropLease, BeginLearn, BeginLearnStartup, BeginLearnLate, scopeVars
<1>8. ASSUME \/ \E j \in Sockets : Connection(j)
             \/ EnforceBaselines \/ Sweep \/ \E t \in Sessions : \E S \in SUBSET {t} : Idle(t, S)
      PROVE  routing' = routing \/ ExpireScopes
  BY <1>8, ZenonT(60) DEF Connection, SocketOpen, SocketClosed, TrackBaseline, RelayUses, EnforceBaselines, Sweep, Expire, Idle, scopeVars
<1> QED
  BY <1>1, <1>2, <1>6, <1>7, <1>8, ZenonT(60) DEF Next

\* A history of a pinned session goes only for the number of records.
LEMMA HistoriesStay ==
    ASSUME IInv, [Next]_vars, NEW s \in Sessions, Pinned(s), NEW p \in Ops, rec[p].session = s, rec[p].history > 0
    PROVE  rec'[p].history = rec[p].history \/ (room.use = "records" /\ rec[p].socket = None)
PROOF
<1> DEFINE Goal == rec'[p].history = rec[p].history \/ (room.use = "records" /\ rec[p].socket = None)
<1>0. TypeOK /\ Call /\ phase[p] \in Over /\ Present(rec[p]) /\ rec \in [Ops -> Records] /\ rec[p] \in Records
  BY Zenon, Constants DEF IInv, Record, Present, TypeOK
<1>1. CASE rec' = rec
  BY Zenon, <1>1
<1>2. CASE ExpireScopes \/ (\E o \in Ops : EvictRecord(o)) \/ \E t \in Sessions : EvictUnreferencedSession(t)
  <2>1. rec'[p] = rec[p]
    BY Zenon, <1>0, <1>2, PinnedStays
  <2> QED
    BY Zenon, <2>1
<1>3. ASSUME NEW o \in Ops, Commit(o) PROVE Goal
  <2>1. rec'[p] \in {rec[p], AdoptStartup(p, o)}
    BY <1>0, <1>3, Committing DEF Publish
  <2>2. AdoptStartup(p, o).history = rec[p].history
    BY Zenon, <1>0 DEF AdoptStartup, Records
  <2> QED
    BY ZenonT(60), <2>1, <2>2
<1>4. ASSUME NEW o \in Ops, EvictHistory(o) PROVE Goal
  <2>1. o # p /\ rec' = [rec EXCEPT ![o].history = 0]
    BY Zenon, <1>4 DEF EvictHistory, Histories
  <2> QED
    BY Zenon, <1>0, <2>1
<1>5. ASSUME NEW o \in Ops, EvictSurplus(o) PROVE Goal
  <2>1. room.use = "records" /\ rec[o].socket = None /\ rec' = [rec EXCEPT ![o] = NoRecord]
    BY Zenon, <1>5 DEF EvictSurplus, Victims
  <2> QED
    BY Zenon, <1>0, <2>1
<1>6. ASSUME NEW o \in Ops, NEW r, phase[o] \notin Over, rec' = [rec EXCEPT ![o] = r] PROVE Goal
  BY Zenon, <1>0, <1>6
<1>7. ASSUME NEW o \in Ops, Created(o) \/ Fail(o) \/ DetachSseFailure(o) PROVE Goal
  <2>1. phase[o] \notin Over /\ \E r : rec' = [rec EXCEPT ![o] = r]
    BY Zenon, <1>7 DEF Created, Fail, DetachSseFailure, Observing, Over
  <2> QED
    BY Zenon, <1>6, <2>1
<1>8. ASSUME CompleteWith \/ CompleteWithout PROVE Goal
  <2>1. PICK o \in Ops : o = room.op /\ phase[o] \notin Over
    BY Zenon, <1>0, <1>8 DEF CompleteWith, CompleteWithout, Asking, Denied, Call, CallPhase, Over
  <2>2. \E r : rec' = [rec EXCEPT ![o] = r]
    BY Zenon, <1>8, <2>1 DEF CompleteWith, CompleteWithout, Complete
  <2> QED
    BY Zenon, <1>6, <2>1, <2>2
<1>9. ASSUME LearnLate PROVE Goal
  <2>1. rec'[p].history = rec[p].history
    BY <1>0, <1>9 DEF LearnLate, Records
  <2> QED
    BY Zenon, <2>1
<1>10. ASSUME NEW k \in Sockets, SocketClosed(k) PROVE Goal
  <2>1. rec'[p] \in {rec[p], Detached(rec[p])}
    BY Zenon, <1>10 DEF SocketClosed
  <2>2. Detached(rec[p]).history = rec[p].history
    BY Zenon, <1>0 DEF Detached, Records
  <2> QED
    BY Zenon, <2>1, <2>2
<1> HIDE DEF Goal
<1>11. ASSUME UNCHANGED vars \/ RoomStep PROVE Goal
  <2>1. \/ rec' = rec \/ CompleteWith \/ CompleteWithout \/ LearnLate
        \/ (\E o \in Ops : EvictHistory(o) \/ EvictRecord(o) \/ EvictSurplus(o) \/ Commit(o))
        \/ \E t \in Sessions : EvictUnreferencedSession(t)
    BY <1>11, ZenonT(60)
       DEF vars, RoomStep, ReclaimComparison, Planned, PlanRemotely, RefusePlan, Refuse, FullInput, Room, RefuseSurplus,
           Admitted, ItemKept, ItemDropped, DropOutput, LearnTurn, LearnStartup, NotLearned, scopeVars
  <2> QED
    BY <1>1, <1>2, <1>3, <1>4, <1>5, <1>8, <1>9, <2>1, ZenonT(60) DEF Goal
<1>12. ASSUME NEW o \in Ops, Request(o) PROVE Goal
  <2>1. rec' = rec \/ ExpireScopes \/ Created(o) \/ Fail(o) \/ DetachSseFailure(o)
    BY <1>12, ZenonT(60)
       DEF Request, BeginPlan, BeginFullInput, AdmitConflict, BeginAdmit, Expire, BeginCommit, BeginItem,
           BeginComplete, DropLease, BeginLearn, BeginLearnStartup, BeginLearnLate, scopeVars
  <2> QED
    BY <1>1, <1>2, <1>7, <2>1, ZenonT(60) DEF Goal
<1>13. ASSUME \/ \E k \in Sockets : Connection(k)
              \/ EnforceBaselines \/ Sweep \/ \E t \in Sessions : \E S \in SUBSET {t} : Idle(t, S)
       PROVE  Goal
  <2>1. rec' = rec \/ ExpireScopes \/ \E k \in Sockets : SocketClosed(k)
    BY <1>13, ZenonT(60) DEF Connection, SocketOpen, TrackBaseline, RelayUses, EnforceBaselines, Sweep, Expire, Idle, scopeVars
  <2> QED
    BY <1>1, <1>2, <1>10, <2>1, ZenonT(60) DEF Goal
<1> QED
  BY <1>11, <1>12, <1>13, ZenonT(60) DEF Next, Goal

\* No eviction and no expiry takes from a session what its operations at work rely on.
THEOREM Pinning == Spec => PinnedIsKept
PROOF
<1> DEFINE A == \A s \in {plan[o].session : o \in {p \in Ops : Working(p) /\ Working(p)'}} :
                    /\ s \in known => s \in known'
                    /\ \A k \in Keys : KeySession(k) = s /\ routing[k] # None => routing'[k] = routing[k]
                    /\ \A p \in Ops : rec[p].session = s /\ rec[p].history > 0 =>
                            \/ rec'[p].history = rec[p].history
                            \/ room.use = "records" /\ rec[p].socket = None
<1>1. IInv /\ [Next]_vars => A
  <2> SUFFICES ASSUME IInv, [Next]_vars, NEW o \in Ops, Working(o), NEW s, s = plan[o].session
               PROVE  /\ s \in known => s \in known'
                      /\ \A k \in Keys : KeySession(k) = s /\ routing[k] # None => routing'[k] = routing[k]
                      /\ \A p \in Ops : rec[p].session = s /\ rec[p].history > 0 =>
                              \/ rec'[p].history = rec[p].history
                              \/ room.use = "records" /\ rec[p].socket = None
    OBVIOUS
  <2>1. TypeOK /\ Call /\ \A p \in Ops : Operation(p)
    BY Zenon DEF IInv
  <2>2. s \in Sessions /\ Pinned(s)
    <3>1. phase[o] \notin {"new"} \cup Over
      BY Zenon DEF Working, Reserved, Active, Over
    <3> QED
      BY Zenon, <2>1, <3>1, KeyTypes DEF Pinned
  <2>3. s \in known => s \in known'
    BY Zenon, <2>1, KnownStays
  <2>4. \A k \in Keys : KeySession(k) = s /\ routing[k] # None => routing'[k] = routing[k]
    BY Zenon, <2>2, TokensStay
  <2>5. \A p \in Ops : rec[p].session = s /\ rec[p].history > 0 =>
            rec'[p].history = rec[p].history \/ (room.use = "records" /\ rec[p].socket = None)
    BY Zenon, <2>2, HistoriesStay
  <2> QED
    BY ZenonT(60), <2>3, <2>4, <2>5
<1>2. IInv /\ [Next]_vars => [A]_vars
  BY Zenon, <1>1
<1> HIDE DEF A
<1>3. Spec => [][A]_vars
  BY <1>2, Invariance, PTL DEF Spec
<1> QED
  BY <1>3, PTL DEF A, PinnedIsKept

\* A sweep of a store where nothing is at work leaves nothing.
THEOREM Swept == Spec => NothingLeaks
PROOF
<1> DEFINE A == (open = {} /\ known \subseteq idle /\ (\A o \in Ops : ~Working(o)) /\ Sweep) =>
                    /\ known' = {} /\ \A s \in Sessions : activity'[s] = "none"
                    /\ \A o \in Ops : ~Present(rec'[o]) /\ charge'[o] = 0
                    /\ \A k \in Keys : routing'[k] = None
<1>1. IInv /\ [Next]_vars => A
  <2> SUFFICES ASSUME IInv, open = {}, known \subseteq idle, \A o \in Ops : ~Working(o), Sweep
               PROVE  /\ known' = {} /\ \A s \in Sessions : activity'[s] = "none"
                      /\ \A o \in Ops : ~Present(rec'[o]) /\ charge'[o] = 0
                      /\ \A k \in Keys : routing'[k] = None
    BY Zenon
  <2>1. TypeOK /\ Call /\ Bound /\ \A o \in Ops : Operation(o) /\ Record(o)
    BY Zenon DEF IInv
  <2>2. Free /\ ExpireScopes /\ charge' = charge
    BY Zenon DEF Sweep, Expire, opVars
  <2>3. QuietScopes = Scopes /\ Expired = known
    BY Zenon DEF QuietScopes, PinnedScope, Expired, Pinned
  <2>4. \A s \in Sessions : ScopeOf[s] \in QuietScopes
    BY Zenon, <2>3, Constants
  <2>5. ASSUME NEW o \in Ops PROVE ~Present(rec'[o])
    <3>1. rec'[o] = ExpiredRecord(rec[o]) /\ ~Present(NoRecord)
      BY Zenon, <2>2 DEF ExpireScopes, Present, NoRecord
    <3>2. Present(rec[o]) => rec[o].session \in known /\ rec[o].session \in Sessions /\ rec[o].socket = None
      BY Zenon, <2>1 DEF Record, TypeOK
    <3> QED
      BY Zenon, <2>3, <2>4, <3>1, <3>2 DEF ExpiredRecord
  <2>6. known' = {}
    <3>1. ASSUME NEW s \in known' PROVE FALSE
      <4>1. s \in known /\ s \in Sessions /\ s # None
        BY SMTT(60), <2>1, <2>2, <3>1, Constants DEF ExpireScopes, PruneMetadata, KeptSessions, TypeOK
      <4>2. (\E o \in Ops : rec'[o].session = s) \/ \E k \in Sockets : binding[k] = s
        BY ZenonT(60), <2>2, <2>4, <3>1, <4>1 DEF ExpireScopes, PruneMetadata, KeptSessions
      <4> QED
        BY SMTT(60), <2>1, <2>5, <4>1, <4>2 DEF Bound, Present
    <3> QED
      BY Zenon, <3>1
  <2>7. \A s \in Sessions : activity'[s] = "none"
    BY ZenonT(60), <2>2, <2>4, <2>6 DEF ExpireScopes, PruneMetadata, KeptActivity
  <2>8. ASSUME NEW o \in Ops PROVE charge'[o] = 0
    <3>1. phase[o] # "admitting"
      BY Zenon, <2>1, <2>2, Idling DEF Calling
    <3> QED
      BY Zenon, <2>1, <2>2, <3>1 DEF Operation
  <2>9. ASSUME NEW k \in Keys PROVE routing'[k] = None
    <3>1. KeySession(k) \in Sessions
      BY Zenon, Constants DEF Keys, KeySession
    <3> QED
      BY ZenonT(60), <2>2, <2>4, <2>5, <2>6, <3>1 DEF ExpireScopes, PruneMetadata, KeptRouting
  <2> QED
    BY ZenonT(60), <2>5, <2>6, <2>7, <2>8, <2>9
<1>2. IInv /\ [Next]_vars => [A]_vars
  BY Zenon, <1>1
<1> HIDE DEF A
<1>3. Spec => [][A]_vars
  BY <1>2, Invariance, PTL DEF Spec
<1> QED
  BY Zenon, <1>3 DEF A, NothingLeaks

=============================================================================
