---------------------------- MODULE VaultProofs ----------------------------
(***************************************************************************)
(* What holds of every state directory, whatever tasks use it, whenever    *)
(* they are interrupted and however often the core is restarted.           *)
(*                                                                         *)
(* An invariant of a file of an account follows from what the task that    *)
(* holds the account's lock has done so far (Task); nobody else changes    *)
(* the account's files (Aside, TaskStays).                                 *)
(***************************************************************************)
EXTENDS Vault, TLAPS

\* How long a leaf may take.
USE SMTT(60), ZenonT(60)

Tokens == [status: {"none", "ready", "login"}, refresh: Nat, access: Nat]
Jobs == [kind: Kinds, account: Accounts]

OpenPlaces == {"open", "sidecars", "states", "sweep", "sweepRouting"}
CreatePlaces == {"authorize", "exchange", "create", "record", "owner", "undo"}
RemovePlaces == {"unlink", "disown", "unroute", "sidecar"}
CommandPlaces ==
    OpenPlaces \cup CreatePlaces \cup RemovePlaces \cup
    {"lock", "mode", "receipt", "revoke", "revoking", "remove", "done", "failed"}
RequestPlaces ==
    {"lock", "refresh", "persist", "edit", "send", "learn", "translate", "done", "failed"}
CorePlaces == {"idle", "instance", "up"} \cup OpenPlaces
AllPlaces == CommandPlaces \cup RequestPlaces \cup CorePlaces

\* Where a task has its account locked.
Holding ==
    {"record", "owner", "undo", "mode", "revoking", "refresh", "persist"} \cup RemovePlaces

TypeOK ==
    /\ world \in Worlds
    /\ record \in [Accounts -> Tokens]
    /\ finger \in [Accounts -> [revision: Nat, mode: {"off", "device"}]]
    /\ receipt \in [Accounts -> {"none", "revoked", "service"}]
    /\ owners \in [Namespaces -> SUBSET Accounts] /\ routing \in [Namespaces -> BOOLEAN]
    /\ accountLock \in [Accounts -> Tasks \cup {None}]
    /\ stateLock \in [Namespaces -> Everyone \cup {None}]
    /\ pc \in [Everyone -> AllPlaces]
    /\ job \in [Everyone -> Jobs \cup {NoJob}]
    /\ todo \in [Everyone -> SUBSET (Accounts \cup (Namespaces \X {"state", "routing"}))]
    /\ step \in [Tasks -> Nat] /\ token \in [Tasks -> Nat] /\ draft \in [Tasks -> Tokens]
    /\ rows \subseteq Tasks
    /\ issuer \in [Accounts -> [refresh: Nat, access: Nat, revoked: BOOLEAN]]
    /\ rejected \in [Accounts -> SUBSET Nat]
    /\ detached \subseteq [account: Accounts, write: Tokens]
    /\ crashes \in Nat
    /\ created \subseteq Accounts /\ removed \subseteq Accounts /\ dropped \subseteq Accounts

\* Where a task of its kind can be.
PlacesOf(t) ==
    IF t = Core THEN CorePlaces ELSE IF job[t] = NoJob THEN {"idle"}
    ELSE IF job[t].kind = "request" THEN RequestPlaces ELSE CommandPlaces

Placed == job[Core] = NoJob /\ \A t \in Everyone : pc[t] \in PlacesOf(t)

\* No file has been written for the account, or none that a dropped request wrote.
Absent(a) == ~Exists(a) \/ a \in dropped

\* What a task knows of the account it has locked.
Task(t) ==
    LET a == Acc(t) IN
    /\ pc[t] \in Holding => accountLock[a] = t
    /\ pc[t] \in {"record", "owner", "undo"} => receipt[a] = "none" /\ a \notin created \ dropped
    /\ pc[t] \in {"record", "owner"} => HasFinger(a)
    /\ pc[t] \in {"record", "undo"} => Absent(a)
    /\ pc[t] \in {"owner", "refresh", "persist"} => Exists(a)
    /\ pc[t] \in {"refresh", "persist"} => draft[t].status # "none"
    /\ pc[t] = "remove" /\ job[t].kind = "revoke" => issuer[a].revoked
    /\ pc[t] \in RemovePlaces => receipt[a] # "none"
    /\ pc[t] \in {"disown", "unroute", "sidecar"} => Absent(a)

\* What an account's files are when nobody has it locked, and when somebody does.
Files(a) ==
    /\ a \notin dropped /\ Exists(a) => HasFinger(a)
    /\ a \in created \ dropped => Exists(a) \/ receipt[a] # "none"
    /\ a \in removed \ dropped => ~Exists(a) /\ receipt[a] # "none"
    /\ receipt[a] = "revoked" => issuer[a].revoked

\* The state that is there knows those who use it.
Known(a) ==
    a \in created \ dropped /\ Exists(a) /\ owners[NamespaceOf[a]] # {} => a \in owners[NamespaceOf[a]]

\* Nobody whose creation has returned uses the state.
Unused(n) == \A a \in created \ dropped : NamespaceOf[a] = n => ~Exists(a)

\* Who has a state locked, and why.
StateLocked(n, t) ==
    stateLock[n] = t => \/ pc[t] \in {"disown", "unroute"} /\ n = Ns(t)
                        \/ pc[t] = "sweepRouting"
                        \/ pc[t] = "sweep" /\ Unused(n)

\* A write that a dropped request left behind puts a record there.
Writes == \A d \in detached : d.account \in dropped /\ d.write.status # "none"

\* Where the core is before it serves.
Booting == OpenPlaces \cup {"instance"}

\* Requests run in a core.
Served == \A t \in Requests : Running(t) => pc[Core] = "up"

Accounted == \A a \in Accounts : Files(a) /\ Known(a)
StateLocks == \A n \in Namespaces, t \in Everyone : StateLocked(n, t)
-----------------------------------------------------------------------------
(* Types and places.                                                        *)

\* A step of Vault or of the core's process on the state directory.
VaultStep ==
    \/ Next \/ BootCore \/ CoreReady \/ CoreDies \/ CoreOrphaned \/ OrphanGone \/ UNCHANGED vars

LEMMA Moves ==
    ASSUME TypeOK, Placed, NEW t \in Everyone, NEW p \in PlacesOf(t),
           pc' = [pc EXCEPT ![t] = p], job' = job
    PROVE  pc' \in [Everyone -> AllPlaces] /\ Placed'
PROOF
<1>1. p \in AllPlaces
  BY Zenon DEF PlacesOf, AllPlaces, CommandPlaces, CorePlaces
<1>2. PlacesOf(t)' = PlacesOf(t) /\ \A u \in Everyone : PlacesOf(u)' = PlacesOf(u)
  BY Zenon DEF PlacesOf
<1>3. pc' \in [Everyone -> AllPlaces]
  BY Zenon, <1>1 DEF TypeOK
<1> QED
  BY <1>2, <1>3 DEF TypeOK, Placed

\* Where a task is says of which kind it is.
LEMMA Kinded ==
    ASSUME TypeOK, Placed, NEW t \in Everyone
    PROVE  /\ pc[t] \in OpenPlaces => /\ OpenPlaces \subseteq PlacesOf(t)
                                      /\ t # Core => job[t] \in Jobs /\ job[t].kind # "request"
           /\ t \in Tasks /\ pc[t] \in CommandPlaces \ RequestPlaces
                => PlacesOf(t) = CommandPlaces /\ job[t] \in Jobs /\ job[t].kind # "request"
           /\ t \in Tasks /\ pc[t] \in RequestPlaces \ CommandPlaces
                => PlacesOf(t) = RequestPlaces /\ job[t] \in Jobs /\ job[t].kind = "request"
           /\ t \in Tasks /\ pc[t] # "idle"
                => /\ job[t] \in Jobs
                   /\ PlacesOf(t) = IF job[t].kind = "request" THEN RequestPlaces ELSE CommandPlaces
PROOF
<1>1. /\ t = Core \/ t \in Tasks
      /\ Core \notin Tasks
      /\ pc[t] \in PlacesOf(t) /\ job[t] \in Jobs \cup {NoJob} /\ job[Core] = NoJob
  BY Zenon, VaultAssumption DEF Everyone, TypeOK, Placed
<1>2. "idle" \notin CommandPlaces \cup RequestPlaces \cup OpenPlaces
  BY Zenon DEF CommandPlaces, RequestPlaces, OpenPlaces, CreatePlaces, RemovePlaces
<1>3. OpenPlaces \subseteq CommandPlaces /\ OpenPlaces \subseteq CorePlaces /\ OpenPlaces \cap RequestPlaces = {}
  BY Zenon DEF CommandPlaces, RequestPlaces, OpenPlaces, CorePlaces
<1> QED
  BY Zenon, <1>1, <1>2, <1>3 DEF PlacesOf

LEMMA OpenPlaced ==
    ASSUME TypeOK, Placed, NEW t \in Everyone, OpenStep(t)
    PROVE  pc' \in [Everyone -> AllPlaces] /\ Placed'
PROOF
<1>1. CASE \E p \in OpenPlaces : pc[t] \in OpenPlaces /\ pc' = [pc EXCEPT ![t] = p] /\ job' = job
  BY ZenonT(60), <1>1, Kinded, Moves
<1>2. CASE UNCHANGED <<pc, job>>
  BY Zenon, <1>2 DEF TypeOK, Placed, PlacesOf
<1>3. CASE Opened(t)
  <2>1. pc[t] \in OpenPlaces /\ pc' = [pc EXCEPT ![t] = FirstStep[job[t].kind]] /\ job' = job
    BY Zenon, <1>3 DEF Opened, Move, OpenPlaces
  <2>2. FirstStep[job[t].kind] \in PlacesOf(t)
    <3>1. CASE t = Core
      BY <3>1 DEF Placed, NoJob, FirstStep, PlacesOf, CorePlaces
    <3>2. CASE t # Core
      <4>1. job[t].kind \in {"create", "mode", "remove", "revoke"} /\ job[t] # NoJob
        BY <2>1, <3>2, Kinded DEF Jobs, Kinds, NoJob
      <4> QED
        BY <3>2, <4>1 DEF FirstStep, PlacesOf, CommandPlaces, CreatePlaces
    <3> QED
      BY Zenon, <3>1, <3>2
  <2> QED
    BY ZenonT(60), <2>1, <2>2, Moves
<1>4. ASSUME NEW a \in todo[t], OpenSidecar(t, a) PROVE UNCHANGED <<pc, job>>
  BY Zenon, <1>4 DEF OpenSidecar
<1>5. ASSUME NEW e \in todo[t], OpenState(t, e)
      PROVE  \/ UNCHANGED <<pc, job>>
             \/ \E p \in OpenPlaces : pc[t] \in OpenPlaces /\ pc' = [pc EXCEPT ![t] = p] /\ job' = job
  BY Zenon, <1>5 DEF OpenState, OpenPlaces
<1>6. OpenList(t) \/ OpenStates(t) \/ OpenRemoveState(t) \/ OpenRemoveRouting(t)
      => \E p \in OpenPlaces : pc[t] \in OpenPlaces /\ pc' = [pc EXCEPT ![t] = p] /\ job' = job
  BY Zenon DEF OpenList, OpenStates, OpenRemoveState, OpenRemoveRouting, Move, OpenPlaces
<1> QED
  BY Zenon, <1>1, <1>2, <1>3, <1>4, <1>5, <1>6 DEF OpenStep

LEMMA CreatePlaced ==
    ASSUME TypeOK, Placed, NEW t \in Tasks, CreateStep(t)
    PROVE  pc' \in [Everyone -> AllPlaces] /\ Placed'
PROOF
<1>0. t \in Everyone
  BY Zenon DEF Everyone
<1>1. PICK p \in CommandPlaces : /\ pc[t] \in CommandPlaces \ RequestPlaces
                               /\ pc' = [pc EXCEPT ![t] = p] /\ job' = job
  BY ZenonT(60) DEF CreateStep, SignIn, ExchangeCode, Import, AddApiKey, CreateSidecar,
         CreateRecord, CreateOwner, UndoCreate, Move, Rest, CommandPlaces, RequestPlaces, CreatePlaces
<1>2. PlacesOf(t) = CommandPlaces
  BY Zenon, <1>0, <1>1, Kinded
<1> QED
  BY ZenonT(60), <1>0, <1>1, <1>2, Moves

LEMMA CommandPlaced ==
    ASSUME TypeOK, Placed, NEW t \in Tasks, CommandStep(t)
    PROVE  pc' \in [Everyone -> AllPlaces] /\ Placed'
PROOF
<1>0. t \in Everyone
  BY Zenon DEF Everyone
<1>1. CASE LockForMode(t)
  <2>1. PICK p \in CommandPlaces : /\ pc[t] = "lock" /\ job[t].kind = "mode"
                                 /\ pc' = [pc EXCEPT ![t] = p] /\ job' = job
    BY ZenonT(60), <1>1 DEF LockForMode, Move, Rest, CommandPlaces
  <2>2. PlacesOf(t) = CommandPlaces
    BY Zenon, <1>0, <2>1, Kinded
  <2> QED
    BY ZenonT(60), <1>0, <2>1, <2>2, Moves
<1>2. CASE CommandStep(t) /\ ~LockForMode(t)
  <2>1. PICK p \in CommandPlaces : /\ pc[t] \in CommandPlaces \ RequestPlaces
                                 /\ pc' = [pc EXCEPT ![t] = p] /\ job' = job
    BY ZenonT(60), <1>2 DEF CommandStep, SetMode, ReadReceipt, LockForRevoke, Revoke, RemoveReceipt, RemoveRecord,
                RemoveOwner, RemoveRouting, RemoveSidecar, Move, Rest, CommandPlaces, RequestPlaces,
                RemovePlaces
  <2>2. PlacesOf(t) = CommandPlaces
    BY Zenon, <1>0, <2>1, Kinded
  <2> QED
    BY Zenon, <1>0, <2>1, <2>2, Moves
<1> QED
  BY Zenon, <1>1, <1>2

LEMMA RequestPlaced ==
    ASSUME TypeOK, Placed, NEW t \in Tasks, RequestStep(t)
    PROVE  pc' \in [Everyone -> AllPlaces] /\ Placed'
PROOF
<1>0. t \in Everyone
  BY Zenon DEF Everyone
<1>1. CASE LockRecord(t)
  <2>1. PICK p \in RequestPlaces : /\ pc[t] = "lock" /\ job[t].kind = "request"
                                 /\ pc' = [pc EXCEPT ![t] = p] /\ job' = job
    BY ZenonT(60), <1>1 DEF LockRecord, Resolved, Fail, RequestPlaces
  <2>2. PlacesOf(t) = RequestPlaces
    BY Zenon, <1>0, <2>1, Kinded
  <2> QED
    BY ZenonT(60), <1>0, <2>1, <2>2, Moves
<1>2. CASE RequestStep(t) /\ ~LockRecord(t)
  <2>1. PICK p \in RequestPlaces : /\ pc[t] \in RequestPlaces \ CommandPlaces
                                 /\ pc' = [pc EXCEPT ![t] = p] /\ job' = job
    BY ZenonT(60), <1>2 DEF RequestStep, Refresh, Persist, Edit, Send, Learn, Translate, Resolved, Fail,
                CommandPlaces, RequestPlaces, OpenPlaces, CreatePlaces, RemovePlaces
  <2>2. PlacesOf(t) = RequestPlaces
    BY Zenon, <1>0, <2>1, Kinded
  <2> QED
    BY ZenonT(60), <1>0, <2>1, <2>2, Moves
<1> QED
  BY Zenon, <1>1, <1>2

LEMMA OpenTypes ==
    ASSUME TypeOK, Placed, NEW t \in Everyone, OpenStep(t)
    PROVE  TypeOK'
PROOF
<1>0. pc' \in [Everyone -> AllPlaces]
  BY Zenon, OpenPlaced
<1> USE DEF TypeOK, files, locks, locals, provider, history
<1>1. CASE OpenList(t)
  BY Zenon, <1>0, <1>1 DEF OpenList
<1>2. CASE OpenStates(t)
  BY Zenon, <1>0, <1>2 DEF OpenStates
<1>3. CASE OpenRemoveState(t)
  BY Zenon, <1>0, <1>3 DEF OpenRemoveState
<1>4. CASE OpenRemoveRouting(t)
  BY Zenon, <1>0, <1>4 DEF OpenRemoveRouting, Swept
<1>5. CASE Opened(t)
  BY Zenon, <1>0, <1>5 DEF Opened
<1>6. ASSUME NEW a \in todo[t], OpenSidecar(t, a) PROVE TypeOK'
  BY ZenonT(60), <1>0, <1>6 DEF OpenSidecar, NoFinger
<1>7. ASSUME NEW e \in todo[t], OpenState(t, e) PROVE TypeOK'
  BY ZenonT(60), <1>0, <1>7 DEF OpenState
<1> QED
  BY <1>1, <1>2, <1>3, <1>4, <1>5, <1>6, <1>7, ZenonT(60) DEF OpenStep

LEMMA CreateTypes ==
    ASSUME TypeOK, Placed, NEW t \in Tasks, CreateStep(t)
    PROVE  TypeOK'
PROOF
<1>0. pc' \in [Everyone -> AllPlaces]
  BY Zenon, CreatePlaced
<1> USE DEF TypeOK, files, locks, locals, provider, history, Rest
<1>1. CASE SignIn(t) \/ ExchangeCode(t) \/ Import(t) \/ AddApiKey(t)
  BY Zenon, <1>0, <1>1 DEF SignIn, ExchangeCode, Import, AddApiKey
<1>2. CASE CreateSidecar(t)
  BY ZenonT(60), <1>0, <1>2 DEF CreateSidecar, Lock, NewFinger
<1>3. CASE CreateRecord(t)
  <2>1. pc[t] = "record"
    BY Zenon, <1>3 DEF CreateRecord, Move
  <2>2. NewRecord(Acc(t)) \in Tokens
    BY Zenon DEF NewRecord, Tokens
  <2> QED
    BY <1>0, <1>3, <2>2 DEF CreateRecord
<1>4. CASE CreateOwner(t)
  <2>1. t \in Everyone /\ pc[t] = "owner"
    BY Zenon, <1>4 DEF CreateOwner, Everyone
  <2>2. Acc(t) \in Accounts
    BY Zenon, <2>1, Kinded DEF Acc, Jobs, CommandPlaces, CreatePlaces, RequestPlaces
  <2>3. NoRecord \in Tokens
    BY Zenon DEF NoRecord, Tokens
  <2>4. accountLock' \in [Accounts -> Tasks \cup {None}]
    BY ZenonT(60), <1>4 DEF CreateOwner, Unlock
  <2>7. created' \subseteq Accounts
    BY Zenon, <1>4, <2>2 DEF CreateOwner
  <2>8. record' \in [Accounts -> Tokens]
    BY ZenonT(60), <1>4, <2>3 DEF CreateOwner
  <2>5. Registered(Ns(t), Acc(t)) \subseteq Accounts \/ Ns(t) \notin Namespaces
    BY Zenon, <2>2 DEF Registered
  <2>6. owners' \in [Namespaces -> SUBSET Accounts]
    BY ZenonT(60), <1>4, <2>5 DEF CreateOwner
  <2> QED
    BY <1>0, <1>4, <2>4, <2>6, <2>7, <2>8, ZenonT(60) DEF CreateOwner
<1>5. CASE UndoCreate(t)
  BY ZenonT(60), <1>0, <1>5 DEF UndoCreate, Unlock, NoFinger
<1> QED
  BY <1>1, <1>2, <1>3, <1>4, <1>5, ZenonT(60) DEF CreateStep

LEMMA CommandTypes ==
    ASSUME TypeOK, Placed, NEW t \in Tasks, CommandStep(t)
    PROVE  TypeOK'
PROOF
<1>0. pc' \in [Everyone -> AllPlaces]
  BY Zenon, CommandPlaced
<1> USE DEF TypeOK, files, locks, locals, provider, history, Rest
<1>1. \A a \in Accounts : LockedFinger(a) \in [revision: Nat, mode: {"off", "device"}]
  BY Zenon DEF LockedFinger, NewFinger, NoFinger
<1>2. CASE LockForMode(t)
  BY ZenonT(60), <1>0, <1>1, <1>2 DEF LockForMode, Lock
<1>3. CASE SetMode(t)
  <2>1. accountLock' \in [Accounts -> Tasks \cup {None}]
    BY ZenonT(60), <1>3 DEF SetMode, Unlock
  <2>2. finger' \in [Accounts -> [revision: Nat, mode: {"off", "device"}]]
    <3>1. PICK mode \in {"off", "device"} :
            finger' = IF finger[Acc(t)].mode = mode THEN finger
                      ELSE [finger EXCEPT ![Acc(t)] = [revision |-> @.revision + 1, mode |-> mode]]
      BY ZenonT(60), <1>3 DEF SetMode
    <3>2. t \in Everyone /\ pc[t] = "mode"
      BY Zenon, <1>3 DEF SetMode, Move, Everyone
    <3>3. Acc(t) \in Accounts
      BY Zenon, <3>2, Kinded DEF Acc, Jobs
    <3>4. [revision |-> finger[Acc(t)].revision + 1, mode |-> mode] \in [revision: Nat, mode: {"off", "device"}]
      BY <3>3
    <3> QED
      BY ZenonT(60), <3>1, <3>4
  <2> QED
    BY <1>0, <1>3, <2>1, <2>2, ZenonT(60) DEF SetMode
<1>4. CASE ReadReceipt(t)
  BY ZenonT(60), <1>0, <1>4 DEF ReadReceipt, NoFinger
<1>5. CASE LockForRevoke(t)
  BY ZenonT(60), <1>0, <1>1, <1>5 DEF LockForRevoke, Lock
<1>6. CASE Revoke(t)
  <2>1. accountLock' \in [Accounts -> Tasks \cup {None}]
    BY Zenon, <1>6 DEF Revoke, Unlock
  <2>2. issuer' \in [Accounts -> [refresh: Nat, access: Nat, revoked: BOOLEAN]]
    <3>1. PICK heard \in BOOLEAN : issuer' = [issuer EXCEPT ![Acc(t)].revoked = heard]
      BY ZenonT(60), <1>6 DEF Revoke
    <3> QED
      BY <3>1, ZenonT(60)
  <2> QED
    BY <1>0, <1>6, <2>1, <2>2, ZenonT(60) DEF Revoke
<1>7. CASE RemoveReceipt(t)
  BY ZenonT(60), <1>0, <1>7 DEF RemoveReceipt, RemovalKind
<1>8. CASE RemoveRecord(t)
  <2>1. NoRecord \in Tokens
    BY Zenon DEF NoRecord, Tokens
  <2>2. t \in Everyone
    BY Zenon DEF Everyone
  <2> QED
    BY ZenonT(60), <1>0, <1>8, <2>1, <2>2 DEF RemoveRecord
<1>9. CASE RemoveOwner(t)
  <2>1. \A n \in Namespaces : Owners(n) \subseteq Accounts
    BY Zenon DEF Owners
  <2>2. stateLock' \in [Namespaces -> Everyone \cup {None}]
    BY ZenonT(60), <1>9 DEF RemoveOwner, UnlockState
  <2>3. owners' \in [Namespaces -> SUBSET Accounts]
    <3>1. CASE owners' = [owners EXCEPT ![Ns(t)] = {}]
      BY ZenonT(60), <3>1
    <3>2. CASE owners' = [owners EXCEPT ![Ns(t)] = IF @ = {} THEN {} ELSE Owners(Ns(t))]
      BY ZenonT(60), <2>1, <3>2
    <3> QED
      BY Zenon, <1>9, <3>1, <3>2 DEF RemoveOwner
  <2> QED
    BY <1>0, <1>9, <2>2, <2>3, ZenonT(60) DEF RemoveOwner
<1>10. CASE RemoveRouting(t)
  BY ZenonT(60), <1>0, <1>10 DEF RemoveRouting, UnlockState
<1>11. CASE RemoveSidecar(t)
  <2>1. t \in Everyone /\ pc[t] = "sidecar"
    BY Zenon, <1>11 DEF RemoveSidecar, Move, Everyone
  <2>2. Acc(t) \in Accounts
    BY Zenon, <2>1, Kinded DEF Acc, Jobs, CommandPlaces, RemovePlaces, RequestPlaces
  <2> QED
    BY Zenon, <1>0, <1>11, <2>2 DEF RemoveSidecar, Unlock, NoFinger
<1> QED
  BY <1>2, <1>3, <1>4, <1>5, <1>6, <1>7, <1>8, <1>9, <1>10, <1>11, ZenonT(60) DEF CommandStep

LEMMA IssueTypes ==
    ASSUME TypeOK, NEW a, NEW used, NEW rotated, Issue(a, used, rotated)
    PROVE  /\ issuer' \in [Accounts -> [refresh: Nat, access: Nat, revoked: BOOLEAN]]
           /\ \A b \in Accounts : issuer'[b].revoked = issuer[b].revoked
PROOF
<1>1. issuer \in [Accounts -> [refresh: Nat, access: Nat, revoked: BOOLEAN]]
  BY Zenon DEF TypeOK
<1> DEFINE next == [issuer[a] EXCEPT !.access = @ + 1, !.refresh = IF rotated THEN @ + 1 ELSE @]
<1>2. issuer' = [issuer EXCEPT ![a] = next]
  BY ZenonT(60) DEF Issue
<1>3. a \in Accounts => next.revoked = issuer[a].revoked /\ next \in [refresh: Nat, access: Nat, revoked: BOOLEAN]
  <2>1. SUFFICES ASSUME a \in Accounts PROVE next.revoked = issuer[a].revoked /\ next \in [refresh: Nat, access: Nat, revoked: BOOLEAN]
    BY Zenon
  <2>2. PICK x \in Nat, y \in Nat, z \in BOOLEAN : issuer[a] = [refresh |-> x, access |-> y, revoked |-> z]
    BY Zenon, <1>1, <2>1
  <2> DEFINE q == [refresh |-> x, access |-> y, revoked |-> z]
             r == [refresh |-> x, access |-> y + 1, revoked |-> z]
             u == IF rotated THEN x + 1 ELSE x
  <2>3. q.access = y /\ q.refresh = x /\ q.revoked = z /\ u \in Nat
    OBVIOUS
  <2>4. \A v : [q EXCEPT !.access = v] = [refresh |-> x, access |-> v, revoked |-> z]
    OBVIOUS
  <2>5. \A v : [r EXCEPT !.refresh = v] = [refresh |-> v, access |-> y + 1, revoked |-> z]
    OBVIOUS
  <2>6. next = [[q EXCEPT !.access = q.access + 1] EXCEPT !.refresh = IF rotated THEN q.refresh + 1 ELSE q.refresh]
    BY <2>2, ZenonT(60)
  <2>7. next = [refresh |-> u, access |-> y + 1, revoked |-> z]
    <3> HIDE DEF next, u
    <3>1. next = [r EXCEPT !.refresh = u]
      BY <2>3, <2>4, <2>6, ZenonT(60) DEF u
    <3> QED
      BY <2>5, <3>1, ZenonT(60)
  <2> HIDE DEF next, u
  <2> QED
    BY <2>2, <2>3, <2>7
<1> HIDE DEF next
<1> QED
  BY ZenonT(60), <1>1, <1>2, <1>3

LEMMA RequestTypes ==
    ASSUME TypeOK, Placed, NEW t \in Tasks, RequestStep(t)
    PROVE  TypeOK'
PROOF
<1>0. pc' \in [Everyone -> AllPlaces]
  BY Zenon, RequestPlaced
<1>1. /\ t \in Everyone
      /\ pc[t] # "idle" => Acc(t) \in Accounts
  BY Zenon, Kinded DEF Acc, Jobs, Everyone
<1>2. rows' \subseteq Tasks
  BY ZenonT(60) DEF RequestStep, LockRecord, Refresh, Persist, Edit, Send, Learn, Translate, Resolved, Fail,
         Finished, TypeOK
<1>3. \A r \in Tokens : Parked(r) \in Tokens
  BY Zenon DEF Parked, Tokens
<1> USE DEF TypeOK, files, locks, locals, provider, history
<1>4. CASE LockRecord(t)
  <2>1. \A a \in Accounts : LockedFinger(a) \in [revision: Nat, mode: {"off", "device"}]
    BY Zenon DEF LockedFinger, NewFinger, NoFinger
  <2>2. finger' \in [Accounts -> [revision: Nat, mode: {"off", "device"}]]
    BY ZenonT(60), <1>4, <2>1 DEF LockRecord
  <2>3. Acc(t) \in Accounts
    BY Zenon, <1>1, <1>4 DEF LockRecord
  <2>4. token' \in [Tasks -> Nat] /\ draft' \in [Tasks -> Tokens]
    <3>1. record[Acc(t)].access \in Nat /\ Parked(record[Acc(t)]) \in Tokens
      BY Zenon, <1>3, <2>3 DEF Tokens
    <3> QED
      BY ZenonT(60), <1>4, <3>1 DEF LockRecord, Resolved
  <2>5. accountLock' \in [Accounts -> Tasks \cup {None}]
    BY ZenonT(60), <1>4 DEF LockRecord, Hold, Lock
  <2> QED
    BY <1>0, <1>2, <1>4, <2>2, <2>4, <2>5, ZenonT(60) DEF LockRecord
<1>5. CASE Refresh(t)
  <2>1. Acc(t) \in Accounts
    BY Zenon, <1>1, <1>5 DEF Refresh
  <2>2. issuer' \in [Accounts -> [refresh: Nat, access: Nat, revoked: BOOLEAN]]
    BY ZenonT(60), <1>5, IssueTypes DEF Refresh
  <2>3. draft' \in [Tasks -> Tokens]
    BY <1>5, <2>1, <2>2 DEF Refresh, Tokens
  <2>4. accountLock' \in [Accounts -> Tasks \cup {None}]
    BY Zenon, <1>5 DEF Refresh, Unlock
  <2> QED
    BY <1>0, <1>2, <1>5, <2>2, <2>3, <2>4, ZenonT(60) DEF Refresh
<1>6. CASE Persist(t)
  <2>1. accountLock' \in [Accounts -> Tasks \cup {None}] /\ record' \in [Accounts -> Tokens]
    BY ZenonT(60), <1>6 DEF Persist, Unlock
  <2>2. token' \in [Tasks -> Nat]
    BY ZenonT(60), <1>6 DEF Persist, Resolved, Tokens
  <2> QED
    BY <1>0, <1>2, <1>6, <2>1, <2>2, ZenonT(60) DEF Persist
<1>7. \A n \in Namespaces, a \in Accounts : Edited(n, a) \in [Namespaces -> SUBSET Accounts]
  BY Zenon DEF Edited, Owners
<1>8. pc[t] # "idle" => Ns(t) \in Namespaces
  BY Zenon, <1>1, VaultAssumption DEF Ns
<1>9. CASE Edit(t)
  <2>1. owners' \in [Namespaces -> SUBSET Accounts]
    BY <1>1, <1>7, <1>8, <1>9 DEF Edit
  <2> QED
    BY <1>0, <1>2, <1>9, <2>1, ZenonT(60) DEF Edit
<1>10. CASE Send(t)
  <2>1. step' \in [Tasks -> Nat]
    BY SMTT(60), <1>10 DEF Send
  <2> QED
    BY ZenonT(60), <1>0, <1>2, <1>10, <2>1, ZenonT(60) DEF Send
<1>11. CASE Learn(t)
  <2>1. routing' \in [Namespaces -> BOOLEAN]
    BY ZenonT(60), <1>11 DEF Learn
  <2> QED
    BY <1>0, <1>2, <1>11, <2>1, ZenonT(60) DEF Learn
<1>12. CASE Translate(t)
  <2>1. owners' \in [Namespaces -> SUBSET Accounts]
    BY Zenon, <1>1, <1>7, <1>8, <1>12 DEF Translate
  <2> QED
    BY <1>0, <1>2, <1>12, <2>1, ZenonT(60) DEF Translate
<1> QED
  BY <1>4, <1>5, <1>6, <1>9, <1>10, <1>11, <1>12, ZenonT(60) DEF RequestStep

LEMMA ReleasedTypes ==
    ASSUME NEW who, NEW S, NEW T, NEW held \in [S -> T \cup {None}]
    PROVE  /\ Released(who, held) \in [S -> T \cup {None}]
           /\ \A x \in S : Released(who, held)[x] = IF held[x] \in who THEN None ELSE held[x]
PROOF
  BY Zenon DEF Released

\* The tasks of a process that dies are over.
LEMMA DieTypes ==
    ASSUME TypeOK, Placed, NEW who, Die(who), crashes' \in Nat,
           who \subseteq Everyone, \A t \in who \ {Core} : job[t] \in Jobs
    PROVE  TypeOK' /\ Placed'
PROOF
<1>1. \A t \in Everyone : /\ pc'[t] = pc[t] \/ (t = Core /\ pc'[t] = "idle")
                             \/ (t \in who \ {Core} /\ pc'[t] = "failed")
                          /\ PlacesOf(t)' = PlacesOf(t)
  BY ZenonT(60) DEF Die, PlacesOf
<1>2. \A t \in who \ {Core} : "failed" \in PlacesOf(t)
  BY DEF PlacesOf, RequestPlaces, CommandPlaces, Jobs, Kinds, NoJob
<1>3. "idle" \in PlacesOf(Core) /\ Core \in Everyone
  BY Zenon DEF PlacesOf, CorePlaces, Everyone
<1>4. \A t \in Everyone : pc'[t] \in PlacesOf(t)
  BY Zenon, <1>1, <1>2, <1>3 DEF Placed
<1>5. \A t \in Everyone : PlacesOf(t) \subseteq AllPlaces
  BY Zenon DEF PlacesOf, AllPlaces, CommandPlaces, CorePlaces
<1>6. pc' \in [Everyone -> AllPlaces]
  <2>1. pc' = [t \in Everyone |-> pc'[t]]
    BY Zenon DEF Die
  <2> QED
    BY <1>4, <1>5, <2>1, ZenonT(60)
<1>7. Placed'
  BY Zenon, <1>1, <1>4 DEF Placed, Die
<1>8. accountLock' \in [Accounts -> Tasks \cup {None}] /\ stateLock' \in [Namespaces -> Everyone \cup {None}]
  BY ZenonT(60), ReleasedTypes DEF TypeOK, Die
<1>9. todo' \in [Everyone -> SUBSET (Accounts \cup (Namespaces \X {"state", "routing"}))]
  BY Zenon DEF TypeOK, Die
<1>10. detached' \subseteq [account: Accounts, write: Tokens] /\ rows' \subseteq Tasks
  BY Zenon DEF TypeOK, Die
<1> QED
  BY <1>6, <1>7, <1>8, <1>9, <1>10, ZenonT(60) DEF TypeOK, Die, files, provider

\* A request is a task with a job.
LEMMA RequestsHaveJobs ==
    ASSUME TypeOK
    PROVE  \A t \in Requests : t \in Tasks /\ t \in Everyone /\ t # Core /\ job[t] \in Jobs
PROOF
<1>1. SUFFICES ASSUME NEW t \in Requests PROVE t \in Tasks /\ t \in Everyone /\ t # Core /\ job[t] \in Jobs
  BY Zenon
<1>2. t \in Tasks /\ t \in Everyone /\ t # Core /\ job[t].kind = "request"
  BY Zenon, VaultAssumption DEF Requests, Everyone
<1>3. job[t] \in Jobs \cup {NoJob}
  BY Zenon, <1>2 DEF TypeOK
<1> QED
  BY <1>2, <1>3 DEF NoJob

LEMMA OrphanTypes ==
    ASSUME TypeOK, Placed, CoreOrphaned
    PROVE  TypeOK' /\ Placed'
PROOF
<1>1. \A t \in Everyone : /\ pc'[t] = pc[t] \/ (t = Core /\ pc'[t] = "idle")
                             \/ (t \in Requests /\ pc'[t] = "failed")
                          /\ PlacesOf(t)' = PlacesOf(t)
  BY Zenon DEF CoreOrphaned, PlacesOf
<1>2. \A t \in Requests : "failed" \in PlacesOf(t)
  BY RequestsHaveJobs DEF PlacesOf, RequestPlaces, CommandPlaces, Jobs, Kinds, NoJob
<1>3. "idle" \in PlacesOf(Core) /\ Core \in Everyone
  BY Zenon DEF PlacesOf, CorePlaces, Everyone
<1>4. \A t \in Everyone : pc'[t] \in PlacesOf(t)
  BY Zenon, <1>1, <1>2, <1>3 DEF Placed
<1>5. \A t \in Everyone : PlacesOf(t) \subseteq AllPlaces
  BY Zenon DEF PlacesOf, AllPlaces, CommandPlaces, CorePlaces
<1>6. pc' \in [Everyone -> AllPlaces]
  <2>1. pc' = [t \in Everyone |-> pc'[t]]
    BY Zenon DEF CoreOrphaned
  <2> QED
    BY <1>4, <1>5, <2>1, ZenonT(60)
<1>7. Placed'
  BY ZenonT(60), <1>1, <1>4 DEF Placed, CoreOrphaned
<1>8. accountLock' \in [Accounts -> Tasks \cup {None}] /\ stateLock' \in [Namespaces -> Everyone \cup {None}]
  <2>1. accountLock' = Released({Core} \cup Requests, accountLock) /\ stateLock' = Released({Core} \cup Requests, stateLock)
    BY ZenonT(60) DEF CoreOrphaned
  <2>2. accountLock \in [Accounts -> Tasks \cup {None}] /\ stateLock \in [Namespaces -> Everyone \cup {None}]
    BY Zenon DEF TypeOK
  <2> QED
    BY ZenonT(60), <2>1, <2>2, ReleasedTypes
<1>9. todo' \in [Everyone -> SUBSET (Accounts \cup (Namespaces \X {"state", "routing"}))]
  BY ZenonT(60) DEF TypeOK, CoreOrphaned
<1>10. \A t \in Requests : Acc(t) \in Accounts /\ draft[t] \in Tokens
  BY Zenon, RequestsHaveJobs DEF Acc, Jobs, TypeOK
<1>11. dropped' \subseteq Accounts
  BY <1>10 DEF TypeOK, CoreOrphaned
<1>12. detached' \subseteq [account: Accounts, write: Tokens]
  <2>1. \A t \in Requests : [account |-> Acc(t), write |-> draft[t]] \in [account: Accounts, write: Tokens]
    BY Zenon, <1>10
  <2>2. /\ detached \subseteq [account: Accounts, write: Tokens]
        /\ detached' = detached \cup {[account |-> Acc(t), write |-> draft[t]] : t \in {u \in Requests : pc[u] = "persist"}}
    BY ZenonT(60) DEF TypeOK, CoreOrphaned
  <2> QED
    BY <2>1, <2>2, ZenonT(60)
<1> QED
  BY ZenonT(60), <1>6, <1>7, <1>8, <1>9, <1>11, <1>12, ZenonT(60) DEF TypeOK, CoreOrphaned, files, provider

LEMMA StartTypes ==
    ASSUME TypeOK, Placed, NEW t \in Tasks, NEW j \in world.jobs, Start(t, j)
    PROVE  TypeOK' /\ Placed'
PROOF
<1>1. t \in Everyone /\ t # Core /\ j \in Jobs
  BY Zenon, VaultAssumption DEF TypeOK, Everyone, Jobs
<1>2. job' = [job EXCEPT ![t] = j] /\ job' \in [Everyone -> Jobs \cup {NoJob}]
  BY Zenon, <1>1 DEF Start, TypeOK
<1> DEFINE p == IF j.kind = "request" THEN "lock" ELSE "open"
<1>3. p \in PlacesOf(t)' /\ p \in AllPlaces
  <2>1. job'[t] = j /\ j # NoJob /\ j.kind \in Kinds
    BY <1>1, <1>2 DEF Jobs, Kinds, NoJob, TypeOK
  <2> QED
    BY Zenon, <1>1, <2>1 DEF PlacesOf, RequestPlaces, CommandPlaces, OpenPlaces, AllPlaces
<1>4. pc' = [pc EXCEPT ![t] = p]
  BY Zenon DEF Start
<1> HIDE DEF p
<1>5. pc' \in [Everyone -> AllPlaces]
  BY ZenonT(60), <1>3, <1>4 DEF TypeOK
<1>6. \A u \in Everyone \ {t} : PlacesOf(u)' = PlacesOf(u) /\ pc'[u] = pc[u]
  BY Zenon, <1>2, <1>4 DEF PlacesOf, TypeOK
<1>7. Placed'
  <2>1. pc'[t] \in PlacesOf(t)'
    BY Zenon, <1>1, <1>3, <1>4 DEF TypeOK
  <2>2. job'[Core] = NoJob
    BY Zenon, <1>1, <1>2 DEF Placed, TypeOK, Everyone
  <2>3. \A u \in Everyone : pc'[u] \in PlacesOf(u)'
    BY Zenon, <1>6, <2>1 DEF Placed
  <2> QED
    BY Zenon, <2>2, <2>3 DEF Placed
<1>8. rows' \subseteq Tasks
  BY Zenon DEF Start, TypeOK
<1> QED
  BY <1>2, <1>5, <1>7, <1>8, ZenonT(60) DEF TypeOK, Start, files, locks, locals, provider, history

LEMMA DropTypes ==
    ASSUME TypeOK, Placed, NEW t \in Tasks, Drop(t)
    PROVE  TypeOK' /\ Placed'
PROOF
<1>1. t \in Everyone /\ job[t] \in Jobs /\ job[t].kind = "request" /\ t # Core /\ Acc(t) \in Accounts
  BY Zenon, RequestsHaveJobs DEF Drop, Requests, Acc, Jobs
<1>2. "failed" \in PlacesOf(t)
  BY <1>1 DEF PlacesOf, NoJob, RequestPlaces
<1>3. pc' = [pc EXCEPT ![t] = "failed"] /\ job' = job
  BY Zenon DEF Drop
<1>4. pc' \in [Everyone -> AllPlaces] /\ Placed'
  BY ZenonT(60), <1>1, <1>2, <1>3, Moves
<1>5. accountLock' \in [Accounts -> Tasks \cup {None}]
  BY ZenonT(60), ReleasedTypes DEF TypeOK, Drop
<1>6. issuer' \in [Accounts -> [refresh: Nat, access: Nat, revoked: BOOLEAN]]
  BY Zenon, IssueTypes DEF Drop, TypeOK
<1>7. detached' \subseteq [account: Accounts, write: Tokens] /\ dropped' \subseteq Accounts
  <2>1. [account |-> Acc(t), write |-> draft[t]] \in [account: Accounts, write: Tokens]
    BY Zenon, <1>1 DEF TypeOK
  <2> QED
    BY <1>1, <2>1 DEF TypeOK, Drop
<1> QED
  BY ZenonT(60), <1>3, <1>4, <1>5, <1>6, <1>7, ZenonT(60) DEF TypeOK, Drop, files, locals

LEMMA VaultTypes ==
    ASSUME TypeOK, Placed, VaultStep
    PROVE  TypeOK' /\ Placed'
PROOF
<1>1. ASSUME NEW t \in Tasks, TaskStep(t) PROVE TypeOK' /\ Placed'
  <2>1. t \in Everyone
    BY Zenon DEF Everyone
  <2> QED
    BY Zenon, <1>1, <2>1, OpenTypes, OpenPlaced, CreateTypes, CreatePlaced, CommandTypes, CommandPlaced,
       RequestTypes, RequestPlaced DEF TaskStep
<1>2. ASSUME NEW t \in Tasks, NEW j \in world.jobs, Start(t, j) PROVE TypeOK' /\ Placed'
  BY Zenon, <1>2, StartTypes
<1>3. ASSUME NEW t \in Tasks, Drop(t) PROVE TypeOK' /\ Placed'
  BY Zenon, <1>3, DropTypes
<1>4. ASSUME NEW t \in Tasks, CrashCommand(t) PROVE TypeOK' /\ Placed'
  <2>1. Die({t}) /\ crashes' \in Nat /\ {t} \subseteq Everyone
    BY <1>4 DEF CrashCommand, TypeOK, Everyone
  <2>2. \A u \in {t} \ {Core} : job[u] \in Jobs
    BY Zenon, <1>4, Kinded DEF CrashCommand, Running, Everyone
  <2> QED
    BY Zenon, <2>1, <2>2, DieTypes
<1>5. CASE CoreDies
  <2>1. Die({Core} \cup Requests) /\ crashes' \in Nat
    BY Zenon, <1>5 DEF CoreDies, TypeOK
  <2>2. {Core} \cup Requests \subseteq Everyone /\ \A u \in ({Core} \cup Requests) \ {Core} : job[u] \in Jobs
    BY Zenon, RequestsHaveJobs DEF Everyone
  <2> QED
    BY Zenon, <2>1, <2>2, DieTypes
<1>6. CASE OpenStep(Core)
  BY Zenon, <1>6, OpenTypes, OpenPlaced DEF Everyone
<1>7. CASE CoreOrphaned
  BY Zenon, <1>7, OrphanTypes
<1>8. CASE BootCore \/ CoreReady
  <2>1. PICK p \in {"open", "up"} : pc' = [pc EXCEPT ![Core] = p] /\ job' = job
    BY Zenon, <1>8 DEF BootCore, CoreReady, Move
  <2>2. p \in PlacesOf(Core) /\ Core \in Everyone
    BY Zenon DEF PlacesOf, CorePlaces, OpenPlaces, Everyone
  <2>3. pc' \in [Everyone -> AllPlaces] /\ Placed'
    BY ZenonT(60), <2>1, <2>2, Moves
  <2> QED
    BY <1>8, <2>3, ZenonT(60) DEF TypeOK, BootCore, CoreReady, files, locks, locals, provider, history
<1>9. ASSUME NEW t \in Tasks, Abandon(t) PROVE TypeOK' /\ Placed'
  <2>1. rows' \subseteq Tasks /\ UNCHANGED <<pc, job>>
    BY Zenon, <1>9 DEF Abandon, TypeOK
  <2>2. Placed'
    BY Zenon, <2>1 DEF Placed, PlacesOf
  <2> QED
    BY <1>9, <2>1, <2>2, ZenonT(60) DEF Abandon, TypeOK, files, locks, locals, provider, history
<1>10. ASSUME NEW a \in Accounts, Reject(a) PROVE TypeOK' /\ Placed'
  <2>1. rejected' \in [Accounts -> SUBSET Nat]
    BY <1>10 DEF Reject, TypeOK
  <2>2. Placed'
    BY Zenon, <1>10 DEF Reject, Placed, PlacesOf
  <2> QED
    BY ZenonT(60), <1>10, <2>1, <2>2, ZenonT(60) DEF Reject, TypeOK, files, locks, locals, history
<1>11. ASSUME NEW d \in detached, DetachedWrite(d) PROVE TypeOK' /\ Placed'
  <2>1. d.account \in Accounts /\ d.write \in Tokens
    BY Zenon DEF TypeOK
  <2>2. record' \in [Accounts -> Tokens] /\ detached' \subseteq [account: Accounts, write: Tokens]
    BY Zenon, <1>11, <2>1 DEF DetachedWrite, TypeOK
  <2>3. Placed'
    BY Zenon, <1>11 DEF DetachedWrite, Placed, PlacesOf
  <2> QED
    BY <1>11, <2>2, <2>3, ZenonT(60) DEF DetachedWrite, TypeOK, locks, locals, provider, history
<1>12. CASE OrphanGone
  <2>1. Placed'
    BY Zenon, <1>12 DEF OrphanGone, Placed, PlacesOf
  <2> QED
    BY <1>12, <2>1, ZenonT(60) DEF OrphanGone, TypeOK, files, locks, locals, provider, history
<1>13. CASE UNCHANGED vars
  BY Zenon, <1>13 DEF vars, TypeOK, Placed, PlacesOf, files, locks, locals, provider, history
<1> QED
  BY <1>1, <1>2, <1>3, <1>4, <1>5, <1>6, <1>7, <1>8, <1>9, <1>10, <1>11, <1>12, <1>13, ZenonT(60)
     DEF VaultStep, Next

-----------------------------------------------------------------------------
(* Who changes what.                                                        *)

\* What a step does to an account's files that a task with the account locked may rely on.
Left(a) ==
    /\ record'[a] = record[a] /\ finger'[a] = finger[a] /\ receipt'[a] = receipt[a]
    /\ accountLock'[a] = accountLock[a]
    /\ a \in created' <=> a \in created

\* What any step of a task leaves alone: the other tasks, and what the issuer has revoked.
Aside(t) ==
    /\ \A u \in Everyone \ {t} : pc'[u] = pc[u]
    /\ \A u \in Tasks \ {t} : draft'[u] = draft[u]
    /\ job' = job /\ dropped' = dropped /\ detached' = detached
    /\ \A a \in Accounts : issuer[a].revoked => issuer'[a].revoked

LEMMA OpenAside ==
    ASSUME TypeOK, NEW t \in Everyone, OpenStep(t)
    PROVE  /\ Aside(t)
           /\ \A a \in Accounts : accountLock[a] # None => Left(a)
           /\ UNCHANGED <<record, receipt, accountLock, created, removed, draft, issuer>>
PROOF
<1>1. ASSUME NEW a \in todo[t], OpenSidecar(t, a), NEW b \in Accounts, accountLock[b] # None PROVE finger'[b] = finger[b]
  BY Zenon, <1>1 DEF OpenSidecar, Free, TypeOK
<1>2. ASSUME NEW a \in todo[t], OpenSidecar(t, a)
      PROVE  UNCHANGED <<record, receipt, accountLock, created, removed, dropped, detached, draft, issuer, pc, job>>
  BY Zenon, <1>2 DEF OpenSidecar, locks, history, provider
<1>3. ASSUME ~\E a \in todo[t] : OpenSidecar(t, a)
      PROVE  /\ UNCHANGED <<record, finger, receipt, accountLock, created, removed, dropped, detached, draft, issuer, job>>
             /\ \A u \in Everyone \ {t} : pc'[u] = pc[u]
  BY ZenonT(60), <1>3 DEF OpenStep, OpenList, OpenStates, OpenRemoveState, OpenRemoveRouting, Opened, OpenState, Move,
              files, locks, locals, history, provider, TypeOK
<1> QED
  BY ZenonT(60), <1>1, <1>2, <1>3 DEF Aside, Left

LEMMA CreateAside ==
    ASSUME TypeOK, Placed, NEW t \in Tasks, Task(t), CreateStep(t)
    PROVE  /\ Aside(t)
           /\ \A a \in Accounts : accountLock[a] \notin {None, t} => Left(a)
PROOF
<1>1. /\ \A u \in Everyone \ {t} : pc'[u] = pc[u]
      /\ UNCHANGED <<draft, job, dropped, detached, issuer, receipt>>
  BY ZenonT(60) DEF CreateStep, SignIn, ExchangeCode, Import, AddApiKey, CreateSidecar,
         CreateRecord, CreateOwner, UndoCreate, Move, Rest, files, history, provider, locals, TypeOK
<1>2. ASSUME NEW a \in Accounts, accountLock[a] \notin {None, t}
      PROVE  /\ record'[a] = record[a] /\ finger'[a] = finger[a] /\ accountLock'[a] = accountLock[a]
             /\ a \in created' <=> a \in created
  <2>1. CASE SignIn(t) \/ ExchangeCode(t) \/ Import(t) \/ AddApiKey(t)
    BY ZenonT(60), <2>1 DEF SignIn, ExchangeCode, Import, AddApiKey, files, locks, history
  <2>2. CASE CreateSidecar(t)
    BY Zenon, <1>2, <2>2 DEF CreateSidecar, Lock, Free, TypeOK, history
  <2>3. CASE CreateRecord(t) \/ CreateOwner(t) \/ UndoCreate(t)
    <3>1. accountLock[Acc(t)] = t
      BY ZenonT(60), <2>3 DEF CreateRecord, CreateOwner, UndoCreate, Move, Task, Holding
    <3> QED
      BY ZenonT(60), <1>2, <2>3, <3>1 DEF CreateRecord, CreateOwner, UndoCreate, Unlock, TypeOK, history, locks
  <2> QED
    BY ZenonT(60), <2>1, <2>2, <2>3 DEF CreateStep
<1> QED
  BY ZenonT(60), <1>1, <1>2 DEF Aside, Left

LEMMA CommandAside ==
    ASSUME TypeOK, Placed, NEW t \in Tasks, Task(t), CommandStep(t)
    PROVE  /\ Aside(t)
           /\ \A a \in Accounts : accountLock[a] \notin {None, t} => Left(a)
PROOF
<1>1. /\ \A u \in Everyone \ {t} : pc'[u] = pc[u]
      /\ UNCHANGED <<draft, job, dropped, detached, created>>
  BY ZenonT(60) DEF CommandStep, LockForMode, SetMode, ReadReceipt, LockForRevoke, Revoke, RemoveReceipt, RemoveRecord,
         RemoveOwner, RemoveRouting, RemoveSidecar, Move, Rest, files, history, provider, locals, TypeOK
<1>2. \A a \in Accounts : issuer[a].revoked => issuer'[a].revoked
  <2>1. CASE Revoke(t)
    <3>1. PICK heard \in BOOLEAN :
            issuer' = [issuer EXCEPT ![Acc(t)].revoked = heard] /\ (issuer[Acc(t)].revoked => heard)
      BY ZenonT(60), <2>1 DEF Revoke
    <3>2. \A a \in Accounts : issuer'[a].revoked = IF a = Acc(t) THEN heard ELSE issuer[a].revoked
      BY Zenon, <3>1 DEF TypeOK
    <3> QED
      BY Zenon, <3>1, <3>2
  <2>2. CASE ~Revoke(t)
    BY ZenonT(60), <2>2 DEF CommandStep, LockForMode, SetMode, ReadReceipt, LockForRevoke, RemoveReceipt, RemoveRecord,
         RemoveOwner, RemoveRouting, RemoveSidecar, Rest, provider
  <2> QED
    BY Zenon, <2>1, <2>2
<1>3. ASSUME NEW a \in Accounts, accountLock[a] \notin {None, t} PROVE Left(a)
  <2>1. CASE LockForMode(t) \/ LockForRevoke(t)
    BY ZenonT(60), <1>1, <1>3, <2>1 DEF LockForMode, LockForRevoke, Left, Lock, Free, TypeOK, Rest
  <2>2. CASE ReadReceipt(t)
    BY ZenonT(60), <1>1, <1>3, <2>2 DEF ReadReceipt, Left, Free, TypeOK, Rest, locks
  <2>3. CASE RemoveReceipt(t)
    BY ZenonT(60), <1>1, <1>3, <2>3 DEF RemoveReceipt, Left, TypeOK
  <2>4. CASE SetMode(t) \/ Revoke(t) \/ RemoveRecord(t) \/ RemoveOwner(t) \/ RemoveRouting(t) \/ RemoveSidecar(t)
    <3>1. accountLock[Acc(t)] = t
      BY Zenon, <2>4 DEF SetMode, Revoke, RemoveRecord, RemoveOwner, RemoveRouting, RemoveSidecar, Move, Task, Holding,
                  RemovePlaces
    <3> QED
      BY Zenon, <1>1, <1>3, <2>4, <3>1
         DEF SetMode, Revoke, RemoveRecord, RemoveOwner, RemoveRouting, RemoveSidecar, Unlock, TypeOK, Left,
             files, Rest
  <2> QED
    BY Zenon, <2>1, <2>2, <2>3, <2>4 DEF CommandStep
<1> QED
  BY ZenonT(60), <1>1, <1>2, <1>3 DEF Aside

LEMMA RequestAside ==
    ASSUME TypeOK, Placed, NEW t \in Tasks, Task(t), RequestStep(t)
    PROVE  /\ Aside(t)
           /\ \A a \in Accounts : accountLock[a] \notin {None, t} => Left(a)
           /\ UNCHANGED <<receipt, created, removed, dropped>>
PROOF
<1>1. /\ \A u \in Everyone \ {t} : pc'[u] = pc[u]
      /\ UNCHANGED <<job, dropped, detached, created, removed, receipt>>
  BY ZenonT(60) DEF RequestStep, LockRecord, Refresh, Persist, Edit, Send, Learn, Translate, Resolved, Fail, Finished,
         files, history, TypeOK
<1>2. \A u \in Tasks \ {t} : draft'[u] = draft[u]
  BY ZenonT(60) DEF RequestStep, LockRecord, Refresh, Persist, Edit, Send, Learn, Translate, locals, TypeOK
<1>3. \A a \in Accounts : issuer[a].revoked => issuer'[a].revoked
  <2>1. CASE Refresh(t)
    BY Zenon, <2>1, IssueTypes DEF Refresh
  <2>2. CASE ~Refresh(t)
    BY ZenonT(60), <2>2 DEF RequestStep, LockRecord, Persist, Edit, Send, Learn, Translate, provider
  <2> QED
    BY Zenon, <2>1, <2>2
<1>4. ASSUME NEW a \in Accounts, accountLock[a] \notin {None, t} PROVE Left(a)
  <2>1. CASE LockRecord(t)
    BY ZenonT(60), <1>1, <1>4, <2>1 DEF LockRecord, Left, Hold, Lock, Free, TypeOK
  <2>2. CASE Refresh(t) \/ Persist(t)
    <3>1. accountLock[Acc(t)] = t
      BY ZenonT(60), <2>2 DEF Refresh, Persist, Task, Holding
    <3> QED
      BY ZenonT(60), <1>1, <1>4, <2>2, <3>1 DEF Refresh, Persist, Left, Unlock, TypeOK, files
  <2>3. CASE Edit(t) \/ Send(t) \/ Learn(t) \/ Translate(t)
    BY ZenonT(60), <1>1, <2>3 DEF Edit, Send, Learn, Translate, Left, files, locks
  <2> QED
    BY Zenon, <2>1, <2>2, <2>3 DEF RequestStep
<1> QED
  BY ZenonT(60), <1>1, <1>2, <1>3, <1>4 DEF Aside

\* A task that does not move knows what it knew, if the files of the account it has locked are
\* as they were.
LEMMA TaskStays ==
    ASSUME NEW u \in Tasks, Task(u), NEW a, a = Acc(u),
           pc'[u] = pc[u], job'[u] = job[u], draft'[u] = draft[u],
           issuer[a].revoked => issuer'[a].revoked,
           pc[u] \in Holding =>
               /\ accountLock'[a] = u /\ receipt'[a] = receipt[a]
               /\ (Exists(a) => Exists(a)') /\ (Absent(a) => Absent(a)')
               /\ (HasFinger(a) => HasFinger(a)')
               /\ a \in created' \ dropped' => a \in created \ dropped
    PROVE  Task(u)'
PROOF
<1>1. Acc(u)' = a
  BY ZenonT(60) DEF Acc
<1>2. CASE pc[u] \in Holding
  BY <1>1, <1>2 DEF Task, Acc
<1>3. CASE pc[u] \notin Holding
  BY ZenonT(60), <1>1, <1>3 DEF Task, Acc, Holding, RemovePlaces
<1> QED
  BY ZenonT(60), <1>2, <1>3

\* Another task's step does not move it.
LEMMA OthersStay ==
    ASSUME TypeOK, Placed, NEW t \in Everyone, Aside(t),
           \A a \in Accounts : accountLock[a] \notin {None, t} => Left(a),
           NEW u \in Tasks \ {t}, Task(u)
    PROVE  Task(u)'
PROOF
<1>1. CASE Acc(u) \in Accounts
  <2>1. pc[u] \in Holding => accountLock[Acc(u)] = u /\ u # None
    BY ZenonT(60), VaultAssumption DEF Task
  <2>2. pc[u] \in Holding => Left(Acc(u))
    BY ZenonT(60), <1>1, <2>1
  <2>3. pc'[u] = pc[u] /\ job'[u] = job[u] /\ draft'[u] = draft[u] /\ dropped' = dropped
    BY Zenon DEF Aside, Everyone
  <2>4. issuer[Acc(u)].revoked => issuer'[Acc(u)].revoked
    BY ZenonT(60), <1>1 DEF Aside
  <2>0. PICK a : a = Acc(u)
    BY Zenon
  <2>5. pc[u] \in Holding =>
               /\ accountLock'[a] = u /\ receipt'[a] = receipt[a]
               /\ record'[a] = record[a] /\ finger'[a] = finger[a]
               /\ a \in created' \ dropped' => a \in created \ dropped
    BY ZenonT(60), <2>0, <2>1, <2>2, <2>3 DEF Left
  <2>6. issuer[a].revoked => issuer'[a].revoked
    BY ZenonT(60), <2>0, <2>4
  <2>7. pc[u] \in Holding => /\ (Exists(a) => Exists(a)') /\ (Absent(a) => Absent(a)')
                             /\ (HasFinger(a) => HasFinger(a)')
    BY ZenonT(60), <2>3, <2>5 DEF Exists, Absent, HasFinger
  <2> QED
    BY ZenonT(60), <2>0, <2>3, <2>5, <2>6, <2>7, TaskStays
<1>2. CASE Acc(u) \notin Accounts
  <2>1. u \in Everyone
    BY Zenon DEF Everyone
  <2>2. pc[u] = "idle"
    BY ZenonT(60), <1>2, <2>1, Kinded DEF Acc, Jobs
  <2>3. pc'[u] = "idle"
    BY Zenon, <2>1, <2>2 DEF Aside
  <2> QED
    BY ZenonT(60), <2>3 DEF Task, Holding, RemovePlaces
<1> QED
  BY Zenon, <1>1, <1>2
-----------------------------------------------------------------------------
(* What a task makes of its own account.                                    *)

LEMMA OpenAccounted ==
    ASSUME TypeOK, Placed, Accounted, NEW t \in Everyone, OpenStep(t)
    PROVE  Accounted' /\ (t \in Tasks => Task(t)')
PROOF
<1>1. /\ UNCHANGED <<record, receipt, created, removed, issuer, dropped>>
      /\ \A a \in Accounts : finger'[a] = finger[a] \/ ~Exists(a)
  <2>1. ASSUME NEW b \in todo[t], OpenSidecar(t, b) PROVE \A a \in Accounts : finger'[a] = finger[a] \/ ~Exists(a)
    BY Zenon, <2>1 DEF OpenSidecar, TypeOK
  <2>2. ASSUME ~\E b \in todo[t] : OpenSidecar(t, b) PROVE finger' = finger
    BY Zenon, <2>2 DEF OpenStep, OpenList, OpenStates, OpenRemoveState, OpenRemoveRouting, Opened, OpenState, files
  <2> QED
    BY Zenon, <2>1, <2>2, OpenAside DEF Aside
<1>2. \A n \in Namespaces : owners'[n] = owners[n] \/ owners'[n] = {}
  BY Zenon DEF OpenStep, OpenList, OpenStates, OpenRemoveState, OpenRemoveRouting, Opened, OpenState, OpenSidecar,
         files, TypeOK
<1>3. ASSUME NEW a \in Accounts PROVE Files(a)'
  BY Zenon, <1>1 DEF Accounted, Files, Exists, HasFinger
<1>4. ASSUME NEW a \in Accounts PROVE Known(a)'
  <2>1. NamespaceOf[a] \in Namespaces
    BY Zenon, VaultAssumption
  <2> QED
    BY Zenon, <1>1, <1>2, <2>1 DEF Accounted, Known, Exists
<1>5. ASSUME t \in Tasks PROVE Task(t)'
  <2>1. pc'[t] \in OpenPlaces \cup {"authorize", "lock", "receipt"} \/ (pc'[t] = "remove" /\ job'[t].kind # "revoke")
    <3>1. CASE Opened(t)
      <4>1. pc'[t] = FirstStep[job[t].kind] /\ job' = job /\ pc[t] \in OpenPlaces
        BY Zenon, <3>1 DEF Opened, Move, TypeOK, OpenPlaces
      <4>2. job[t].kind \in {"create", "mode", "remove", "revoke"}
        BY Zenon, <1>5, <4>1, Kinded, VaultAssumption DEF Jobs, Kinds
      <4> QED
        BY <4>1, <4>2 DEF FirstStep
    <3>2. CASE ~Opened(t)
      BY Zenon, <3>2 DEF OpenStep, OpenList, OpenStates, OpenRemoveState, OpenRemoveRouting, OpenState, OpenSidecar,
              Move, TypeOK, OpenPlaces
    <3> QED
      BY Zenon, <3>1, <3>2
  <2> QED
    BY Zenon, <2>1 DEF Task, Holding, RemovePlaces, OpenPlaces
<1> QED
  BY Zenon, <1>3, <1>4, <1>5 DEF Accounted

LEMMA CreateAccounted ==
    ASSUME TypeOK, Placed, Accounted, NEW t \in Tasks, Task(t), CreateStep(t)
    PROVE  Accounted' /\ Task(t)'
PROOF
<1>0. t \in Everyone /\ pc[t] \in CommandPlaces \ RequestPlaces
  BY Zenon DEF CreateStep, SignIn, ExchangeCode, Import, AddApiKey, CreateSidecar, CreateRecord,
         CreateOwner, UndoCreate, Move, CommandPlaces, CreatePlaces, RequestPlaces, Everyone
<1>1. Acc(t) \in Accounts /\ Ns(t) \in Namespaces /\ Ns(t) = NamespaceOf[Acc(t)]
  BY Zenon, <1>0, Kinded, VaultAssumption DEF Acc, Jobs, Ns
<1>2. CASE SignIn(t) \/ ExchangeCode(t) \/ Import(t) \/ AddApiKey(t)
  <2>1. UNCHANGED <<record, finger, receipt, owners, created, removed, dropped, issuer>>
    BY Zenon, <1>2 DEF SignIn, ExchangeCode, Import, AddApiKey, files, history, Rest, provider
  <2>2. pc'[t] \in {"exchange", "create", "failed"}
    BY Zenon, <1>0, <1>2 DEF SignIn, ExchangeCode, Import, AddApiKey, Move, TypeOK
  <2>3. Task(t)'
    BY Zenon, <2>2 DEF Task, Holding, RemovePlaces
  <2> QED
    BY Zenon, <2>1, <2>3 DEF Accounted, Files, Known, Exists, HasFinger
<1>3. CASE CreateSidecar(t)
  <2>1. /\ UNCHANGED <<record, receipt, owners, created, removed, dropped, issuer, job>>
        /\ finger' = [finger EXCEPT ![Acc(t)] = NewFinger]
        /\ receipt[Acc(t)] = "none" /\ ~Exists(Acc(t))
    BY Zenon, <1>3 DEF CreateSidecar, history, Rest, provider
  <2>2. \A a \in Accounts : HasFinger(a) => HasFinger(a)'
    BY <2>1 DEF HasFinger, NewFinger, TypeOK
  <2>3. Accounted'
    BY Zenon, <2>1, <2>2 DEF Accounted, Files, Known, Exists
  <2>4. /\ pc'[t] = "record" /\ accountLock'[Acc(t)] = t /\ finger'[Acc(t)].revision > 0
        /\ Acc(t) \notin created \ dropped
    <3>1. pc \in [Everyone -> AllPlaces] /\ DOMAIN accountLock = Accounts /\ DOMAIN finger = Accounts
      BY Zenon DEF TypeOK
    <3>2. pc'[t] = "record" /\ accountLock'[Acc(t)] = t
      BY ZenonT(60), <1>0, <1>1, <1>3, <3>1 DEF CreateSidecar, Move, Lock
    <3>3. finger'[Acc(t)].revision > 0
      BY <1>1, <2>1, <3>1 DEF NewFinger
    <3>4. Acc(t) \notin created \ dropped
      BY Zenon, <1>1, <2>1 DEF Accounted, Files
    <3> QED
      BY Zenon, <3>2, <3>3, <3>4
  <2>5. Task(t)'
    BY Zenon, <2>1, <2>4 DEF Task, Acc, HasFinger, Absent, Exists, RemovePlaces
  <2> QED
    BY Zenon, <2>3, <2>5
<1>4. CASE CreateRecord(t)
  <2>1. /\ UNCHANGED <<finger, receipt, owners, created, removed, dropped, issuer, job, accountLock>>
        /\ pc[t] = "record"
        /\ \/ pc'[t] = "owner" /\ record' = [record EXCEPT ![Acc(t)] = NewRecord(Acc(t))]
           \/ pc'[t] = "undo" /\ record' = record
    BY Zenon, <1>0, <1>4 DEF CreateRecord, Move, history, Rest, provider, locks, TypeOK
  <2>2. accountLock[Acc(t)] = t /\ receipt[Acc(t)] = "none" /\ Acc(t) \notin created \ dropped /\ HasFinger(Acc(t))
    BY Zenon, <2>1 DEF Task, Holding
  <2>3. \A a \in Accounts \ {Acc(t)} : record'[a] = record[a]
    BY Zenon, <2>1 DEF TypeOK
  <2>4. ASSUME NEW a \in Accounts \ {Acc(t)} PROVE Files(a)' /\ Known(a)'
    BY Zenon, <2>1, <2>3 DEF Accounted, Files, Known, Exists, HasFinger
  <2>5. Acc(t) \notin removed \ dropped
    BY Zenon, <1>1, <2>2 DEF Accounted, Files
  <2>6. ASSUME NEW a, a = Acc(t) PROVE Files(a)' /\ Known(a)'
    BY Zenon, <2>1, <2>2, <2>5, <2>6 DEF Files, Known, HasFinger
  <2>7. Task(t)'
    <3>1. pc'[t] = "undo" => (record'[Acc(t)].status = "none" \/ Acc(t) \in dropped)
      BY Zenon, <2>1 DEF Task, Absent, Exists
    <3>2. pc'[t] = "owner" => record'[Acc(t)].status = "ready"
      <4>1. DOMAIN record = Accounts
        BY Zenon DEF TypeOK
      <4> QED
        BY <1>1, <2>1, <4>1 DEF NewRecord
    <3> QED
      BY Zenon, <2>1, <2>2, <3>1, <3>2 DEF Task, Acc, HasFinger, Absent, Exists, RemovePlaces
  <2> QED
    BY Zenon, <2>4, <2>6, <2>7 DEF Accounted
<1>5. CASE CreateOwner(t)
  <2>1. /\ UNCHANGED <<finger, receipt, removed, dropped, issuer, job>>
        /\ pc[t] = "owner"
    BY Zenon, <1>5 DEF CreateOwner, Rest, provider
  <2>2. accountLock[Acc(t)] = t /\ receipt[Acc(t)] = "none" /\ Acc(t) \notin created \ dropped /\ HasFinger(Acc(t))
    BY Zenon, <2>1 DEF Task, Holding
  <2>3. CASE /\ pc' = [pc EXCEPT ![t] = "done"] /\ record' = record /\ created' = created \cup {Acc(t)}
             /\ owners' = [owners EXCEPT ![Ns(t)] = Registered(Ns(t), Acc(t))]
    <3>1. pc'[t] = "done"
      BY Zenon, <1>0, <2>3 DEF TypeOK
    <3>2. Task(t)'
      BY Zenon, <3>1 DEF Task, Holding, RemovePlaces
    <3>3. \A n \in Namespaces : owners'[n] = IF n = Ns(t) /\ owners[n] # {} THEN owners[n] \cup {Acc(t)} ELSE owners[n]
      BY ZenonT(60), <2>3 DEF Registered, TypeOK
    <3>4. ASSUME NEW a \in Accounts PROVE Known(a)'
      <4>1. NamespaceOf[a] \in Namespaces
        BY Zenon, VaultAssumption
      <4>2. CASE a = Acc(t)
        BY ZenonT(60), <1>1, <3>3, <4>1, <4>2 DEF Known
      <4>3. CASE a # Acc(t)
        <5>1. a \in created' => a \in created
          BY Zenon, <2>3, <4>3
        <5>2. Known(a) /\ record' = record /\ dropped' = dropped
          BY Zenon, <2>1, <2>3 DEF Accounted
        <5>3. owners'[NamespaceOf[a]] # {} => owners[NamespaceOf[a]] # {} /\ owners[NamespaceOf[a]] \subseteq owners'[NamespaceOf[a]]
          BY ZenonT(60), <3>3, <4>1
        <5> QED
          BY Zenon, <5>1, <5>2, <5>3 DEF Known, Exists
      <4> QED
        BY Zenon, <4>2, <4>3
    <3>5. ASSUME NEW a \in Accounts \ {Acc(t)} PROVE Files(a)'
      BY Zenon, <2>1, <2>3 DEF Accounted, Files, Exists, HasFinger
    <3>6. ASSUME NEW a, a = Acc(t) PROVE Files(a)'
      <4>1. Exists(a) \/ a \in dropped
        BY Zenon, <2>1, <3>6 DEF Task
      <4> QED
        BY Zenon, <1>1, <2>1, <2>2, <2>3, <3>6, <4>1 DEF Accounted, Files, Exists, HasFinger
    <3> QED
      BY Zenon, <3>2, <3>4, <3>5, <3>6 DEF Accounted
  <2>4. CASE /\ pc' = [pc EXCEPT ![t] = "undo"] /\ record' = [record EXCEPT ![Acc(t)] = NoRecord]
             /\ owners' = owners /\ created' = created /\ accountLock' = accountLock
    <3>1. pc'[t] = "undo" /\ record'[Acc(t)].status = "none"
      BY Zenon, <1>0, <1>1, <2>4 DEF TypeOK, NoRecord
    <3>2. Task(t)'
      BY Zenon, <2>1, <2>2, <2>4, <3>1 DEF Task, Acc, Absent, Exists, RemovePlaces
    <3>3. ASSUME NEW a \in Accounts \ {Acc(t)} PROVE Files(a)' /\ Known(a)'
      <4>1. record'[a] = record[a]
        BY Zenon, <2>4 DEF TypeOK
      <4> QED
        BY Zenon, <2>1, <2>4, <4>1 DEF Accounted, Files, Known, Exists, HasFinger
    <3>4. ASSUME NEW a, a = Acc(t) PROVE Files(a)' /\ Known(a)'
      BY Zenon, <1>1, <2>1, <2>2, <2>4, <3>1, <3>4 DEF Accounted, Files, Known, Exists
    <3> QED
      BY Zenon, <3>2, <3>3, <3>4 DEF Accounted
  <2> QED
    BY Zenon, <1>5, <2>3, <2>4 DEF CreateOwner, Move
<1>6. CASE UndoCreate(t)
  <2>1. /\ UNCHANGED <<record, owners, receipt, created, removed, dropped, issuer, job>>
        /\ finger' = [finger EXCEPT ![Acc(t)] = NoFinger]
        /\ pc[t] = "undo" /\ pc' = [pc EXCEPT ![t] = "failed"]
    BY Zenon, <1>6 DEF UndoCreate, Move, Rest, provider, history
  <2>2. Absent(Acc(t))
    BY Zenon, <2>1 DEF Task
  <2>3. pc'[t] = "failed"
    BY Zenon, <1>0, <2>1 DEF TypeOK
  <2>4. Task(t)'
    BY ZenonT(60), <2>3 DEF Task, Holding, RemovePlaces
  <2>5. \A a \in Accounts \ {Acc(t)} : finger'[a] = finger[a]
    BY Zenon, <2>1 DEF TypeOK
  <2>6. ASSUME NEW a \in Accounts PROVE Files(a)' /\ Known(a)'
    BY Zenon, <2>1, <2>2, <2>5 DEF Accounted, Files, Known, Exists, HasFinger, Absent
  <2> QED
    BY Zenon, <2>4, <2>6 DEF Accounted
<1> QED
  BY Zenon, <1>2, <1>3, <1>4, <1>5, <1>6 DEF CreateStep

LEMMA CommandAccounted ==
    ASSUME TypeOK, Placed, Accounted, NEW t \in Tasks, Task(t), CommandStep(t)
    PROVE  Accounted' /\ Task(t)'
PROOF
<1>0. t \in Everyone /\ pc[t] # "idle"
  BY Zenon DEF CommandStep, LockForMode, SetMode, ReadReceipt, LockForRevoke, Revoke, RemoveReceipt, RemoveRecord,
         RemoveOwner, RemoveRouting, RemoveSidecar, Move, Everyone
<1>1. Acc(t) \in Accounts /\ Ns(t) \in Namespaces /\ Ns(t) = NamespaceOf[Acc(t)]
  BY Zenon, <1>0, Kinded, VaultAssumption DEF Acc, Jobs, Ns
\* The fingerprint alone changes.
<1>2. ASSUME UNCHANGED <<record, receipt, owners, created, removed, dropped, issuer>>,
             \A a \in Accounts : HasFinger(a) /\ Exists(a) => HasFinger(a)'
      PROVE  Accounted'
  BY Zenon, <1>2 DEF Accounted, Files, Known, Exists
<1>3. CASE LockForMode(t) \/ LockForRevoke(t)
  <2>1. /\ UNCHANGED <<record, receipt, owners, created, removed, dropped, issuer, job>>
        /\ finger' = [finger EXCEPT ![Acc(t)] = LockedFinger(Acc(t))]
    BY Zenon, <1>3 DEF LockForMode, LockForRevoke, history, Rest, provider
  <2>2. \A a \in Accounts : HasFinger(a) /\ Exists(a) => HasFinger(a)'
    BY Zenon, <2>1 DEF LockedFinger, HasFinger, NewFinger, TypeOK
  <2>3. \/ pc'[t] \in {"mode", "revoking"} /\ accountLock'[Acc(t)] = t
        \/ pc'[t] = "failed"
        \/ pc'[t] = "remove" /\ receipt[Acc(t)] = "revoked"
    BY <1>0, <1>1, <1>3 DEF LockForMode, LockForRevoke, Move, Lock, TypeOK
  <2>4. receipt[Acc(t)] = "revoked" => issuer[Acc(t)].revoked
    BY Zenon, <1>1 DEF Accounted, Files
  <2>5. Task(t)'
    BY Zenon, <2>1, <2>3, <2>4 DEF Task, Acc, RemovePlaces, Holding
  <2> QED
    BY Zenon, <1>2, <2>1, <2>2, <2>5
<1>4. CASE SetMode(t)
  <2>1. UNCHANGED <<record, receipt, owners, created, removed, dropped, issuer, job>>
    BY Zenon, <1>4 DEF SetMode, history, Rest, provider
  <2>2. \A a \in Accounts : HasFinger(a) => HasFinger(a)'
    <3>1. PICK mode :
            finger' = IF finger[Acc(t)].mode = mode THEN finger
                      ELSE [finger EXCEPT ![Acc(t)] = [revision |-> @.revision + 1, mode |-> mode]]
      BY ZenonT(60), <1>4 DEF SetMode
    <3>2. \A a \in Accounts : finger[a].revision \in Nat
      BY Zenon DEF TypeOK
    <3>3. \A a \in Accounts : finger'[a].revision \in {finger[a].revision, finger[a].revision + 1}
      BY Zenon, <3>1 DEF TypeOK
    <3> QED
      BY <3>2, <3>3 DEF HasFinger
  <2>3. pc'[t] = "done"
    BY Zenon, <1>0, <1>4 DEF SetMode, Move, TypeOK
  <2>4. Task(t)'
    BY Zenon, <2>3 DEF Task, Holding, RemovePlaces
  <2> QED
    BY Zenon, <1>2, <2>1, <2>2, <2>4
<1>5. CASE ReadReceipt(t)
  <2>1. UNCHANGED <<record, receipt, owners, created, removed, dropped, issuer, job>>
    BY Zenon, <1>5 DEF ReadReceipt, history, Rest, provider
  <2>2. \A a \in Accounts : HasFinger(a) /\ Exists(a) => HasFinger(a)'
    BY Zenon, <1>5 DEF ReadReceipt, HasFinger, TypeOK
  <2>3. pc'[t] \in {"revoke", "failed"} \/ (pc'[t] = "remove" /\ receipt[Acc(t)] = "revoked")
    BY Zenon, <1>0, <1>5 DEF ReadReceipt, Move, TypeOK
  <2>4. receipt[Acc(t)] = "revoked" => issuer[Acc(t)].revoked
    BY Zenon, <1>1 DEF Accounted, Files
  <2>5. Task(t)'
    BY ZenonT(60), <2>1, <2>3, <2>4 DEF Task, Acc, RemovePlaces, Holding
  <2> QED
    BY Zenon, <1>2, <2>1, <2>2, <2>5
<1>6. CASE Revoke(t)
  <2>1. UNCHANGED <<record, finger, receipt, owners, created, removed, dropped, job>>
    BY Zenon, <1>6 DEF Revoke, files, history
  <2>2. \A a \in Accounts : issuer[a].revoked => issuer'[a].revoked
    BY ZenonT(60), CommandAside DEF Aside
  <2>3. Accounted'
    BY ZenonT(60), <2>1, <2>2 DEF Accounted, Files, Known, Exists, HasFinger
  <2>4. \/ pc'[t] = "failed"
        \/ pc'[t] = "remove" /\ issuer'[Acc(t)].revoked
    BY <1>0, <1>1, <1>6 DEF Revoke, Move, TypeOK
  <2>5. Task(t)'
    BY Zenon, <2>1, <2>4 DEF Task, Acc, RemovePlaces, Holding
  <2> QED
    BY Zenon, <2>3, <2>5
<1>7. CASE RemoveReceipt(t)
  <2>1. /\ UNCHANGED <<record, finger, owners, created, removed, dropped, issuer, job>>
        /\ pc[t] = "remove"
        /\ receipt' = IF receipt[Acc(t)] = "none" THEN [receipt EXCEPT ![Acc(t)] = RemovalKind(t)] ELSE receipt
    BY Zenon, <1>7 DEF RemoveReceipt, Move, history, provider
  <2>2. \A a \in Accounts : /\ receipt[a] # "none" => receipt'[a] = receipt[a]
                            /\ receipt'[a] \in {receipt[a], IF a = Acc(t) THEN RemovalKind(t) ELSE receipt[a]}
    BY Zenon, <2>1 DEF TypeOK
  <2>3. RemovalKind(t) = "revoked" => issuer[Acc(t)].revoked
    BY Zenon, <2>1 DEF Task, RemovalKind
  <2>4. ASSUME NEW a \in Accounts PROVE Files(a)' /\ Known(a)'
    BY <2>1, <2>2, <2>3 DEF Accounted, Files, Known, Exists, HasFinger
  <2>5. pc'[t] = "failed" \/ (pc'[t] = "unlink" /\ accountLock'[Acc(t)] = t)
    BY Zenon, <1>0, <1>1, <1>7 DEF RemoveReceipt, Move, TypeOK
  <2>6. receipt'[Acc(t)] # "none"
    BY ZenonT(60), <1>1, <2>1 DEF RemovalKind, TypeOK
  <2>7. Task(t)'
    BY ZenonT(60), <2>1, <2>5, <2>6 DEF Task, Acc, RemovePlaces, Holding
  <2> QED
    BY Zenon, <2>4, <2>7 DEF Accounted
<1>8. CASE RemoveRecord(t)
  <2>1. /\ UNCHANGED <<finger, receipt, owners, created, removed, dropped, issuer, job, accountLock>>
        /\ pc[t] = "unlink" /\ pc' = [pc EXCEPT ![t] = "disown"]
        /\ record' = [record EXCEPT ![Acc(t)] = NoRecord]
    BY Zenon, <1>8 DEF RemoveRecord, Move, history, Rest, provider
  <2>2. accountLock[Acc(t)] = t /\ receipt[Acc(t)] # "none"
    BY ZenonT(60), <2>1 DEF Task, Holding, RemovePlaces
  <2>3. pc'[t] = "disown" /\ record'[Acc(t)].status = "none"
    BY Zenon, <1>0, <1>1, <2>1 DEF TypeOK, NoRecord
  <2>4. Task(t)'
    BY ZenonT(60), <2>1, <2>2, <2>3 DEF Task, Acc, Absent, Exists, RemovePlaces
  <2>5. ASSUME NEW a \in Accounts \ {Acc(t)} PROVE Files(a)' /\ Known(a)'
    <3>1. record'[a] = record[a]
      BY Zenon, <2>1 DEF TypeOK
    <3> QED
      BY ZenonT(60), <2>1, <3>1 DEF Accounted, Files, Known, Exists, HasFinger
  <2>6. ASSUME NEW a, a = Acc(t) PROVE Files(a)' /\ Known(a)'
    BY ZenonT(60), <1>1, <2>1, <2>2, <2>3, <2>6 DEF Accounted, Files, Known, Exists
  <2> QED
    BY Zenon, <2>4, <2>5, <2>6 DEF Accounted
<1>9. CASE RemoveOwner(t)
  <2>1. /\ UNCHANGED <<record, finger, receipt, created, removed, dropped, issuer, job, accountLock>>
        /\ pc[t] = "disown" /\ pc'[t] \in {"unroute", "sidecar"}
    BY Zenon, <1>0, <1>9 DEF RemoveOwner, Move, history, Rest, provider, TypeOK
  <2>2. \A n \in Namespaces : owners'[n] \in {owners[n], {}, Owners(n)}
    BY ZenonT(60), <1>9 DEF RemoveOwner, TypeOK
  <2>3. ASSUME NEW a \in Accounts PROVE Known(a)'
    <3>1. NamespaceOf[a] \in Namespaces
      BY Zenon, VaultAssumption
    <3>2. Exists(a) => a \in Owners(NamespaceOf[a])
      BY Zenon DEF Owners
    <3> QED
      BY ZenonT(60), <2>1, <2>2, <3>1, <3>2 DEF Accounted, Known, Exists
  <2>4. ASSUME NEW a \in Accounts PROVE Files(a)'
    BY Zenon, <2>1 DEF Accounted, Files, Exists, HasFinger
  <2>5. Task(t)'
    BY ZenonT(60), <2>1 DEF Task, Acc, Absent, Exists, RemovePlaces, Holding
  <2> QED
    BY Zenon, <2>3, <2>4, <2>5 DEF Accounted
<1>10. CASE RemoveRouting(t)
  <2>1. /\ UNCHANGED <<record, finger, receipt, owners, created, removed, dropped, issuer, job, accountLock>>
        /\ pc[t] = "unroute" /\ pc'[t] = "sidecar"
    BY Zenon, <1>0, <1>10 DEF RemoveRouting, Move, history, provider, TypeOK
  <2>2. Task(t)'
    BY Zenon, <2>1 DEF Task, Acc, Absent, Exists, RemovePlaces, Holding
  <2> QED
    BY ZenonT(60), <2>1, <2>2 DEF Accounted, Files, Known, Exists, HasFinger
<1>11. CASE RemoveSidecar(t)
  <2>1. /\ UNCHANGED <<record, receipt, owners, created, dropped, issuer, job>>
        /\ finger' = [finger EXCEPT ![Acc(t)] = NoFinger] /\ removed' = removed \cup {Acc(t)}
        /\ pc[t] = "sidecar" /\ pc'[t] = "done"
    BY Zenon, <1>0, <1>11 DEF RemoveSidecar, Move, Rest, provider, TypeOK
  <2>2. Absent(Acc(t)) /\ receipt[Acc(t)] # "none"
    BY ZenonT(60), <2>1 DEF Task, RemovePlaces
  <2>3. Task(t)'
    BY ZenonT(60), <2>1 DEF Task, Holding, RemovePlaces
  <2>4. ASSUME NEW a \in Accounts \ {Acc(t)} PROVE Files(a)' /\ Known(a)'
    <3>1. finger'[a] = finger[a]
      BY Zenon, <2>1 DEF TypeOK
    <3> QED
      BY ZenonT(60), <2>1, <3>1 DEF Accounted, Files, Known, Exists, HasFinger
  <2>5. ASSUME NEW a, a = Acc(t) PROVE Files(a)' /\ Known(a)'
    BY Zenon, <1>1, <2>1, <2>2, <2>5 DEF Accounted, Files, Known, Exists, Absent
  <2> QED
    BY Zenon, <2>3, <2>4, <2>5 DEF Accounted
<1> QED
  BY Zenon, <1>3, <1>4, <1>5, <1>6, <1>7, <1>8, <1>9, <1>10, <1>11 DEF CommandStep
=============================================================================
