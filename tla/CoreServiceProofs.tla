------------------------- MODULE CoreServiceProofs -------------------------
(***************************************************************************)
(* The core under its supervisor: its tasks are where the supervisor       *)
(* believes its process is, so that every step of the service is one of    *)
(* the state directory, about which VaultProofs speaks.                    *)
(***************************************************************************)
EXTENDS CoreService, VaultProofs

\* How long a leaf may take.
USE SMTT(60), ZenonT(60)

\* Who writes after a request was dropped is a core that runs.
Owed == detached # {} => pc[Core] = "up" \/ orphan

\* The supervisor.
Supervised ==
    /\ monitor \in {"spawn", "await", "publish", "watch", "clear", "backoff", "done"}
    /\ child \in {"none", "booting", "ready", "exited"} /\ closer \in {"idle", "kill", "join", "closed"}
    /\ orphan \in BOOLEAN /\ started \in BOOLEAN
    /\ orphan => child # "ready"
    /\ monitor \in {"spawn", "clear", "backoff", "done"} => child = "none"
    /\ closer # "idle" => started
    /\ closer = "closed" => monitor = "done"

\* The core's process is where its supervisor believes it is.
InStep == (child = "ready" <=> pc[Core] = "up") /\ (child = "booting" <=> pc[Core] \in Booting)

IInv ==
    /\ TypeOK /\ Placed /\ (\A t \in Tasks : Task(t)) /\ Accounted /\ StateLocks /\ Writes
    /\ Owed /\ Supervised /\ InStep /\ Served
-----------------------------------------------------------------------------
(* What a task makes of its own account, and what it leaves of others.      *)

LEMMA RequestAccounted ==
    ASSUME TypeOK, Placed, Accounted, NEW t \in Tasks, Task(t), RequestStep(t)
    PROVE  Accounted' /\ Task(t)'
PROOF
<1>0. t \in Everyone /\ pc[t] # "idle"
  BY ZenonT(60) DEF RequestStep, LockRecord, Refresh, Persist, Edit, Send, Learn, Translate, Everyone
<1>1. Acc(t) \in Accounts /\ Ns(t) \in Namespaces /\ Ns(t) = NamespaceOf[Acc(t)]
  BY Zenon, <1>0, Kinded, VaultAssumption DEF Acc, Jobs, Ns
<1>2. UNCHANGED <<receipt, created, removed, dropped, job>>
  BY Zenon, RequestAside DEF Aside
<1>3. CASE LockRecord(t)
  <2>1. /\ UNCHANGED <<record, owners, issuer>>
        /\ finger' = [finger EXCEPT ![Acc(t)] = LockedFinger(Acc(t))]
    BY ZenonT(60), <1>3 DEF LockRecord, provider
  <2>2. \A a \in Accounts : HasFinger(a) /\ Exists(a) => HasFinger(a)'
    BY Zenon, <2>1 DEF LockedFinger, HasFinger, NewFinger, TypeOK
  <2>3. Accounted'
    BY Zenon, <1>2, <2>1, <2>2 DEF Accounted, Files, Known, Exists
  <2>4. \/ pc'[t] \in {"failed", "edit", "send"}
        \/ /\ pc'[t] \in {"refresh", "persist"} /\ accountLock'[Acc(t)] = t
           /\ record[Acc(t)].status = "ready" /\ draft'[t] = Parked(record[Acc(t)])
    BY ZenonT(60), <1>0, <1>1, <1>3 DEF LockRecord, Resolved, Fail, Hold, Lock, TypeOK
  <2>5. Parked(record[Acc(t)]).status = "login"
    <3>1. record[Acc(t)] \in Tokens
      BY ZenonT(60), <1>1 DEF TypeOK
    <3> QED
      BY Zenon, <3>1 DEF Parked, Tokens
  <2>6. Task(t)'
    <3>1. CASE pc'[t] \in {"failed", "edit", "send"}
      BY ZenonT(60), <3>1 DEF Task, Holding, RemovePlaces
    <3>2. CASE /\ pc'[t] \in {"refresh", "persist"} /\ accountLock'[Acc(t)] = t
               /\ record[Acc(t)].status = "ready" /\ draft'[t] = Parked(record[Acc(t)])
      BY ZenonT(60), <1>2, <2>1, <2>5, <3>2 DEF Task, Acc, Exists, RemovePlaces
    <3> QED
      BY Zenon, <2>4, <3>1, <3>2
  <2> QED
    BY Zenon, <2>3, <2>6
<1>4. CASE Refresh(t)
  <2>1. UNCHANGED <<record, finger, owners>> /\ pc[t] = "refresh"
    BY ZenonT(60), <1>4 DEF Refresh, files
  <2>2. \A a \in Accounts : issuer[a].revoked => issuer'[a].revoked
    BY Zenon, RequestAside DEF Aside
  <2>3. Accounted'
    BY ZenonT(60), <1>2, <2>1, <2>2 DEF Accounted, Files, Known, Exists, HasFinger
  <2>4. \/ pc'[t] = "failed"
        \/ /\ pc'[t] = "persist" /\ accountLock'[Acc(t)] = accountLock[Acc(t)]
           /\ draft'[t] = draft[t] \/ draft'[t].status = "ready"
    <3>1. pc \in [Everyone -> AllPlaces] /\ DOMAIN draft = Tasks
      BY Zenon DEF TypeOK
    <3> QED
      BY <1>0, <1>4, <3>1 DEF Refresh, Fail
  <2>5. Task(t)'
    BY ZenonT(60), <1>2, <2>1, <2>4 DEF Task, Acc, Exists, RemovePlaces, Holding
  <2> QED
    BY Zenon, <2>3, <2>5
<1>5. CASE Persist(t)
  <2>1. /\ UNCHANGED <<finger, owners, issuer>> /\ pc[t] = "persist"
        /\ record' = record \/ record' = [record EXCEPT ![Acc(t)] = draft[t]]
    BY ZenonT(60), <1>5 DEF Persist, provider
  <2>2. Exists(Acc(t)) /\ draft[t].status # "none"
    BY ZenonT(60), <2>1 DEF Task
  <2>3. \A a \in Accounts : Exists(a)' <=> Exists(a)
    BY ZenonT(60), <2>1, <2>2 DEF Exists, TypeOK
  <2>4. Accounted'
    BY ZenonT(60), <1>2, <2>1, <2>3 DEF Accounted, Files, Known, HasFinger
  <2>5. pc'[t] \in {"edit", "send", "failed"}
    BY ZenonT(60), <1>0, <1>5 DEF Persist, Resolved, Fail, TypeOK
  <2>6. Task(t)'
    BY ZenonT(60), <2>5 DEF Task, Holding, RemovePlaces
  <2> QED
    BY Zenon, <2>4, <2>6
<1>6. CASE Edit(t) \/ Translate(t)
  <2>1. UNCHANGED <<record, finger, issuer>> /\ (owners' = owners \/ owners' = Edited(Ns(t), Acc(t)))
    BY ZenonT(60), <1>6 DEF Edit, Translate, provider
  <2>2. ASSUME NEW n \in Namespaces PROVE \/ owners'[n] = owners[n]
                                          \/ owners[n] # {} /\ owners[n] \subseteq owners'[n]
                                          \/ Owners(n) \subseteq owners'[n]
    BY <2>1 DEF Edited, TypeOK
  <2>3. ASSUME NEW a \in Accounts PROVE Known(a)'
    <3>1. NamespaceOf[a] \in Namespaces
      BY Zenon, VaultAssumption
    <3>2. Exists(a) => a \in Owners(NamespaceOf[a])
      BY Zenon DEF Owners
    <3>3. Known(a)
      BY Zenon DEF Accounted
    <3> QED
      BY ZenonT(60), <1>2, <2>1, <2>2, <3>1, <3>2, <3>3 DEF Known, Exists
  <2>4. ASSUME NEW a \in Accounts PROVE Files(a)'
    BY Zenon, <1>2, <2>1 DEF Accounted, Files, Exists, HasFinger
  <2>5. pc'[t] \in {"send", "done", "failed"}
    BY ZenonT(60), <1>0, <1>6 DEF Edit, Translate, Fail, TypeOK
  <2>6. Task(t)'
    BY ZenonT(60), <2>5 DEF Task, Holding, RemovePlaces
  <2> QED
    BY Zenon, <2>3, <2>4, <2>6 DEF Accounted
<1>7. CASE Send(t) \/ Learn(t)
  <2>1. UNCHANGED <<record, finger, owners, issuer>>
    BY ZenonT(60), <1>7 DEF Send, Learn, files, provider
  <2>2. Accounted'
    BY ZenonT(60), <1>2, <2>1 DEF Accounted, Files, Known, Exists, HasFinger
  <2>3. pc'[t] \in {"lock", "failed", "learn", "translate", "done"}
    BY ZenonT(60), <1>0, <1>7 DEF Send, Learn, Fail, TypeOK
  <2>4. Task(t)'
    BY ZenonT(60), <2>3 DEF Task, Holding, RemovePlaces
  <2> QED
    BY Zenon, <2>2, <2>4
<1> QED
  BY Zenon, <1>3, <1>4, <1>5, <1>6, <1>7 DEF RequestStep

\* A step that leaves the files alone.
LEMMA FilesStay ==
    ASSUME TypeOK, Placed, Accounted, \A u \in Tasks : Task(u),
           UNCHANGED <<record, finger, receipt, owners, created, removed, draft>>,
           dropped \subseteq dropped', \A a \in Accounts : issuer[a].revoked => issuer'[a].revoked,
           \A u \in Tasks : \/ pc'[u] \in {"lock", "open", "failed"}
                            \/ /\ pc'[u] = pc[u] /\ job'[u] = job[u]
                               /\ pc[u] \in Holding => accountLock'[Acc(u)] = u
    PROVE  Accounted' /\ \A u \in Tasks : Task(u)'
PROOF
<1>1. ASSUME NEW a \in Accounts PROVE Files(a)' /\ Known(a)'
  BY Zenon DEF Accounted, Files, Known, Exists, HasFinger
<1>2. ASSUME NEW u \in Tasks PROVE Task(u)'
  <2>1. CASE pc'[u] \in {"lock", "open", "failed", "idle"}
    BY ZenonT(60), <2>1 DEF Task, Holding, RemovePlaces
  <2>2. CASE pc'[u] \notin {"lock", "open", "failed", "idle"}
    <3>1. pc'[u] = pc[u] /\ job'[u] = job[u] /\ (pc[u] \in Holding => accountLock'[Acc(u)] = u)
      BY Zenon, <2>2
    <3>2. u \in Everyone
      BY Zenon DEF Everyone
    <3>3. PICK a \in Accounts : a = Acc(u)
      BY Zenon, <2>2, <3>1, <3>2, Kinded DEF Acc, Jobs
    <3>4. /\ (Exists(a) => Exists(a)') /\ (Absent(a) => Absent(a)') /\ (HasFinger(a) => HasFinger(a)')
          /\ a \in created' \ dropped' => a \in created \ dropped
          /\ receipt'[a] = receipt[a] /\ draft'[u] = draft[u]
      BY ZenonT(60) DEF Exists, Absent, HasFinger
    <3>5. issuer[a].revoked => issuer'[a].revoked
      BY Zenon
    <3>6. pc[u] \in Holding => accountLock'[a] = u
      BY Zenon, <3>1, <3>3
    <3> QED
      BY ZenonT(60), <3>1, <3>3, <3>4, <3>5, <3>6, TaskStays
  <2> QED
    BY ZenonT(60), <2>1, <2>2
<1> QED
  BY ZenonT(60), <1>1, <1>2 DEF Accounted

\* A process that ends lets go of its own locks only.
LEMMA LocksStay ==
    ASSUME TypeOK, NEW who, accountLock' = Released(who, accountLock),
           NEW u \in Tasks \ who, Task(u), Acc(u) \in Accounts, pc[u] \in Holding
    PROVE  accountLock'[Acc(u)] = u
PROOF
<1>1. accountLock \in [Accounts -> Tasks \cup {None}] /\ accountLock[Acc(u)] = u
  BY Zenon DEF TypeOK, Task
<1> QED
  BY <1>1, ReleasedTypes

LEMMA VaultAccounted ==
    ASSUME TypeOK, Placed, Accounted, \A u \in Tasks : Task(u), VaultStep,
           Writes
    PROVE  Accounted' /\ \A u \in Tasks : Task(u)'
PROOF
<1>0. Tasks \subseteq Everyone /\ Core \in Everyone /\ Core \notin Tasks
  BY Zenon, VaultAssumption DEF Everyone
<1>1. ASSUME NEW t \in Tasks, TaskStep(t) PROVE Accounted' /\ \A u \in Tasks : Task(u)'
  <2>1. t \in Everyone /\ Task(t)
    BY Zenon, <1>0
  <2>2. Accounted' /\ Task(t)'
    BY Zenon, <1>1, <2>1, OpenAccounted, CreateAccounted, CommandAccounted, RequestAccounted DEF TaskStep
  <2>3. Aside(t) /\ \A a \in Accounts : accountLock[a] \notin {None, t} => Left(a)
    BY Zenon, <1>1, <2>1, OpenAside, CreateAside, CommandAside, RequestAside DEF TaskStep
  <2>4. \A u \in Tasks \ {t} : Task(u)'
    BY Zenon, <2>1, <2>3, OthersStay
  <2> QED
    BY Zenon, <2>2, <2>4
<1>2. CASE OpenStep(Core)
  <2>1. Accounted'
    BY Zenon, <1>0, <1>2, OpenAccounted
  <2>2. Aside(Core) /\ \A a \in Accounts : accountLock[a] \notin {None, Core} => Left(a)
    BY Zenon, <1>0, <1>2, OpenAside
  <2>3. \A u \in Tasks \ {Core} : Task(u)'
    BY Zenon, <1>0, <2>2, OthersStay
  <2> QED
    BY Zenon, <1>0, <2>1, <2>3
<1>3. ASSUME NEW t \in Tasks, NEW j \in world.jobs, Start(t, j) PROVE Accounted' /\ \A u \in Tasks : Task(u)'
  <2>1. UNCHANGED <<record, finger, receipt, owners, created, removed, draft, dropped, issuer, accountLock>>
    BY Zenon, <1>3 DEF Start, files, locals, history, provider, locks
  <2>2. \A u \in Tasks : pc'[u] \in {"lock", "open", "failed"} \/ (pc'[u] = pc[u] /\ job'[u] = job[u])
    BY ZenonT(60), <1>0, <1>3 DEF Start, TypeOK
  <2>3. \A u \in Tasks : pc[u] \in Holding => accountLock[Acc(u)] = u
    BY ZenonT(60) DEF Task
  <2> QED
    BY Zenon, <2>1, <2>2, <2>3, FilesStay
<1>4. ASSUME NEW t \in Tasks, Drop(t) PROVE Accounted' /\ \A u \in Tasks : Task(u)'
  <2>1. /\ UNCHANGED <<record, finger, receipt, owners, created, removed, draft, job>>
        /\ dropped \subseteq dropped' /\ accountLock' = Released({t}, accountLock)
        /\ pc' = [pc EXCEPT ![t] = "failed"]
    BY Zenon, <1>4 DEF Drop, files, locals
  <2>2. \A a \in Accounts : issuer[a].revoked => issuer'[a].revoked
    BY Zenon, <1>4, IssueTypes DEF Drop
  <2>3. ASSUME NEW u \in Tasks, pc'[u] \notin {"lock", "open", "failed"}
        PROVE  pc'[u] = pc[u] /\ (pc[u] \in Holding => accountLock'[Acc(u)] = u)
    <3>1. u # t /\ pc'[u] = pc[u]
      BY Zenon, <1>0, <2>1, <2>3 DEF TypeOK
    <3>2. pc[u] \in Holding => Acc(u) \in Accounts
      BY ZenonT(60), <1>0, Kinded DEF Acc, Jobs, Holding, RemovePlaces
    <3> QED
      BY Zenon, <2>1, <3>1, <3>2, LocksStay
  <2> QED
    BY ZenonT(60), <2>1, <2>2, <2>3, FilesStay
<1>5. ASSUME NEW who, Die(who) \/ (CoreOrphaned /\ who = {Core} \cup Requests) PROVE Accounted' /\ \A u \in Tasks : Task(u)'
  <2>1. /\ UNCHANGED <<record, finger, receipt, owners, created, removed, draft, issuer, job>>
        /\ dropped \subseteq dropped' /\ accountLock' = Released(who, accountLock)
    BY ZenonT(60), <1>5 DEF Die, CoreOrphaned, files, provider
  <2>2. ASSUME NEW u \in Tasks, pc'[u] \notin {"lock", "open", "failed"}
        PROVE  pc'[u] = pc[u] /\ (pc[u] \in Holding => accountLock'[Acc(u)] = u)
    <3>1. pc'[u] = pc[u] /\ (u \notin who \/ ~Running(u))
      BY ZenonT(60), <1>0, <1>5, <2>2 DEF Die, CoreOrphaned
    <3>2. pc[u] \in Holding => Running(u) /\ Acc(u) \in Accounts
      BY ZenonT(60), <1>0, Kinded DEF Acc, Jobs, Holding, RemovePlaces, Running
    <3> QED
      BY ZenonT(60), <2>1, <3>1, <3>2, LocksStay
  <2> QED
    BY Zenon, <2>1, <2>2, FilesStay
<1>6. CASE BootCore \/ CoreReady \/ OrphanGone \/ (\E t \in Tasks : Abandon(t)) \/ (\E a \in Accounts : Reject(a))
           \/ UNCHANGED vars
  <2>1. /\ UNCHANGED <<record, finger, receipt, owners, created, removed, draft, dropped, issuer, accountLock, job>>
        /\ pc' = pc \/ \E p : pc' = [pc EXCEPT ![Core] = p]
    BY ZenonT(60), <1>6 DEF BootCore, CoreReady, OrphanGone, Abandon, Reject, Move, vars, files, locals, history, provider, locks
  <2>2. \A u \in Tasks : pc'[u] = pc[u]
    BY Zenon, <1>0, <2>1 DEF TypeOK
  <2>3. \A u \in Tasks : pc[u] \in Holding => accountLock[Acc(u)] = u
    BY Zenon DEF Task
  <2> QED
    BY Zenon, <2>1, <2>2, <2>3, FilesStay
<1>7. ASSUME NEW d \in detached, DetachedWrite(d) PROVE Accounted' /\ \A u \in Tasks : Task(u)'
  <2>1. /\ UNCHANGED <<finger, receipt, owners, created, removed, draft, dropped, issuer, accountLock, job, pc>>
        /\ record' = [record EXCEPT ![d.account] = d.write] /\ d.account \in dropped /\ d.write.status # "none"
    BY Zenon, <1>7 DEF DetachedWrite, Writes, locals, history, provider, locks
  <2>2. \A a \in Accounts : (Exists(a) => Exists(a)') /\ (a \notin dropped => record'[a] = record[a])
    BY Zenon, <2>1 DEF Exists, TypeOK
  <2>3. ASSUME NEW a \in Accounts PROVE Files(a)' /\ Known(a)'
    BY Zenon, <2>1, <2>2 DEF Accounted, Files, Known, Exists, HasFinger
  <2>4. ASSUME NEW u \in Tasks PROVE Task(u)'
    <3>1. CASE pc[u] = "idle"
      BY ZenonT(60), <2>1, <3>1 DEF Task, Holding, RemovePlaces
    <3>2. CASE pc[u] # "idle"
      <4>1. PICK a \in Accounts : a = Acc(u)
        BY ZenonT(60), <1>0, <3>2, Kinded DEF Acc, Jobs
      <4>2. /\ (Exists(a) => Exists(a)') /\ (Absent(a) => Absent(a)') /\ (HasFinger(a) => HasFinger(a)')
        BY Zenon, <2>1, <2>2 DEF Exists, Absent, HasFinger
      <4>3. pc[u] \in Holding => accountLock'[a] = u
        BY ZenonT(60), <2>1, <4>1 DEF Task
      <4> QED
        BY ZenonT(60), <2>1, <4>1, <4>2, <4>3, TaskStays
    <3> QED
      BY Zenon, <3>1, <3>2
  <2> QED
    BY Zenon, <2>3, <2>4 DEF Accounted
<1>8. ASSUME NEW t \in Tasks, CrashCommand(t) PROVE Accounted' /\ \A u \in Tasks : Task(u)'
  BY Zenon, <1>5, <1>8 DEF CrashCommand
<1>9. CASE CoreDies \/ CoreOrphaned
  BY Zenon, <1>5, <1>9 DEF CoreDies
<1> QED
  BY <1>1, <1>2, <1>3, <1>4, <1>6, <1>7, <1>8, <1>9, ZenonT(60) DEF VaultStep, Next

-----------------------------------------------------------------------------
(* Request states and their locks.                                          *)

\* A created account has no record out of nothing, except that its creation has just returned,
\* which waits for the state's lock.
LEMMA Appears ==
    ASSUME TypeOK, Placed, Accounted, \A u \in Tasks : Task(u), VaultStep,
           Writes,
           NEW a \in Accounts, a \in created' \ dropped', Exists(a)'
    PROVE  (a \in created \ dropped /\ Exists(a)) \/ stateLock[NamespaceOf[a]] = None
PROOF
<1>1. ASSUME dropped \subseteq dropped', created' = created, Exists(a)' => Exists(a)
      PROVE  a \in created \ dropped /\ Exists(a)
  BY Zenon, <1>1
<1>2. ASSUME NEW t \in Tasks, CreateStep(t)
      PROVE  (a \in created \ dropped /\ Exists(a)) \/ stateLock[NamespaceOf[a]] = None
  <2>1. CASE CreateRecord(t)
    <3>1. /\ UNCHANGED <<created, dropped>> /\ pc[t] = "record"
          /\ record' = record \/ record' = [record EXCEPT ![Acc(t)] = NewRecord(Acc(t))]
      BY Zenon, <2>1 DEF CreateRecord, Move, history
    <3>2. Acc(t) \notin created \ dropped
      BY ZenonT(60), <3>1 DEF Task
    <3>3. a # Acc(t)
      BY Zenon, <3>1, <3>2
    <3>4. record'[a] = record[a]
      BY Zenon, <3>1, <3>3 DEF TypeOK
    <3> QED
      BY ZenonT(60), <1>1, <3>1, <3>4 DEF Exists
  <2>2. CASE CreateOwner(t)
    <3>1. dropped' = dropped /\ (record' = record \/ record' = [record EXCEPT ![Acc(t)] = NoRecord])
      BY ZenonT(60), <2>2 DEF CreateOwner
    <3>2. Exists(a)' => Exists(a)
      <4>1. NoRecord.status = "none"
        BY Zenon DEF NoRecord
      <4>2. record'[a] = record[a] \/ record'[a] = NoRecord
        BY Zenon, <3>1 DEF TypeOK
      <4> QED
        BY Zenon, <4>1, <4>2 DEF Exists
    <3>3. a \in created \/ a = Acc(t)
      BY ZenonT(60), <2>2 DEF CreateOwner
    <3>4. stateLock[NamespaceOf[Acc(t)]] = None
      BY ZenonT(60), <2>2 DEF CreateOwner, StateFree, Ns
    <3> QED
      BY ZenonT(60), <3>1, <3>2, <3>3, <3>4
  <2>3. CASE ~CreateRecord(t) /\ ~CreateOwner(t)
    <3>1. UNCHANGED <<record, created, dropped>>
      BY ZenonT(60), <1>2, <2>3 DEF CreateStep, SignIn, ExchangeCode, Import, AddApiKey, CreateSidecar,
            UndoCreate, files, history
    <3> QED
      BY Zenon, <1>1, <3>1 DEF Exists
  <2> QED
    BY Zenon, <2>1, <2>2, <2>3
<1>3. ASSUME NEW t \in Tasks, CommandStep(t) PROVE a \in created \ dropped /\ Exists(a)
  <2>1. UNCHANGED <<created, dropped>> /\ (record' = record \/ record' = [record EXCEPT ![Acc(t)] = NoRecord])
    BY ZenonT(60), <1>3 DEF CommandStep, LockForMode, SetMode, ReadReceipt, LockForRevoke, Revoke, RemoveReceipt, RemoveRecord,
         RemoveOwner, RemoveRouting, RemoveSidecar, files, history
  <2>2. Exists(a)' => Exists(a)
    <3>1. NoRecord.status = "none"
      BY Zenon DEF NoRecord
    <3>2. record'[a] = record[a] \/ record'[a] = NoRecord
      BY Zenon, <2>1 DEF TypeOK
    <3> QED
      BY Zenon, <3>1, <3>2 DEF Exists
  <2> QED
    BY Zenon, <1>1, <2>1, <2>2
<1>4. ASSUME NEW t \in Tasks, RequestStep(t) PROVE a \in created \ dropped /\ Exists(a)
  <2>1. UNCHANGED <<created, dropped>>
    BY Zenon, <1>4, RequestAside
  <2>2. CASE Persist(t)
    <3>1. pc[t] = "persist" /\ (record' = record \/ record' = [record EXCEPT ![Acc(t)] = draft[t]])
      BY ZenonT(60), <2>2 DEF Persist
    <3>2. Exists(Acc(t))
      BY ZenonT(60), <3>1 DEF Task
    <3>3. Exists(a)' => Exists(a)
      BY Zenon, <3>1, <3>2 DEF Exists, TypeOK
    <3> QED
      BY Zenon, <1>1, <2>1, <3>3
  <2>3. CASE ~Persist(t)
    <3>1. record' = record
      BY ZenonT(60), <1>4, <2>3 DEF RequestStep, LockRecord, Refresh, Edit, Send, Learn, Translate, files
    <3> QED
      BY ZenonT(60), <1>1, <2>1, <3>1 DEF Exists
  <2> QED
    BY Zenon, <2>2, <2>3
<1>5. ASSUME NEW t \in Everyone, OpenStep(t) PROVE a \in created \ dropped /\ Exists(a)
  BY Zenon, <1>1, <1>5, OpenAside DEF Aside, Exists
<1>6. ASSUME NEW d \in detached, DetachedWrite(d) PROVE a \in created \ dropped /\ Exists(a)
  <2>1. d.account \in dropped /\ UNCHANGED <<created, dropped>> /\ record' = [record EXCEPT ![d.account] = d.write]
    BY Zenon, <1>6 DEF DetachedWrite, Writes, history
  <2>2. record'[a] = record[a]
    BY ZenonT(60), <2>1 DEF TypeOK
  <2> QED
    BY Zenon, <1>1, <2>1, <2>2 DEF Exists
<1>7. ASSUME \/ \E t \in Tasks, j \in world.jobs : Start(t, j)
             \/ \E t \in Tasks : Abandon(t) \/ Drop(t) \/ CrashCommand(t)
             \/ \E b \in Accounts : Reject(b)
             \/ BootCore \/ CoreReady \/ CoreDies \/ CoreOrphaned \/ OrphanGone \/ UNCHANGED vars
      PROVE  a \in created \ dropped /\ Exists(a)
  <2>1. UNCHANGED <<record, created>> /\ dropped \subseteq dropped'
    BY ZenonT(60), <1>7 DEF Start, Abandon, Drop, CrashCommand, Reject, BootCore, CoreReady, CoreDies, Die, CoreOrphaned,
                OrphanGone, vars, files, history
  <2> QED
    BY Zenon, <1>1, <2>1 DEF Exists
<1>8. Tasks \subseteq Everyone /\ Core \in Everyone
  BY Zenon DEF Everyone
<1> QED
  BY <1>2, <1>3, <1>4, <1>5, <1>6, <1>7, <1>8, ZenonT(60) DEF VaultStep, Next, TaskStep

LEMMA UnusedStays ==
    ASSUME TypeOK, TypeOK', Placed, Accounted, \A u \in Tasks : Task(u), VaultStep,
           Writes,
           NEW n \in Namespaces, stateLock[n] # None, Unused(n)
    PROVE  Unused(n)'
PROOF
<1>1. SUFFICES ASSUME NEW a \in created' \ dropped', NamespaceOf[a] = n, Exists(a)' PROVE FALSE
  BY Zenon DEF Unused
<1>2. a \in Accounts
  BY ZenonT(60) DEF TypeOK
<1> QED
  BY ZenonT(60), <1>1, <1>2, Appears DEF Unused

\* Whoever has a state locked now had it before and has not moved, or has just come to a place
\* where it may.
LEMMA LockTaken ==
    ASSUME TypeOK, Placed, StateLocks, VaultStep, NEW n \in Namespaces, NEW t \in Everyone, stateLock'[n] = t
    PROVE  \/ stateLock[n] = t /\ pc'[t] = pc[t] /\ job'[t] = job[t]
           \/ pc'[t] \in {"disown", "unroute"} /\ n = Ns(t)'
           \/ pc'[t] = "sweepRouting"
           \/ pc'[t] = "sweep" /\ Owners(n) = {} /\ UNCHANGED <<record, created, dropped>>
PROOF
<1> DEFINE Goal == \/ stateLock[n] = t /\ pc'[t] = pc[t] /\ job'[t] = job[t]
                   \/ pc'[t] \in {"disown", "unroute"} /\ n = Ns(t)'
                   \/ pc'[t] = "sweepRouting"
                   \/ pc'[t] = "sweep" /\ Owners(n) = {} /\ UNCHANGED <<record, created, dropped>>
<1>0. Tasks \subseteq Everyone /\ Core \in Everyone /\ Core \notin Tasks /\ t # None
  BY ZenonT(60), VaultAssumption DEF Everyone
<1>1. stateLock[n] = t => (pc[t] \in {"disown", "unroute"} /\ n = Ns(t)) \/ pc[t] \in {"sweep", "sweepRouting"}
  BY Zenon DEF StateLocks, StateLocked
\* Whoever does not touch the lock does not move away from it.
<1>2. ASSUME NEW s \in Everyone, stateLock' = stateLock, job' = job, NEW p, pc' = [pc EXCEPT ![s] = p],
             pc[s] \notin {"disown", "unroute", "sweep", "sweepRouting"}
      PROVE  Goal
  BY ZenonT(60), <1>0, <1>1, <1>2 DEF TypeOK
<1>3. ASSUME NEW s \in Everyone, OpenStep(s) PROVE Goal
  <2>1. CASE OpenList(s) \/ OpenStates(s) \/ Opened(s)
    BY ZenonT(60), <1>2, <1>3, <2>1 DEF OpenList, OpenStates, Opened, Move, locks
  <2>2. CASE OpenRemoveState(s)
    <3>1. stateLock' = stateLock /\ job' = job /\ pc' = [pc EXCEPT ![s] = "sweepRouting"]
      BY ZenonT(60), <2>2 DEF OpenRemoveState, Move, locks
    <3> QED
      BY ZenonT(60), <1>3, <3>1 DEF TypeOK
  <2>3. CASE OpenRemoveRouting(s)
    <3>1. stateLock'[n] = IF stateLock[n] = s THEN None ELSE stateLock[n]
      BY ZenonT(60), <2>3 DEF OpenRemoveRouting, Swept
    <3>2. s # t /\ stateLock[n] = t
      BY Zenon, <1>0, <3>1
    <3> QED
      BY ZenonT(60), <2>3, <3>2 DEF OpenRemoveRouting, Move, TypeOK
  <2>4. ASSUME NEW a \in todo[s], OpenSidecar(s, a) PROVE Goal
    BY ZenonT(60), <2>4 DEF OpenSidecar, locks
  <2>5. ASSUME NEW e \in todo[s], OpenState(s, e) PROVE Goal
    <3>1. CASE UNCHANGED <<pc, stateLock>>
      BY ZenonT(60), <2>5, <3>1 DEF OpenState
    <3>2. CASE /\ StillUnowned(e[1])
               /\ pc' = [pc EXCEPT ![s] = IF e[2] = "state" THEN "sweep" ELSE "sweepRouting"]
               /\ stateLock' = [stateLock EXCEPT ![e[1]] = s]
      <4>1. UNCHANGED <<record, created, dropped, job>> /\ pc[s] = "states"
        BY Zenon, <2>5 DEF OpenState, files, history
      <4>2. CASE e[1] = n
        <5>1. s = t
          BY Zenon, <3>2, <4>2 DEF TypeOK
        <5>2. Owners(n) = {}
          BY Zenon, <3>2, <4>2 DEF StillUnowned
        <5>3. pc'[t] \in {"sweep", "sweepRouting"}
          BY Zenon, <3>2, <5>1 DEF TypeOK
        <5> QED
          BY ZenonT(60), <4>1, <5>2, <5>3
      <4>3. CASE e[1] # n
        <5>1. stateLock[n] = t
          BY Zenon, <3>2, <4>3 DEF TypeOK
        <5>2. s # t
          BY Zenon, <1>1, <4>1, <5>1
        <5> QED
          BY ZenonT(60), <3>2, <4>1, <5>1, <5>2 DEF TypeOK
      <4> QED
        BY ZenonT(60), <4>2, <4>3
    <3> QED
      BY ZenonT(60), <2>5, <3>1, <3>2 DEF OpenState
  <2> QED
    BY ZenonT(60), <1>3, <2>1, <2>2, <2>3, <2>4, <2>5 DEF OpenStep
<1>4. ASSUME NEW s \in Tasks, CreateStep(s) PROVE Goal
  <2>1. \E p : /\ stateLock' = stateLock /\ job' = job /\ pc' = [pc EXCEPT ![s] = p]
               /\ pc[s] \notin {"disown", "unroute", "sweep", "sweepRouting"}
    BY ZenonT(60), <1>4 DEF CreateStep, SignIn, ExchangeCode, Import, AddApiKey, CreateSidecar, CreateRecord,
         CreateOwner, UndoCreate, Move, Rest, locks
  <2> HIDE DEF Goal
  <2> QED
    BY ZenonT(60), <1>0, <1>2, <2>1
<1>5. ASSUME NEW s \in Tasks, RequestStep(s) PROVE Goal
  <2>1. \E p : /\ stateLock' = stateLock /\ job' = job /\ pc' = [pc EXCEPT ![s] = p]
               /\ pc[s] \notin {"disown", "unroute", "sweep", "sweepRouting"}
    BY ZenonT(60), <1>5 DEF RequestStep, LockRecord, Refresh, Persist, Edit, Send, Learn, Translate, Resolved, Fail, locks
  <2> HIDE DEF Goal
  <2> QED
    BY ZenonT(60), <1>0, <1>2, <2>1
<1>6. ASSUME NEW s \in Tasks, CommandStep(s) PROVE Goal
  <2>1. CASE RemoveRecord(s)
    <3>1. /\ pc[s] = "unlink" /\ pc' = [pc EXCEPT ![s] = "disown"] /\ job' = job
          /\ stateLock' = [stateLock EXCEPT ![Ns(s)] = s]
      BY ZenonT(60), <2>1 DEF RemoveRecord, Move, Rest
    <3>2. CASE s = t
      <4>1. stateLock[n] # t
        BY Zenon, <1>1, <3>1, <3>2
      <4>2. n = Ns(t)
        BY ZenonT(60), <3>1, <3>2, <4>1 DEF TypeOK
      <4> QED
        BY ZenonT(60), <3>1, <3>2, <4>2 DEF TypeOK, Ns, Acc
    <3>3. CASE s # t
      BY ZenonT(60), <3>1, <3>3 DEF TypeOK
    <3> QED
      BY ZenonT(60), <3>2, <3>3
  <2>2. CASE RemoveOwner(s) \/ RemoveRouting(s)
    <3>1. /\ pc[s] \in {"disown", "unroute"} /\ job' = job
          /\ \/ pc' = [pc EXCEPT ![s] = "unroute"] /\ stateLock' = stateLock
             \/ pc' = [pc EXCEPT ![s] = "sidecar"] /\ stateLock' = [stateLock EXCEPT ![Ns(s)] = None]
      BY Zenon, <2>2 DEF RemoveOwner, RemoveRouting, Move, UnlockState, Rest
    <3>2. stateLock[n] = t
      BY Zenon, <1>0, <3>1 DEF TypeOK
    <3>3. CASE s = t
      <4>1. n = Ns(t)
        BY Zenon, <1>1, <3>1, <3>2, <3>3
      <4>2. pc'[t] = "unroute"
        BY Zenon, <1>0, <3>1, <3>3, <4>1 DEF TypeOK
      <4> QED
        BY ZenonT(60), <3>1, <4>1, <4>2 DEF Ns, Acc
    <3>4. CASE s # t
      BY ZenonT(60), <3>1, <3>2, <3>4 DEF TypeOK
    <3> QED
      BY Zenon, <3>3, <3>4
  <2>3. CASE ~(RemoveRecord(s) \/ RemoveOwner(s) \/ RemoveRouting(s))
    <3>1. \E p : /\ stateLock' = stateLock /\ job' = job /\ pc' = [pc EXCEPT ![s] = p]
                 /\ pc[s] \notin {"disown", "unroute", "sweep", "sweepRouting"}
      BY Zenon, <1>6, <2>3 DEF CommandStep, LockForMode, SetMode, ReadReceipt, LockForRevoke, Revoke, RemoveReceipt,
           RemoveSidecar, Move, Rest, locks
    <3> HIDE DEF Goal
    <3> QED
      BY Zenon, <1>0, <1>2, <3>1
  <2> QED
    BY ZenonT(60), <2>1, <2>2, <2>3
<1>7. ASSUME NEW s \in Tasks, NEW j \in world.jobs, Start(s, j) PROVE Goal
  <2>1. stateLock' = stateLock /\ pc[s] = "idle"
    BY ZenonT(60), <1>7 DEF Start, locks
  <2>2. s # t
    BY ZenonT(60), <1>1, <2>1
  <2> QED
    BY ZenonT(60), <1>7, <2>1, <2>2 DEF Start, TypeOK
<1>8. ASSUME NEW s \in Tasks, Drop(s) PROVE Goal
  <2>1. /\ stateLock' = stateLock /\ job' = job /\ pc' = [pc EXCEPT ![s] = "failed"] /\ s \in Requests
    BY ZenonT(60), <1>8 DEF Drop
  <2>2. pc[s] \in RequestPlaces
    BY <1>0, <2>1, RequestsHaveJobs DEF Placed, PlacesOf, Requests, NoJob, Jobs, Kinds
  <2>3. pc[s] \notin {"disown", "unroute", "sweep", "sweepRouting"}
    BY Zenon, <2>2 DEF RequestPlaces
  <2> HIDE DEF Goal
  <2> QED
    BY ZenonT(60), <1>0, <1>2, <2>1, <2>3
<1>9. ASSUME NEW who, Die(who) \/ (CoreOrphaned /\ who = {Core} \cup Requests) PROVE Goal
  <2>1. stateLock' = Released(who, stateLock) /\ job' = job
    BY ZenonT(60), <1>9 DEF Die, CoreOrphaned
  <2>2. stateLock \in [Namespaces -> Everyone \cup {None}]
    BY ZenonT(60) DEF TypeOK
  <2>3. stateLock'[n] = IF stateLock[n] \in who THEN None ELSE stateLock[n]
    BY <2>1, <2>2, ReleasedTypes
  <2>4. stateLock[n] = t /\ t \notin who
    BY ZenonT(60), <1>0, <2>3
  <2>5. pc'[t] = pc[t]
    BY ZenonT(60), <1>9, <2>4 DEF Die, CoreOrphaned
  <2> QED
    BY ZenonT(60), <2>1, <2>4, <2>5
<1>10. ASSUME BootCore \/ CoreReady PROVE Goal
  <2>1. \E p : /\ stateLock' = stateLock /\ job' = job /\ pc' = [pc EXCEPT ![Core] = p]
               /\ pc[Core] \notin {"disown", "unroute", "sweep", "sweepRouting"}
    BY ZenonT(60), <1>10 DEF BootCore, CoreReady, Move, locks
  <2> HIDE DEF Goal
  <2> QED
    BY ZenonT(60), <1>0, <1>2, <2>1
<1>11. ASSUME \/ \E s \in Tasks : Abandon(s)
              \/ \E b \in Accounts : Reject(b)
              \/ \E d \in detached : DetachedWrite(d)
              \/ OrphanGone \/ UNCHANGED vars
       PROVE  Goal
  BY ZenonT(60), <1>11 DEF Abandon, Reject, DetachedWrite, OrphanGone, vars, locks
<1>12. ASSUME NEW s \in Tasks, CrashCommand(s) PROVE Goal
  BY ZenonT(60), <1>9, <1>12 DEF CrashCommand
<1>13. ASSUME CoreDies \/ CoreOrphaned PROVE Goal
  BY ZenonT(60), <1>9, <1>13 DEF CoreDies
<1> HIDE DEF Goal
<1>14. Goal
  BY <1>0, <1>3, <1>4, <1>5, <1>6, <1>7, <1>8, <1>10, <1>11, <1>12, <1>13, ZenonT(60) DEF VaultStep, Next, TaskStep
<1> QED
  BY ZenonT(60), <1>14 DEF Goal

LEMMA StateLocksStay ==
    ASSUME TypeOK, TypeOK', Placed, Accounted, \A u \in Tasks : Task(u), StateLocks, VaultStep,
           Writes
    PROVE  StateLocks'
PROOF
<1>1. SUFFICES ASSUME NEW n \in Namespaces, NEW t \in Everyone, stateLock'[n] = t
               PROVE  \/ pc'[t] \in {"disown", "unroute"} /\ n = Ns(t)'
                      \/ pc'[t] = "sweepRouting"
                      \/ pc'[t] = "sweep" /\ Unused(n)'
  BY ZenonT(60) DEF StateLocks, StateLocked
<1>2. CASE stateLock[n] = t /\ pc'[t] = pc[t] /\ job'[t] = job[t]
  <2>1. StateLocked(n, t) /\ stateLock[n] # None
    BY ZenonT(60), <1>2, VaultAssumption DEF StateLocks, Everyone
  <2>2. Ns(t)' = Ns(t)
    BY ZenonT(60), <1>2 DEF Ns, Acc
  <2>3. Unused(n) => Unused(n)'
    BY Zenon, <2>1, UnusedStays
  <2> QED
    BY ZenonT(60), <1>2, <2>1, <2>2, <2>3 DEF StateLocked
<1>3. CASE pc'[t] = "sweep" /\ Owners(n) = {} /\ UNCHANGED <<record, created, dropped>>
  <2>1. \A a \in created \ dropped : NamespaceOf[a] = n => ~Exists(a)
    BY ZenonT(60), <1>3 DEF Owners, TypeOK
  <2> QED
    BY ZenonT(60), <1>3, <2>1 DEF Unused, Exists
<1> QED
  BY ZenonT(60), <1>1, <1>2, <1>3, LockTaken

\* A state that goes was of no use to anybody whose creation had returned.
LEMMA StateGoes ==
    ASSUME TypeOK, Placed, StateLocks, VaultStep, NEW n \in Namespaces, owners[n] # {}, owners'[n] = {}
    PROVE  Unused(n)
PROOF
<1>1. ASSUME NEW t \in Everyone, OpenStep(t) PROVE Unused(n)
  <2>1. CASE OpenRemoveState(t)
    <3>1. pc[t] = "sweep" /\ stateLock[n] = t
      BY ZenonT(60), <2>1 DEF OpenRemoveState, Move, Swept
    <3> QED
      BY ZenonT(60), <3>1 DEF StateLocks, StateLocked
  <2>2. CASE ~OpenRemoveState(t)
    BY ZenonT(60), <1>1, <2>2 DEF OpenStep, OpenList, OpenStates, OpenRemoveRouting, Opened, OpenState, OpenSidecar, files
  <2> QED
    BY Zenon, <2>1, <2>2
<1>2. ASSUME NEW t \in Tasks, CommandStep(t) PROVE Unused(n)
  <2>1. CASE RemoveOwner(t)
    <3>1. Owners(n) = {}
      BY ZenonT(60), <2>1 DEF RemoveOwner, LastOwner, TypeOK
    <3> QED
      BY ZenonT(60), <3>1 DEF Owners, Unused, TypeOK
  <2>2. CASE ~RemoveOwner(t)
    BY ZenonT(60), <1>2, <2>2 DEF CommandStep, LockForMode, SetMode, ReadReceipt, LockForRevoke, Revoke, RemoveReceipt, RemoveRecord,
         RemoveRouting, RemoveSidecar, files
  <2> QED
    BY ZenonT(60), <2>1, <2>2
<1>3. ASSUME NEW t \in Tasks, CreateStep(t) PROVE FALSE
  <2>1. owners' = owners \/ owners' = [owners EXCEPT ![Ns(t)] = Registered(Ns(t), Acc(t))]
    BY ZenonT(60), <1>3 DEF CreateStep, SignIn, ExchangeCode, Import, AddApiKey, CreateSidecar, CreateRecord,
         CreateOwner, UndoCreate, files
  <2> QED
    BY <2>1 DEF Registered, TypeOK
<1>4. ASSUME NEW t \in Tasks, RequestStep(t) PROVE FALSE
  <2>1. owners' = owners \/ owners' = Edited(Ns(t), Acc(t))
    BY ZenonT(60), <1>4 DEF RequestStep, LockRecord, Refresh, Persist, Edit, Send, Learn, Translate, files
  <2>2. owners'[n] = owners[n] \/ Acc(t) \in owners'[n]
    BY ZenonT(60), <2>1 DEF Edited, TypeOK
  <2> QED
    BY ZenonT(60), <2>2
<1>5. ASSUME \/ \E t \in Tasks, j \in world.jobs : Start(t, j)
             \/ \E t \in Tasks : Abandon(t) \/ Drop(t) \/ CrashCommand(t)
             \/ \E b \in Accounts : Reject(b)
             \/ \E d \in detached : DetachedWrite(d)
             \/ BootCore \/ CoreReady \/ CoreDies \/ CoreOrphaned \/ OrphanGone \/ UNCHANGED vars
      PROVE  FALSE
  <2>1. owners' = owners
    BY ZenonT(60), <1>5 DEF Start, Abandon, Drop, CrashCommand, Reject, DetachedWrite, BootCore, CoreReady, CoreDies, Die,
                CoreOrphaned, OrphanGone, vars, files
  <2> QED
    BY Zenon, <2>1
<1>6. Tasks \subseteq Everyone /\ Core \in Everyone
  BY Zenon DEF Everyone
<1> QED
  BY <1>1, <1>2, <1>3, <1>4, <1>5, <1>6, ZenonT(60) DEF VaultStep, Next, TaskStep

-----------------------------------------------------------------------------
(* The core's process.                                                      *)

LEMMA WritesStay ==
    ASSUME TypeOK, Placed, \A u \in Tasks : Task(u), Writes, VaultStep
    PROVE  Writes'
PROOF
<1>0. Tasks \subseteq Everyone /\ Core \in Everyone
  BY Zenon DEF Everyone
<1>1. ASSUME dropped \subseteq dropped', detached' \subseteq detached PROVE Writes'
  BY Zenon, <1>1 DEF Writes
<1>2. ASSUME NEW t \in Tasks, Drop(t) PROVE Writes'
  <2>1. /\ dropped \subseteq dropped'
        /\ \/ detached' = detached
           \/ /\ pc[t] = "persist" /\ detached' = detached \cup {[account |-> Acc(t), write |-> draft[t]]}
              /\ Acc(t) \in dropped'
    BY ZenonT(60), <1>2 DEF Drop
  <2>2. pc[t] = "persist" => draft[t].status # "none"
    BY ZenonT(60) DEF Task
  <2> QED
    BY <2>1, <2>2 DEF Writes
<1>3. CASE CoreOrphaned
  <2>1. /\ dropped' = dropped \cup {Acc(t) : t \in {u \in Requests : pc[u] = "persist"}}
        /\ detached' = detached \cup {[account |-> Acc(t), write |-> draft[t]] : t \in {u \in Requests : pc[u] = "persist"}}
    BY <1>3, ZenonT(60) DEF CoreOrphaned
  <2>2. SUFFICES ASSUME NEW d \in detached' PROVE d.account \in dropped' /\ d.write.status # "none"
    BY Zenon DEF Writes
  <2>3. CASE d \in detached
    BY ZenonT(60), <2>1, <2>3 DEF Writes
  <2>4. CASE d \notin detached
    <3>1. PICK t \in Requests : pc[t] = "persist" /\ d = [account |-> Acc(t), write |-> draft[t]]
      BY <2>1, <2>2, <2>4, ZenonT(60)
    <3>2. draft[t].status # "none"
      BY ZenonT(60), <3>1 DEF Task, Requests
    <3>3. Acc(t) \in dropped'
      BY Zenon, <2>1, <3>1
    <3> QED
      BY ZenonT(60), <3>1, <3>2, <3>3
  <2> QED
    BY Zenon, <2>3, <2>4
<1>4. ASSUME NEW t \in Everyone, OpenStep(t) PROVE Writes'
  BY ZenonT(60), <1>1, <1>4, OpenAside DEF Aside
<1>5. ASSUME NEW t \in Tasks, CreateStep(t) \/ CommandStep(t) \/ RequestStep(t) PROVE Writes'
  BY ZenonT(60), <1>1, <1>5, CreateAside, CommandAside, RequestAside DEF Aside
<1>6. ASSUME \/ \E t \in Tasks, j \in world.jobs : Start(t, j)
             \/ \E t \in Tasks : Abandon(t) \/ CrashCommand(t)
             \/ \E b \in Accounts : Reject(b)
             \/ \E d \in detached : DetachedWrite(d)
             \/ BootCore \/ CoreReady \/ CoreDies \/ OrphanGone \/ UNCHANGED vars
      PROVE  Writes'
  <2>1. dropped' = dropped /\ detached' \subseteq detached
    BY ZenonT(60), <1>6 DEF Start, Abandon, CrashCommand, Reject, DetachedWrite, BootCore, CoreReady, CoreDies, Die, OrphanGone,
                vars, history
  <2> QED
    BY Zenon, <1>1, <2>1
<1> QED
  BY <1>0, <1>2, <1>3, <1>4, <1>5, <1>6, ZenonT(60) DEF VaultStep, Next, TaskStep

\* A step of a task, or of the start of the core: the core is where it was, or nearer to serving.
LEMMA NextServes ==
    ASSUME TypeOK, Placed, Served, Next
    PROVE  /\ pc'[Core] = pc[Core] \/ (pc[Core] \in Booting /\ pc'[Core] \in Booting)
           /\ Served'
           /\ detached' # {} => detached # {} \/ pc[Core] = "up"
PROOF
<1>0. Core \notin Tasks /\ Tasks \subseteq Everyone /\ Core \in Everyone
  BY Zenon, VaultAssumption DEF Everyone
<1>1. ASSUME NEW t \in Tasks, NEW j \in world.jobs, Start(t, j)
      PROVE  pc'[Core] = pc[Core] /\ Served' /\ detached' = detached
  <2>1. /\ pc'[Core] = pc[Core] /\ detached' = detached
        /\ \A u \in Tasks \ {t} : pc'[u] = pc[u] /\ job'[u] = job[u]
        /\ job'[t] = j /\ (j.kind = "request" => pc[Core] = "up")
    BY ZenonT(60), <1>0, <1>1 DEF Start, MayStart, TypeOK
  <2>2. ASSUME NEW u \in Requests', Running(u)' PROVE pc[Core] = "up"
    <3>1. CASE u = t
      BY Zenon, <2>1, <2>2, <3>1 DEF Requests
    <3>2. CASE u # t
      BY ZenonT(60), <2>1, <2>2, <3>2 DEF Requests, Running, Served
    <3> QED
      BY Zenon, <3>1, <3>2
  <2> QED
    BY ZenonT(60), <2>1, <2>2 DEF Served
<1>2. ASSUME job' = job, pc'[Core] = pc[Core], \A u \in Tasks : pc'[u] = pc[u] \/ pc'[u] = "failed" \/ Running(u)
      PROVE  Served'
  BY Zenon, <1>2 DEF Served, Requests, Running
<1>3. ASSUME NEW t \in Tasks, TaskStep(t) PROVE pc'[Core] = pc[Core] /\ Served' /\ detached' = detached
  <2>1. /\ job' = job /\ detached' = detached /\ pc[t] \notin {"idle", "done", "failed"}
        /\ pc' = pc \/ \E p : pc' = [pc EXCEPT ![t] = p]
    <3>1. CASE OpenStep(t)
      BY ZenonT(60), <3>1 DEF OpenStep, OpenList, OpenStates, OpenRemoveState, OpenRemoveRouting, Opened, OpenState, OpenSidecar,
                  Move
    <3>2. CASE CreateStep(t)
      BY ZenonT(60), <3>2 DEF CreateStep, SignIn, ExchangeCode, Import, AddApiKey, CreateSidecar, CreateRecord,
         CreateOwner, UndoCreate, Move, Rest
    <3>3. CASE CommandStep(t)
      BY ZenonT(60), <3>3 DEF CommandStep, LockForMode, SetMode, ReadReceipt, LockForRevoke, Revoke, RemoveReceipt, RemoveRecord,
         RemoveOwner, RemoveRouting, RemoveSidecar, Move, Rest
    <3>4. CASE RequestStep(t)
      BY ZenonT(60), <3>4 DEF RequestStep, LockRecord, Refresh, Persist, Edit, Send, Learn, Translate, Resolved, Fail
    <3> QED
      BY ZenonT(60), <1>3, <3>1, <3>2, <3>3, <3>4 DEF TaskStep
  <2>2. pc'[Core] = pc[Core] /\ \A u \in Tasks \ {t} : pc'[u] = pc[u]
    BY ZenonT(60), <1>0, <2>1 DEF TypeOK
  <2>3. Running(t)
    BY Zenon, <2>1 DEF Running
  <2> QED
    BY ZenonT(60), <1>2, <2>1, <2>2, <2>3
<1>4. ASSUME NEW t \in Tasks, Drop(t) PROVE pc'[Core] = pc[Core] /\ Served' /\ pc[Core] = "up"
  <2>1. pc'[Core] = pc[Core] /\ job' = job /\ \A u \in Tasks : pc'[u] = pc[u] \/ pc'[u] = "failed"
    BY ZenonT(60), <1>0, <1>4 DEF Drop, TypeOK
  <2>2. pc[Core] = "up"
    BY ZenonT(60), <1>4 DEF Drop, Served
  <2> QED
    BY ZenonT(60), <1>2, <2>1, <2>2
<1>5. ASSUME NEW t \in Tasks, CrashCommand(t) PROVE pc'[Core] = pc[Core] /\ Served' /\ detached' = detached
  <2>1. /\ pc'[Core] = pc[Core] /\ job' = job /\ \A u \in Tasks : pc'[u] = pc[u] \/ pc'[u] = "failed"
        /\ detached' = detached
    BY ZenonT(60), <1>0, <1>5 DEF CrashCommand, Die
  <2> QED
    BY ZenonT(60), <1>2, <2>1
<1>6. CASE OpenStep(Core)
  <2>1. detached' = detached /\ job' = job /\ \A u \in Tasks : pc'[u] = pc[u]
    BY ZenonT(60), <1>0, <1>6, OpenAside DEF Aside
  <2>2. pc[Core] \in OpenPlaces
    BY ZenonT(60), <1>6 DEF OpenStep, OpenList, OpenStates, OpenRemoveState, OpenRemoveRouting, Opened, OpenState, OpenSidecar,
                Move, OpenPlaces
  <2>3. pc'[Core] \in Booting
    <3>1. CASE Opened(Core)
      BY <1>0, <3>1 DEF Opened, Move, Placed, NoJob, FirstStep, Booting, TypeOK
    <3>2. CASE ~Opened(Core)
      BY ZenonT(60), <1>0, <1>6, <2>2, <3>2
         DEF OpenStep, OpenList, OpenStates, OpenRemoveState, OpenRemoveRouting, OpenState, OpenSidecar, Move,
             OpenPlaces, Booting, TypeOK
    <3> QED
      BY Zenon, <3>1, <3>2
  <2>4. \A t \in Requests : ~Running(t)
    BY Zenon, <2>2 DEF Served, OpenPlaces
  <2> QED
    BY ZenonT(60), <2>1, <2>2, <2>3, <2>4 DEF Served, Requests, Running, Booting
<1>7. ASSUME \/ \E t \in Tasks : Abandon(t)
             \/ \E b \in Accounts : Reject(b)
             \/ \E d \in detached : DetachedWrite(d)
      PROVE  pc'[Core] = pc[Core] /\ Served' /\ (detached' # {} => detached # {})
  <2>1. UNCHANGED <<pc, job>> /\ detached' \subseteq detached
    BY ZenonT(60), <1>7 DEF Abandon, Reject, DetachedWrite
  <2> QED
    BY Zenon, <1>2, <2>1
<1> QED
  BY <1>1, <1>3, <1>4, <1>5, <1>6, <1>7, ZenonT(60) DEF Next
-----------------------------------------------------------------------------
(* The supervisor.                                                         *)

\* What the supervisor's steps make of the process.
LEMMA SupervisorStep ==
    ASSUME Supervised,
           \/ Sup!MonitorStep \/ Sup!ChildReady \/ Sup!ChildExits \/ Sup!CloseStep \/ Sup!Close
           \/ Sup!ParentCancel \/ Sup!CoordinatorKilled \/ Sup!OrphanExits \/ Sup!Restart
    PROVE  /\ Supervised'
           /\ \/ orphan' = orphan /\ child' = child
              \/ orphan' = orphan /\ child = "none" /\ child' = "booting"
              \/ orphan' = orphan /\ child = "booting" /\ child' = "ready"
              \/ orphan' = orphan /\ child' \in {"none", "exited"}
              \/ ~orphan /\ orphan' /\ child' = "none"
              \/ orphan /\ ~orphan' /\ child' = child
PROOF
<1> USE DEF Supervised
<1>1. CASE Sup!Spawn
  BY Zenon, <1>1 DEF Sup!Spawn, Sup!StartFailed
<1>2. CASE Sup!AwaitReadiness
  BY Zenon, <1>2 DEF Sup!AwaitReadiness, Sup!StartFailed
<1>3. CASE Sup!Publish
  BY <1>3, ZenonT(60) DEF Sup!Publish
<1>8. CASE Sup!Watch \/ Sup!Clear \/ Sup!Backoff
  BY Zenon, <1>8 DEF Sup!Watch, Sup!Clear, Sup!Backoff
<1>4. CASE Sup!ChildReady \/ Sup!ChildExits
  BY <1>4 DEF Sup!ChildReady, Sup!ChildExits, Sup!Alive
<1>5. CASE Sup!Close \/ Sup!CloseKill \/ Sup!CloseJoin
  BY <1>5 DEF Sup!Close, Sup!CloseKill, Sup!CloseJoin, Sup!Alive
<1>6. CASE Sup!ParentCancel \/ Sup!Restart
  BY <1>6 DEF Sup!ParentCancel, Sup!Restart
<1>9. CASE Sup!OrphanExits
  BY <1>9, ZenonT(60) DEF Sup!OrphanExits
<1>7. CASE Sup!CoordinatorKilled
  <2>1. /\ monitor' = "spawn" /\ started' = FALSE /\ child' = "none" /\ closer' = "idle"
        /\ ~orphan /\ (orphan' = TRUE \/ orphan' = FALSE)
    BY <1>7 DEF Sup!CoordinatorKilled, Sup!Alive
  <2> QED
    BY Zenon, <2>1
<1> QED
  BY ZenonT(60), <1>1, <1>2, <1>3, <1>4, <1>5, <1>6, <1>7, <1>8, <1>9 DEF Sup!MonitorStep, Sup!CloseStep

\* When the core dies or loses its coordinator no request of it runs on.
LEMMA NobodyServed ==
    ASSUME TypeOK, Placed, CoreDies \/ CoreOrphaned
    PROVE  pc'[Core] \in {pc[Core], "idle"} /\ (Running(Core) => pc'[Core] = "idle") /\ \A t \in Requests' : ~Running(t)'
PROOF
<1>1. job' = job /\ Core \in Everyone /\ Core \notin Tasks
  BY Zenon, VaultAssumption DEF CoreDies, Die, CoreOrphaned, Everyone
<1>2. \A t \in Requests : t \in Everyone /\ t # Core
  BY Zenon, RequestsHaveJobs
<1>3. \A t \in Requests : pc'[t] \in {"idle", "done", "failed"}
  BY Zenon, <1>2 DEF CoreDies, Die, CoreOrphaned, Running
<1>4. pc'[Core] \in {pc[Core], "idle"} /\ (Running(Core) => pc'[Core] = "idle")
  BY Zenon, <1>1 DEF CoreDies, Die, CoreOrphaned
<1> QED
  BY Zenon, <1>1, <1>3, <1>4 DEF Requests, Running

\* The core's tasks follow its process.
LEMMA CoreInStep ==
    ASSUME TypeOK, Placed, Supervised, InStep, Served, Owed, CoreFollows, Supervised',
           \/ orphan' = orphan /\ child' = child
           \/ orphan' = orphan /\ child = "none" /\ child' = "booting"
           \/ orphan' = orphan /\ child = "booting" /\ child' = "ready"
           \/ orphan' = orphan /\ child' \in {"none", "exited"}
           \/ ~orphan /\ orphan' /\ child' = "none"
           \/ orphan /\ ~orphan' /\ child' = child
    PROVE  VaultStep /\ InStep' /\ Served' /\ Owed'
PROOF
<1>0. /\ Core \in Everyone /\ pc[Core] \in {"idle", "up"} \cup Booting
      /\ "idle" \notin Booting /\ "up" \notin Booting
      /\ child \in {"none", "exited"} <=> pc[Core] = "idle"
  BY Zenon DEF Everyone, Placed, PlacesOf, CorePlaces, Booting, OpenPlaces, InStep, Supervised
<1>1. CASE ~orphan /\ orphan' /\ CoreOrphaned
  <2>1. pc'[Core] = "idle" /\ child' = "none"
    BY Zenon, <1>0, <1>1 DEF CoreOrphaned
  <2> QED
    BY Zenon, <1>0, <1>1, <2>1, NobodyServed DEF VaultStep, InStep, Served, Owed
<1>2. CASE orphan /\ ~orphan' /\ OrphanGone
  <2>1. UNCHANGED <<pc, job, child>> /\ detached' = {}
    BY Zenon, <1>2 DEF OrphanGone
  <2> QED
    BY Zenon, <1>2, <2>1 DEF VaultStep, InStep, Served, Owed, Requests, Running
<1>3. CASE orphan' = orphan /\ Sup!Alive /\ ~Sup!Alive' /\ CoreDies
  <2>1. Running(Core) /\ child' \in {"none", "exited"}
    BY Zenon, <1>0, <1>3 DEF Sup!Alive, Running, InStep, Supervised, Booting, OpenPlaces
  <2>2. pc'[Core] = "idle"
    BY Zenon, <1>3, <2>1, NobodyServed
  <2>3. pc[Core] = "up" => detached' = {}
    BY Zenon, <1>3 DEF CoreDies, Die
  <2>4. detached' \subseteq detached
    BY Zenon, <1>3 DEF CoreDies, Die
  <2> QED
    BY Zenon, <1>0, <1>3, <2>1, <2>2, <2>3, <2>4, NobodyServed DEF VaultStep, InStep, Served, Owed
<1>4. CASE orphan' = orphan /\ ~Sup!Alive /\ Sup!Alive' /\ BootCore
  <2>1. /\ child' = "booting" /\ pc' = [pc EXCEPT ![Core] = "open"] /\ UNCHANGED <<job, detached>>
        /\ pc[Core] = "idle"
    BY Zenon, <1>4 DEF Sup!Alive, BootCore, Move, Supervised
  <2>2. pc'[Core] = "open" /\ \A t \in Requests : pc'[t] = pc[t] /\ ~Running(t)
    BY Zenon, <1>0, <2>1, RequestsHaveJobs DEF TypeOK, Served
  <2> QED
    BY Zenon, <1>0, <1>4, <2>1, <2>2 DEF VaultStep, InStep, Served, Owed, Requests, Running, Booting, OpenPlaces
<1>5. CASE orphan' = orphan /\ child = "booting" /\ child' = "ready" /\ CoreReady
  <2>1. pc'[Core] = "up" /\ UNCHANGED <<job, detached>>
    BY Zenon, <1>0, <1>5 DEF CoreReady, Move, TypeOK
  <2> QED
    BY Zenon, <1>0, <1>5, <2>1 DEF VaultStep, InStep, Served, Owed
<1>6. CASE orphan' = orphan /\ (child' = child \/ ~(Sup!Alive \/ Sup!Alive')) /\ UNCHANGED vars
  <2>1. /\ UNCHANGED <<pc, job, detached>>
        /\ child' = child \/ (child \in {"none", "exited"} /\ child' \in {"none", "exited"})
    BY Zenon, <1>6 DEF vars, Sup!Alive, Supervised
  <2> QED
    BY Zenon, <1>0, <1>6, <2>1 DEF VaultStep, InStep, Served, Owed, Requests, Running
<1> QED
  BY Zenon, <1>1, <1>2, <1>3, <1>4, <1>5, <1>6 DEF CoreFollows

-----------------------------------------------------------------------------
(* The service.                                                             *)

LEMMA ServiceStart == ServiceInit => IInv
PROOF
<1>1. SUFFICES ASSUME ServiceInit PROVE IInv
  BY Zenon
<1>2. Core \in Everyone /\ Core \notin Tasks /\ Tasks \subseteq Everyone
  BY Zenon, VaultAssumption DEF Everyone
<1>3. world \in Worlds /\ world.up \in BOOLEAN /\ world.accounts \subseteq Accounts
  BY Zenon, <1>1, VaultAssumption DEF ServiceInit, Init
<1>4. /\ record \in [Accounts -> Tokens]
      /\ finger \in [Accounts -> [revision: Nat, mode: {"off", "device"}]]
      /\ issuer \in [Accounts -> [refresh: Nat, access: Nat, revoked: BOOLEAN]]
      /\ \A a \in Accounts : a \in world.accounts <=> Exists(a)
      /\ \A a \in Accounts : Exists(a) => HasFinger(a)
  BY <1>1 DEF ServiceInit, Init, NewRecord, NoRecord, NewFinger, NoFinger, Issued, Tokens, Exists, HasFinger
<1>5. /\ pc \in [Everyone -> AllPlaces]
      /\ pc[Core] = (IF world.up THEN "up" ELSE "idle") /\ \A t \in Tasks : pc[t] = "idle"
  BY Zenon, <1>1, <1>2 DEF ServiceInit, Init, AllPlaces, CorePlaces
<1>6. TypeOK
  <2>1. /\ draft \in [Tasks -> Tokens] /\ step \in [Tasks -> Nat] /\ token \in [Tasks -> Nat]
        /\ crashes \in Nat
    BY Zenon, <1>1 DEF ServiceInit, Init, NoRecord, Tokens
  <2>2. /\ receipt \in [Accounts -> {"none", "revoked", "service"}]
        /\ owners \in [Namespaces -> SUBSET Accounts] /\ routing \in [Namespaces -> BOOLEAN]
        /\ accountLock \in [Accounts -> Tasks \cup {None}]
        /\ stateLock \in [Namespaces -> Everyone \cup {None}]
        /\ job \in [Everyone -> Jobs \cup {NoJob}]
        /\ rejected \in [Accounts -> SUBSET Nat]
    BY Zenon, <1>1 DEF ServiceInit, Init
  <2>3. todo \in [Everyone -> SUBSET (Accounts \cup (Namespaces \X {"state", "routing"}))]
    BY Zenon, <1>1 DEF ServiceInit, Init
  <2>4. /\ rows \subseteq Tasks /\ detached \subseteq [account: Accounts, write: Tokens]
        /\ created \subseteq Accounts /\ removed \subseteq Accounts /\ dropped \subseteq Accounts
    BY Zenon, <1>1, <1>3 DEF ServiceInit, Init
  <2> QED
    BY <1>3, <1>4, <1>5, <2>1, <2>2, <2>3, <2>4, ZenonT(60) DEF TypeOK
<1>7. job[Core] = NoJob /\ \A t \in Everyone : job[t] = NoJob
  BY Zenon, <1>1, <1>2 DEF ServiceInit, Init
<1>8. Placed
  BY Zenon, <1>2, <1>5, <1>7 DEF Placed, PlacesOf, CorePlaces, Everyone
<1>9. \A t \in Tasks : Task(t)
  BY Zenon, <1>5 DEF Task, Holding, RemovePlaces
<1>10. Accounted
  <2>1. /\ created = world.accounts /\ removed = {} /\ dropped = {}
        /\ \A a \in Accounts : receipt[a] = "none" /\ owners[NamespaceOf[a]] = {}
    BY Zenon, <1>1, VaultAssumption DEF ServiceInit, Init
  <2> QED
    BY Zenon, <1>4, <2>1 DEF Accounted, Files, Known
<1>11. StateLocks
  <2>1. \A n \in Namespaces : stateLock[n] = None
    BY Zenon, <1>1 DEF ServiceInit, Init
  <2> QED
    BY Zenon, <2>1, VaultAssumption DEF StateLocks, StateLocked, Everyone
<1>12. Writes /\ Owed
  BY Zenon, <1>1 DEF ServiceInit, Init, Writes, Owed
<1>13. Supervised
  BY Zenon, <1>1, <1>3 DEF ServiceInit, Supervised
<1>14. InStep
  BY Zenon, <1>1, <1>3, <1>5 DEF ServiceInit, InStep, Booting, OpenPlaces
<1>15. Served
  BY Zenon, <1>5 DEF Served, Requests, Running
<1> QED
  BY Zenon, <1>6, <1>8, <1>9, <1>10, <1>11, <1>12, <1>13, <1>14, <1>15 DEF IInv

\* Every step of the service is one of the state directory, and leaves process and core in step.
LEMMA ServiceSteps ==
    ASSUME IInv, [ServiceNext]_all
    PROVE  VaultStep /\ Supervised' /\ InStep' /\ Served' /\ Owed'
PROOF
<1>0. TypeOK /\ Placed /\ Supervised /\ InStep /\ Served /\ Owed
  BY Zenon DEF IInv
<1>1. CASE Next /\ Use
  <2>1. UNCHANGED service
    BY Zenon, <1>1 DEF Use
  <2>2. Supervised' /\ child' = child /\ orphan' = orphan
    BY <1>0, <2>1, ZenonT(60) DEF Supervised, service
  <2>3. /\ pc'[Core] = pc[Core] \/ (pc[Core] \in Booting /\ pc'[Core] \in Booting)
        /\ Served'
        /\ detached' # {} => detached # {} \/ pc[Core] = "up"
    BY Zenon, <1>0, <1>1, NextServes
  <2>4. "up" \notin Booting
    BY Zenon DEF Booting, OpenPlaces
  <2>5. InStep'
    BY Zenon, <1>0, <2>2, <2>3, <2>4 DEF InStep
  <2>6. Owed'
    BY Zenon, <1>0, <2>2, <2>3, <2>4 DEF Owed
  <2> QED
    BY Zenon, <1>1, <2>2, <2>3, <2>5, <2>6 DEF VaultStep
<1>2. CASE Supervise \/ CoreGetsReady \/ CoreExits \/ ClosingStep \/ Disrupt \/ Recover
  <2>1. CoreFollows /\ (\/ Sup!MonitorStep \/ Sup!ChildReady \/ Sup!ChildExits \/ Sup!CloseStep \/ Sup!Close
                        \/ Sup!ParentCancel \/ Sup!CoordinatorKilled \/ Sup!OrphanExits \/ Sup!Restart)
    BY <1>2, ZenonT(60) DEF Supervise, CoreGetsReady, CoreExits, ClosingStep, Disrupt, Recover
  <2> QED
    BY <1>0, <2>1, SupervisorStep, CoreInStep, ZenonT(60)
<1>3. CASE UNCHANGED all
  <2>1. UNCHANGED vars /\ UNCHANGED service
    BY Zenon, <1>3 DEF all
  <2>2. Supervised'
    BY <1>0, <2>1, ZenonT(60) DEF Supervised, service
  <2>3. InStep' /\ Owed'
    BY Zenon, <1>0, <2>1 DEF InStep, Owed, vars, service
  <2>4. Served'
    BY Zenon, <1>0, <2>1 DEF Served, Requests, Running, vars
  <2> QED
    BY Zenon, <2>1, <2>2, <2>3, <2>4 DEF VaultStep
<1> QED
  BY Zenon, <1>1, <1>2, <1>3 DEF ServiceNext, Quiet

LEMMA ServicePreserves == IInv /\ [ServiceNext]_all => IInv'
PROOF
<1>1. SUFFICES ASSUME IInv, [ServiceNext]_all PROVE IInv'
  BY Zenon
<1>2. /\ TypeOK /\ Placed /\ (\A t \in Tasks : Task(t)) /\ Accounted /\ StateLocks /\ Writes
  BY Zenon, <1>1 DEF IInv
<1>3. VaultStep /\ Supervised' /\ InStep' /\ Served' /\ Owed'
  BY Zenon, <1>1, ServiceSteps
<1>4. TypeOK' /\ Placed'
  BY Zenon, <1>2, <1>3, VaultTypes
<1>5. Accounted' /\ \A t \in Tasks : Task(t)'
  BY Zenon, <1>2, <1>3, VaultAccounted
<1>6. StateLocks'
  BY Zenon, <1>2, <1>3, <1>4, StateLocksStay
<1>7. Writes'
  BY Zenon, <1>2, <1>3, WritesStay
<1> QED
  BY <1>3, <1>4, <1>5, <1>6, <1>7, ZenonT(60) DEF IInv

\* The inductive invariant: what each task knows of the account it has locked, what holds of an
\* account nobody has locked, who may hold a state's lock, and the agreement between the core's
\* process and its supervisor.
THEOREM Invariance == Spec => []IInv
PROOF
  BY ServiceStart, ServicePreserves, PTL DEF Spec

\* Whatever commands and requests run, and wherever they or the core are interrupted: a record
\* has its fingerprint, and the identity state lists the credentials that use it.
THEOREM WholeRecords == Spec => []RecordIsWhole
PROOF
<1>1. IInv => RecordIsWhole
  BY Zenon DEF IInv, TypeOK, Accounted, Files, Known, RecordIsWhole
<1> QED
  BY <1>1, Invariance, PTL

\* No request, retry or interrupted command brings back the record of a removal that returned,
\* and a receipt that says revoked tells the truth.
THEOREM RemovalIsFinal == Spec => []RemovedIsGone
PROOF
<1>1. IInv => RemovedIsGone
  BY Zenon DEF IInv, TypeOK, Accounted, Files, RemovedIsGone
<1> QED
  BY <1>1, Invariance, PTL

\* A second core never serves the state directory beside an orphan, and after Close nothing of
\* the closed core's is left to write.
THEOREM OneCoreServes == Spec => []OneCore
PROOF
<1>1. ASSUME IInv PROVE OneCore
  <2>1. Supervised /\ InStep /\ Served /\ Owed /\ Placed /\ Core \in Everyone
    BY Zenon, <1>1 DEF IInv, Everyone
  <2>2. ~(orphan /\ pc[Core] = "up")
    BY Zenon, <2>1 DEF Supervised, InStep
  <2>3. ASSUME closer = "closed" PROVE child = "none" /\ pc[Core] = "idle"
    <3>1. child = "none"
      BY Zenon, <2>1, <2>3 DEF Supervised
    <3> QED
      BY Zenon, <2>1, <3>1 DEF InStep, Placed, PlacesOf, CorePlaces, Booting
  <2> QED
    BY Zenon, <2>1, <2>2, <2>3 DEF OneCore, Sup!Alive, Served, Owed
<1> QED
  BY <1>1, Invariance, PTL

\* No cleanup and no removal of another owner takes the state of a credential that exists.
THEOREM StatesOutlive == Spec => StateOutlivesOwners
PROOF
<1>1. ASSUME IInv, [ServiceNext]_all
      PROVE  [\A n \in Namespaces : owners[n] # {} /\ owners'[n] = {}
                => \A a \in created \ dropped : NamespaceOf[a] = n => ~Exists(a)]_vars
  <2>1. TypeOK /\ Placed /\ StateLocks /\ VaultStep
    BY Zenon, <1>1, ServiceSteps DEF IInv
  <2> QED
    BY Zenon, <2>1, StateGoes DEF Unused
<1> QED
  BY <1>1, Invariance, PTL DEF Spec, StateOutlivesOwners

=============================================================================
