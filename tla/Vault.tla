------------------------------- MODULE Vault -------------------------------
(***************************************************************************)
(* The core's state directory under everybody who uses it: requests that   *)
(* the running core serves, and credential commands, each a process of its *)
(* own (core/codex/src/vault*.rs, fingerprint.rs, oauth*.rs, cli.rs,       *)
(* server.rs, server_http.rs, request_state_store.rs).                     *)
(*                                                                         *)
(* Files are replaced by an atomic rename, so one action writes or removes *)
(* one file.  Account and state locks are file locks: a process that dies  *)
(* releases them.  A task is one request or one command.                   *)
(***************************************************************************)
EXTENDS Integers, FiniteSets

CONSTANTS
    Tasks,      \* requests and commands, numbered in the order they begin
    Core,       \* the start of the core itself, also a task
    Accounts,   \* account references
    Namespaces, \* request states, shared by credentials of one ChatGPT account
    NamespaceOf,
    KindOf,     \* how an account authenticates (see Materials)
    None,
    MaxIssued,  \* how many access tokens the issuer hands out for an account
    Worlds      \* alternatives: the accounts there are at first, whether the core is up, how
                \* many tasks begin and processes die, the jobs tasks may have, and what may
                \* happen to them

\* managed: OAuth with a refresh token.  imported: OAuth without one.
Materials == {"managed", "imported", "apikey"}
Kinds == {"create", "mode", "remove", "revoke", "request"}

\* io: a write fails.  expire: access tokens come close to their end.  reject: the
\* provider refuses a token.  network: the issuer does not answer.  abandon: the
\* coordinator gives a request up.  close: the coordinator stops or is killed.
Inputs == {"io", "expire", "reject", "network", "abandon", "close"}

ASSUME VaultAssumption ==
    /\ NamespaceOf \in [Accounts -> Namespaces] /\ KindOf \in [Accounts -> Materials]
    /\ Tasks \subseteq Nat /\ Core \notin Tasks /\ None \notin Tasks \cup {Core}
    /\ \A w \in Worlds : /\ w.accounts \subseteq Accounts /\ w.up \in BOOLEAN
                         /\ w.tasks \in Nat /\ w.crashes \in Nat /\ w.faults \in Nat
                         /\ w.inputs \subseteq Inputs /\ w.jobs \subseteq [kind: Kinds, account: Accounts]

VARIABLES
    world,
    record, finger, receipt,     \* files of an account
    owners, routing,             \* files of a namespace; without owners there is no state
    accountLock, stateLock,
    pc, job,                     \* where a task is; what it does to which account
    todo,                        \* Vault::open: sidecars or states it has yet to look at
    step, token, draft,          \* request: recovery step, token in use, record to be written
    rows,                        \* requests the coordinator still has in progress
    issuer, rejected,            \* the issuer's current tokens; tokens the provider refuses
    detached,                    \* writes of dropped requests that are still to happen
    crashes,
    created, removed,            \* history: accounts whose creation, removal returned
    dropped                      \* history: accounts whose tokens a dropped request was writing

files == <<record, finger, receipt, owners, routing>>
locks == <<accountLock, stateLock>>
locals == <<todo, step, token, draft>>
provider == <<issuer, rejected>>
history == <<created, removed, dropped>>
vars == <<world, files, locks, pc, job, locals, rows, provider, detached, crashes, history>>

Everyone == Tasks \cup {Core}
NoRecord == [status |-> "none", refresh |-> 0, access |-> 0]
NoFinger == [revision |-> 0, mode |-> "device"]
NewFinger == [revision |-> 1, mode |-> "device"]
NoJob == [kind |-> "none", account |-> None]

Issued == [refresh |-> 1, access |-> 1, revoked |-> FALSE]

NewRecord(a) ==
    [status |-> "ready", access |-> 1, refresh |-> IF KindOf[a] = "managed" THEN 1 ELSE 0]

Init ==
    /\ world \in Worlds
    /\ record = [a \in Accounts |-> IF a \in world.accounts THEN NewRecord(a) ELSE NoRecord]
    /\ finger = [a \in Accounts |-> IF a \in world.accounts THEN NewFinger ELSE NoFinger]
    /\ receipt = [a \in Accounts |-> "none"]
    /\ owners = [n \in Namespaces |-> {}] /\ routing = [n \in Namespaces |-> FALSE]
    /\ accountLock = [a \in Accounts |-> None] /\ stateLock = [n \in Namespaces |-> None]
    /\ pc = [t \in Everyone |-> IF t = Core /\ world.up THEN "up" ELSE "idle"]
    /\ job = [t \in Everyone |-> NoJob]
    /\ todo = [t \in Everyone |-> {}] /\ step = [t \in Tasks |-> 0]
    /\ token = [t \in Tasks |-> 0] /\ draft = [t \in Tasks |-> NoRecord]
    /\ rows = {}
    /\ issuer = [a \in Accounts |-> Issued] /\ rejected = [a \in Accounts |-> {}]
    /\ detached = {} /\ crashes = 0
    /\ created = world.accounts /\ removed = {} /\ dropped = {}

Acc(t) == job[t].account
Ns(t) == NamespaceOf[Acc(t)]
Exists(a) == record[a].status # "none"
HasFinger(a) == finger[a].revision > 0
Oauth(a) == KindOf[a] # "apikey"

\* owners_for_state_ref and active_state_refs: the credential records, read without locks.
Owners(n) == {a \in Accounts : Exists(a) /\ NamespaceOf[a] = n}

Move(t, here, next) == pc[t] = here /\ pc' = [pc EXCEPT ![t] = next]
Free(a) == accountLock[a] = None
Lock(a, t) == Free(a) /\ accountLock' = [accountLock EXCEPT ![a] = t]
Unlock(a) == accountLock' = [accountLock EXCEPT ![a] = None]
StateFree(n) == stateLock[n] = None
UnlockState(n) == stateLock' = [stateLock EXCEPT ![n] = None]

\* The task is over; the coordinator ends the row of a request.
Finished(t) == rows' = rows \ {t}

Running(t) == pc[t] \notin {"idle", "done", "failed"}
Requests == {t \in Tasks : job[t].kind = "request"}
-----------------------------------------------------------------------------
(* Starting.  Every command and the core itself open the vault first.       *)

\* RemoveCredentialWithMutationFence and WithCredentialMutationFence: the command runs
\* while the store has no request of the credential in progress, and keeps them out.
Fenced(a) ==
    /\ \A t \in rows : Acc(t) # a
    /\ \A t \in Tasks : Running(t) /\ Acc(t) = a => job[t].kind = "request"

\* The account reference of a new credential is a fresh UUID.
Fresh(a) == \A t \in Tasks : job[t].account # a

MayStart(t, j) ==
    \/ j.kind = "create" /\ Fresh(j.account)
    \/ /\ j.kind = "request" /\ pc[Core] = "up" /\ j.account \in created \ removed
       /\ \A u \in Tasks : Acc(u) = j.account /\ Running(u) => job[u].kind = "request"
    \/ /\ j.kind \in {"mode", "remove", "revoke"} /\ j.account \in created \ removed
       /\ Fenced(j.account)

Start(t, j) ==
    /\ pc[t] = "idle" /\ t <= world.tasks /\ \A u \in Tasks : u < t => pc[u] # "idle"
    /\ j \in world.jobs /\ MayStart(t, j)
    /\ pc' = [pc EXCEPT ![t] = IF j.kind = "request" THEN "lock" ELSE "open"]
    /\ job' = [job EXCEPT ![t] = j]
    /\ rows' = IF j.kind = "request" THEN rows \cup {t} ELSE rows
    /\ UNCHANGED <<world, files, locks, locals, provider, detached, crashes, history>>

\* cleanup_orphan_fingerprints: the directory is listed once ...
OpenList(t) ==
    /\ Move(t, "open", "sidecars")
    /\ todo' = [todo EXCEPT ![t] = {a \in Accounts : HasFinger(a)}]
    /\ UNCHANGED <<world, files, locks, job, step, token, draft, rows, provider, detached, crashes,
                   history>>

\* Mutant: the sidecar is removed without waiting for its creator.
OpenSidecarUnlocked(t, a) ==
    /\ pc[t] = "sidecars" /\ a \in todo[t]
    /\ todo' = [todo EXCEPT ![t] = @ \ {a}]
    /\ finger' = IF Exists(a) THEN finger ELSE [finger EXCEPT ![a] = NoFinger]
    /\ UNCHANGED <<world, record, receipt, owners, routing, locks, pc, job, step, token, draft, rows,
                   provider, detached, crashes, history>>

\* ... and a sidecar without a record goes, under the account's lock.
OpenSidecar(t, a) ==
    /\ pc[t] = "sidecars" /\ a \in todo[t] /\ Free(a)
    /\ todo' = [todo EXCEPT ![t] = @ \ {a}]
    /\ finger' = IF Exists(a) THEN finger ELSE [finger EXCEPT ![a] = NoFinger]
    /\ UNCHANGED <<world, record, receipt, owners, routing, locks, pc, job, step, token, draft, rows,
                   provider, detached, crashes, history>>

\* cleanup_orphan_request_states: candidates are the files of states no record owns now ...
OpenStates(t) ==
    /\ Move(t, "sidecars", "states") /\ todo[t] = {}
    /\ todo' = [todo EXCEPT ![t] = {n \in Namespaces : Owners(n) = {}} \X {"state", "routing"}]
    /\ UNCHANGED <<world, files, locks, job, step, token, draft, rows, provider, detached, crashes,
                   history>>

\* Mutant: what no record owned when the candidates were selected is removed.
StillUnownedStale(n) == TRUE

StillUnowned(n) == Owners(n) = {}

FileExists(e) == IF e[2] = "state" THEN owners[e[1]] # {} ELSE routing[e[1]]

\* ... looked at again under the state's lock.
OpenState(t, e) ==
    /\ pc[t] = "states" /\ e \in todo[t] /\ StateFree(e[1])
    /\ todo' = [todo EXCEPT ![t] = @ \ {e}]
    /\ IF FileExists(e) /\ StillUnowned(e[1])
       THEN /\ pc' = [pc EXCEPT ![t] = IF e[2] = "state" THEN "sweep" ELSE "sweepRouting"]
            /\ stateLock' = [stateLock EXCEPT ![e[1]] = t]
       ELSE UNCHANGED <<pc, stateLock>>
    /\ UNCHANGED <<world, files, accountLock, job, step, token, draft, rows, provider, detached,
                   crashes, history>>

Swept(t, n) == stateLock[n] = t

OpenRemoveState(t) ==
    /\ Move(t, "sweep", "sweepRouting")
    /\ owners' = [n \in Namespaces |-> IF Swept(t, n) THEN {} ELSE owners[n]]
    /\ UNCHANGED <<world, record, finger, receipt, routing, locks, job, locals, rows, provider,
                   detached, crashes, history>>

OpenRemoveRouting(t) ==
    /\ Move(t, "sweepRouting", "states")
    /\ routing' = [n \in Namespaces |-> routing[n] /\ ~Swept(t, n)]
    /\ stateLock' = [n \in Namespaces |-> IF Swept(t, n) THEN None ELSE stateLock[n]]
    /\ UNCHANGED <<world, record, finger, receipt, owners, accountLock, job, locals, rows, provider,
                   detached, crashes, history>>

\* The vault is open.
FirstStep == [create |-> "authorize", mode |-> "lock", remove |-> "remove", revoke |-> "receipt",
              none |-> "instance"]

Opened(t) ==
    /\ Move(t, "states", FirstStep[job[t].kind]) /\ todo[t] = {}
    /\ UNCHANGED <<world, files, locks, job, locals, rows, provider, detached, crashes, history>>

OpenStep(t) ==
    \/ OpenList(t) \/ OpenStates(t) \/ OpenRemoveState(t) \/ OpenRemoveRouting(t) \/ Opened(t)
    \/ \E a \in todo[t] : OpenSidecar(t, a)
    \/ \E e \in todo[t] : OpenState(t, e)
-----------------------------------------------------------------------------
(* create_record and what leads to it.                                      *)

Rest == <<world, receipt, routing, job, locals, rows, provider, detached, crashes>>

\* The user signs in before the time is over, or does not: the device flow polls, the browser
\* flow takes one callback.
SignIn(t) ==
    /\ pc[t] = "authorize" /\ KindOf[Acc(t)] = "managed"
    /\ Move(t, "authorize", "exchange") \/ ("network" \in world.inputs /\ Move(t, "authorize", "failed"))
    /\ UNCHANGED <<files, locks, Rest, history>>

ExchangeCode(t) ==
    /\ Move(t, "exchange", "create") \/ ("network" \in world.inputs /\ Move(t, "exchange", "failed"))
    /\ UNCHANGED <<files, locks, Rest, history>>

\* import takes the tokens of another login, without its refresh token.
Import(t) ==
    /\ pc[t] = "authorize" /\ KindOf[Acc(t)] = "imported"
    /\ Move(t, "authorize", "create") \/ ("io" \in world.inputs /\ Move(t, "authorize", "failed"))
    /\ UNCHANGED <<files, locks, Rest, history>>

\* The secret was read before the directory was opened.
AddApiKey(t) ==
    /\ pc[t] = "authorize" /\ KindOf[Acc(t)] = "apikey" /\ Move(t, "authorize", "create")
    /\ UNCHANGED <<files, locks, Rest, history>>

\* Collisions of a fresh reference with existing files end the command.
CreateSidecar(t) ==
    LET a == Acc(t) IN
    /\ Move(t, "create", "record") /\ Lock(a, t)
    /\ ~Exists(a) /\ ~HasFinger(a) /\ receipt[a] = "none"
    /\ finger' = [finger EXCEPT ![a] = NewFinger]
    /\ UNCHANGED <<record, owners, stateLock, Rest, history>>

CreateRecord(t) ==
    LET a == Acc(t) IN
    /\ \/ Move(t, "record", "owner") /\ record' = [record EXCEPT ![a] = NewRecord(a)]
       \/ "io" \in world.inputs /\ Move(t, "record", "undo") /\ UNCHANGED record
    /\ UNCHANGED <<finger, owners, locks, Rest, history>>

\* register_owner_if_exists.
Registered(n, a) == IF owners[n] = {} THEN {} ELSE owners[n] \cup {a}

CreateOwner(t) ==
    LET a == Acc(t) IN
    /\ pc[t] = "owner" /\ StateFree(Ns(t))
    /\ \/ /\ Move(t, "owner", "done") /\ Unlock(a)
          /\ owners' = [owners EXCEPT ![Ns(t)] = Registered(Ns(t), a)]
          /\ created' = created \cup {a} /\ UNCHANGED record
       \/ /\ "io" \in world.inputs /\ Move(t, "owner", "undo")
          /\ record' = [record EXCEPT ![a] = NoRecord]
          /\ UNCHANGED <<owners, created, accountLock>>
    /\ UNCHANGED <<finger, stateLock, removed, dropped, Rest>>

UndoCreate(t) ==
    /\ Move(t, "undo", "failed") /\ Unlock(Acc(t))
    /\ finger' = [finger EXCEPT ![Acc(t)] = NoFinger]
    /\ UNCHANGED <<record, owners, stateLock, Rest, history>>

CreateStep(t) ==
    \/ SignIn(t) \/ ExchangeCode(t) \/ Import(t) \/ AddApiKey(t)
    \/ CreateSidecar(t) \/ CreateRecord(t) \/ CreateOwner(t) \/ UndoCreate(t)
-----------------------------------------------------------------------------
(* fingerprint, remove and revoke.                                          *)

\* Vault::lock_record for a command: the sidecar of a removed account goes, a missing
\* one is made.
LockedFinger(a) ==
    IF Exists(a) THEN IF HasFinger(a) THEN finger[a] ELSE NewFinger
    ELSE IF receipt[a] # "none" THEN NoFinger ELSE finger[a]

LockForMode(t) ==
    LET a == Acc(t) IN
    /\ pc[t] = "lock" /\ job[t].kind = "mode" /\ Move(t, "lock", IF Exists(a) THEN "mode" ELSE "failed")
    /\ IF Exists(a) THEN Lock(a, t) ELSE Free(a) /\ UNCHANGED accountLock
    /\ finger' = [finger EXCEPT ![a] = LockedFinger(a)]
    /\ UNCHANGED <<record, owners, stateLock, Rest, history>>

\* update_mode.
SetMode(t) ==
    LET a == Acc(t) IN
    /\ Move(t, "mode", "done") /\ Unlock(a)
    /\ \E mode \in {"off", "device"} :
         finger' = IF finger[a].mode = mode THEN finger
                   ELSE [finger EXCEPT ![a] = [revision |-> @.revision + 1, mode |-> mode]]
    /\ UNCHANGED <<record, owners, stateLock, Rest, history>>

\* removal_receipt: a revocation that already has its receipt is finished, one of the
\* service side is refused.
ReadReceipt(t) ==
    LET a == Acc(t) IN
    /\ pc[t] = "receipt" /\ Free(a)
    /\ Move(t, "receipt", IF receipt[a] = "none" THEN "revoke"
                          ELSE IF receipt[a] = "revoked" THEN "remove" ELSE "failed")
    /\ finger' = IF receipt[a] # "none" /\ ~Exists(a) THEN [finger EXCEPT ![a] = NoFinger] ELSE finger
    /\ UNCHANGED <<record, owners, locks, Rest, history>>

LockForRevoke(t) ==
    LET a == Acc(t) IN
    /\ Move(t, "revoke", IF Exists(a) /\ Oauth(a) THEN "revoking"
                         ELSE IF ~Exists(a) /\ receipt[a] = "revoked" THEN "remove" ELSE "failed")
    /\ IF Exists(a) /\ Oauth(a) THEN Lock(a, t) ELSE Free(a) /\ UNCHANGED accountLock
    /\ finger' = [finger EXCEPT ![a] = LockedFinger(a)]
    /\ UNCHANGED <<record, owners, stateLock, Rest, history>>

\* Mutant: a revocation without an answer is taken for one.
RevokeUnconfirmed(t) ==
    /\ Move(t, "revoking", "remove")
    /\ \E heard \in BOOLEAN : issuer' = [issuer EXCEPT ![Acc(t)].revoked = @ \/ heard]
    /\ UNCHANGED <<world, files, accountLock, stateLock, job, locals, rows, rejected, detached, crashes,
                   history>>

\* oauth::revoke: without an answer the issuer may or may not have heard.
Revoke(t) ==
    /\ \/ /\ Move(t, "revoking", "remove")
          /\ issuer' = [issuer EXCEPT ![Acc(t)].revoked = TRUE] /\ UNCHANGED accountLock
       \/ /\ "network" \in world.inputs /\ Move(t, "revoking", "failed") /\ Unlock(Acc(t))
          /\ \E heard \in BOOLEAN : issuer' = [issuer EXCEPT ![Acc(t)].revoked = @ \/ heard]
    /\ UNCHANGED <<world, files, stateLock, job, locals, rows, rejected, detached, crashes, history>>

\* complete_removal_locked writes the receipt first ...
RemovalKind(t) == IF job[t].kind = "revoke" THEN "revoked" ELSE "service"

RemoveReceipt(t) ==
    LET a == Acc(t)
        refused == receipt[a] = "service" /\ RemovalKind(t) = "revoked"
    IN
    /\ Move(t, "remove", IF refused THEN "failed" ELSE "unlink")
    /\ accountLock[a] \in {None, t}
    /\ accountLock' = [accountLock EXCEPT ![a] = IF refused THEN None ELSE t]
    /\ receipt' = IF receipt[a] = "none" THEN [receipt EXCEPT ![a] = RemovalKind(t)] ELSE receipt
    /\ UNCHANGED <<world, record, finger, owners, routing, stateLock, job, locals, rows, provider,
                   detached, crashes, history>>

\* ... then remove_credential_owner, under the state's lock, the record ...
RemoveRecord(t) ==
    /\ Move(t, "unlink", "disown") /\ StateFree(Ns(t))
    /\ stateLock' = [stateLock EXCEPT ![Ns(t)] = t]
    /\ record' = [record EXCEPT ![Acc(t)] = NoRecord]
    /\ UNCHANGED <<finger, owners, accountLock, Rest, history>>

\* Mutant: the state goes with whichever owner is removed.
LastOwnerAny(n) == TRUE

LastOwner(n) == Owners(n) = {}

\* ... and the state with its last owner; other owners keep it.
RemoveOwner(t) ==
    LET n == Ns(t) IN
    /\ \/ /\ Move(t, "disown", "unroute") /\ LastOwner(n)
          /\ owners' = [owners EXCEPT ![n] = {}] /\ UNCHANGED stateLock
       \/ /\ Move(t, "disown", "sidecar") /\ ~LastOwner(n) /\ UnlockState(n)
          /\ owners' = [owners EXCEPT ![n] = IF @ = {} THEN {} ELSE Owners(n)]
    /\ UNCHANGED <<record, finger, accountLock, Rest, history>>

RemoveRouting(t) ==
    /\ Move(t, "unroute", "sidecar") /\ UnlockState(Ns(t))
    /\ routing' = [routing EXCEPT ![Ns(t)] = FALSE]
    /\ UNCHANGED <<world, record, finger, receipt, owners, accountLock, job, locals, rows, provider,
                   detached, crashes, history>>

RemoveSidecar(t) ==
    /\ Move(t, "sidecar", "done") /\ Unlock(Acc(t))
    /\ finger' = [finger EXCEPT ![Acc(t)] = NoFinger]
    /\ removed' = removed \cup {Acc(t)}
    /\ UNCHANGED <<record, owners, stateLock, Rest, created, dropped>>

CommandStep(t) ==
    \/ LockForMode(t) \/ SetMode(t)
    \/ ReadReceipt(t) \/ LockForRevoke(t) \/ Revoke(t)
    \/ RemoveReceipt(t) \/ RemoveRecord(t) \/ RemoveOwner(t) \/ RemoveRouting(t) \/ RemoveSidecar(t)
-----------------------------------------------------------------------------
(* A request: resolve_auth, then the identity state, the provider, the      *)
(* recovery from a refused token, and the response.                         *)

\* resolve_auth_inner: at first a token close to its end is replaced; a reload replaces
\* that of an imported credential only; the last attempt replaces the token that failed.
\* MaxIssued bounds how often a token comes to its end.
RefreshNeeded(t) ==
    LET r == record[Acc(t)] IN
    CASE step[t] = 2 -> {r.access = token[t]}
      [] KindOf[Acc(t)] = "apikey" \/ (step[t] = 1 /\ r.refresh > 0) -> {FALSE}
      [] OTHER -> {FALSE} \cup ({"expire" \in world.inputs /\ r.access < MaxIssued})

Resolved(t, access) ==
    /\ token' = [token EXCEPT ![t] = access]
    /\ pc' = [pc EXCEPT ![t] = IF step[t] = 0 /\ Oauth(Acc(t)) THEN "edit" ELSE "send"]

Fail(t) == pc' = [pc EXCEPT ![t] = "failed"] /\ Finished(t)
Parked(r) == [r EXCEPT !.status = "login"]

\* LockedRecord lives on in refresh_if_needed.
Hold(a, t) == Lock(a, t)

LockRecord(t) ==
    LET a == Acc(t) IN
    /\ pc[t] = "lock" /\ job[t].kind = "request" /\ Free(a)
    /\ finger' = [finger EXCEPT ![a] = LockedFinger(a)]
    /\ \/ /\ record[a].status # "ready" /\ Fail(t)
          /\ UNCHANGED <<accountLock, token, draft>>
       \/ /\ record[a].status = "ready" /\ FALSE \in RefreshNeeded(t)
          /\ Resolved(t, record[a].access)
          /\ UNCHANGED <<accountLock, draft, rows>>
       \/ /\ record[a].status = "ready" /\ TRUE \in RefreshNeeded(t)
          /\ Hold(a, t)
          /\ pc' = [pc EXCEPT ![t] = IF record[a].refresh > 0 THEN "refresh" ELSE "persist"]
          /\ draft' = [draft EXCEPT ![t] = Parked(record[a])]
          /\ UNCHANGED <<token, rows>>
    /\ UNCHANGED <<world, record, receipt, owners, routing, stateLock, job, todo, step, provider,
                   detached, crashes, history>>

\* The issuer takes a refresh token once when it rotates it.
Accepts(a, used) == used = issuer[a].refresh /\ ~issuer[a].revoked

Issue(a, used, rotated) ==
    /\ Accepts(a, used) /\ issuer[a].access < MaxIssued
    /\ issuer' = [issuer EXCEPT ![a].access = @ + 1, ![a].refresh = IF rotated THEN @ + 1 ELSE @]

\* refresh_if_needed.  The account stays locked from reading the old tokens to writing the
\* new ones; draft is the record as it was read, parked unless the issuer says otherwise.
Refresh(t) ==
    LET a == Acc(t) IN
    /\ pc[t] = "refresh"
    /\ \/ \E rotated \in BOOLEAN :
            /\ Issue(a, draft[t].refresh, rotated)
            /\ pc' = [pc EXCEPT ![t] = "persist"]
            /\ draft' = [draft EXCEPT ![t] = [status |-> "ready", refresh |-> issuer'[a].refresh,
                                              access |-> issuer'[a].access]]
            /\ UNCHANGED <<accountLock, rows>>
       \/ /\ ~Accepts(a, draft[t].refresh)
          /\ pc' = [pc EXCEPT ![t] = "persist"]
          /\ UNCHANGED <<draft, accountLock, rows, issuer>>
       \/ /\ "network" \in world.inputs \/ issuer[a].access = MaxIssued
          /\ Fail(t) /\ Unlock(a)
          /\ UNCHANGED issuer \/ \E rotated \in BOOLEAN : Issue(a, draft[t].refresh, rotated)
          /\ UNCHANGED draft
    /\ UNCHANGED <<world, files, stateLock, job, todo, step, token, rejected, detached, crashes,
                   created, removed, dropped>>

Persist(t) ==
    LET a == Acc(t) IN
    /\ pc[t] = "persist" /\ Unlock(a)
    /\ \/ /\ record' = [record EXCEPT ![a] = draft[t]]
          /\ IF draft[t].status = "ready" THEN Resolved(t, draft[t].access) /\ UNCHANGED rows
             ELSE Fail(t) /\ UNCHANGED token
       \/ /\ "io" \in world.inputs
          /\ Fail(t) /\ UNCHANGED <<record, token>>
    /\ UNCHANGED <<world, finger, receipt, owners, routing, stateLock, job, todo, step, draft,
                   provider, detached, crashes, created, removed, dropped>>

\* edit_under_lock: a state that is not there is made, with the owners found.
Edited(n, a) ==
    [owners EXCEPT ![n] = (IF @ = {} THEN Owners(n) ELSE @) \cup {a}]

\* prepare_stateful_codex_request.
Edit(t) ==
    /\ pc[t] = "edit" /\ StateFree(Ns(t))
    /\ \/ /\ owners' = Edited(Ns(t), Acc(t)) /\ pc' = [pc EXCEPT ![t] = "send"] /\ UNCHANGED rows
       \/ "io" \in world.inputs /\ Fail(t) /\ UNCHANGED owners
    /\ UNCHANGED <<world, record, finger, receipt, routing, locks, job, locals, provider, detached,
                   crashes, history>>

\* send_upstream and the recovery: reload, then refresh, then give up.
Send(t) ==
    LET refused == token[t] \in rejected[Acc(t)] IN
    /\ pc[t] = "send"
    /\ \/ /\ refused /\ Oauth(Acc(t)) /\ step[t] < 2
          /\ step' = [step EXCEPT ![t] = @ + 1] /\ pc' = [pc EXCEPT ![t] = "lock"]
          /\ UNCHANGED rows
       \/ (refused /\ (~Oauth(Acc(t)) \/ step[t] = 2)) /\ Fail(t) /\ UNCHANGED step
       \/ "network" \in world.inputs /\ Fail(t) /\ UNCHANGED step
       \/ /\ ~refused /\ Oauth(Acc(t)) /\ UNCHANGED <<rows, step>>
          /\ \E next \in {"learn", "translate"} : pc' = [pc EXCEPT ![t] = next]
       \/ /\ ~refused /\ ~Oauth(Acc(t)) /\ UNCHANGED step
          /\ pc' = [pc EXCEPT ![t] = "done"] /\ Finished(t)
    /\ UNCHANGED <<world, files, locks, job, todo, token, draft, provider, detached, crashes, history>>

\* learn_turn_state: the provider's routing token, if it sent one.
Learn(t) ==
    /\ pc[t] = "learn" /\ StateFree(Ns(t))
    /\ IF owners[Ns(t)] = {} THEN Fail(t) /\ UNCHANGED routing
       ELSE /\ routing' = [routing EXCEPT ![Ns(t)] = TRUE]
            /\ pc' = [pc EXCEPT ![t] = "translate"] /\ UNCHANGED rows
    /\ UNCHANGED <<world, record, finger, receipt, owners, locks, job, locals, provider, detached,
                   crashes, history>>

\* The response's identities are put into the state as it passes.
Translate(t) ==
    /\ pc[t] = "translate" /\ StateFree(Ns(t)) /\ Finished(t)
    /\ owners' = Edited(Ns(t), Acc(t)) /\ pc' = [pc EXCEPT ![t] = "done"]
    /\ UNCHANGED <<world, record, finger, receipt, routing, locks, job, locals, provider, detached,
                   crashes, history>>

RequestStep(t) ==
    \/ LockRecord(t) \/ Refresh(t) \/ Persist(t) \/ Edit(t) \/ Send(t) \/ Learn(t) \/ Translate(t)
-----------------------------------------------------------------------------
(* The core's own start, and what befalls tasks.                            *)

BootCore ==
    /\ Move(Core, "idle", "open")
    /\ UNCHANGED <<world, files, locks, job, locals, rows, provider, detached, crashes, history>>

\* acquire_instance_lock, bind, write_readiness.
CoreReady ==
    /\ Move(Core, "instance", "up")
    /\ UNCHANGED <<world, files, locks, job, locals, rows, provider, detached, crashes, history>>

\* The provider stops taking the token it issued last; MaxIssued leaves it one to take.
Reject(a) ==
    /\ "reject" \in world.inputs /\ issuer[a].access \notin rejected[a]
    /\ issuer[a].access < MaxIssued
    /\ rejected' = [rejected EXCEPT ![a] = @ \cup {issuer[a].access}]
    /\ UNCHANGED <<world, files, locks, pc, job, locals, rows, issuer, detached, crashes, history>>

\* The coordinator ends the request's row; the core has not noticed yet.
Abandon(t) ==
    /\ "abandon" \in world.inputs /\ t \in rows
    /\ rows' = rows \ {t}
    /\ UNCHANGED <<world, files, locks, pc, job, locals, provider, detached, crashes, history>>

\* Locks of open files go with their process.
Released(who, held) == [x \in DOMAIN held |-> IF held[x] \in who THEN None ELSE held[x]]

\* The core drops the handler at its await: the account is unlocked, a write that was
\* handed to a blocking thread goes on.
Drop(t) ==
    LET a == Acc(t) IN
    /\ t \in Requests \ rows /\ Running(t)
    /\ pc' = [pc EXCEPT ![t] = "failed"]
    /\ accountLock' = Released({t}, accountLock)
    /\ IF pc[t] = "persist"
       THEN /\ detached' = detached \cup {[account |-> a, write |-> draft[t]]}
            /\ dropped' = dropped \cup {a}
       ELSE UNCHANGED <<detached, dropped>>
    /\ \/ UNCHANGED issuer
       \/ pc[t] = "refresh" /\ \E rotated \in BOOLEAN : Issue(a, draft[t].refresh, rotated)
    /\ UNCHANGED <<world, files, stateLock, job, locals, rows, rejected, crashes, created, removed>>

DetachedWrite(d) ==
    /\ d \in detached /\ detached' = detached \ {d}
    /\ record' = [record EXCEPT ![d.account] = d.write]
    /\ UNCHANGED <<world, finger, receipt, owners, routing, locks, pc, job, locals, rows, provider,
                   crashes, history>>

\* A process dies and with it its tasks; the files stay as they are.
Die(who) ==
    /\ pc' = [t \in Everyone |-> IF t \notin who \/ ~Running(t) THEN pc[t]
                                 ELSE IF t = Core THEN "idle" ELSE "failed"]
    /\ accountLock' = Released(who, accountLock) /\ stateLock' = Released(who, stateLock)
    /\ rows' = rows \ who
    /\ detached' = IF Core \in who /\ pc[Core] = "up" THEN {} ELSE detached
    /\ todo' = [t \in Everyone |-> IF t \in who THEN {} ELSE todo[t]]
    /\ UNCHANGED <<world, files, job, step, token, draft, provider, created, removed, dropped>>

CrashCommand(t) ==
    /\ crashes < world.crashes /\ crashes' = crashes + 1
    /\ t \notin Requests /\ Running(t) /\ Die({t})

\* The core dies, or it loses its coordinator: every handler is dropped.
CoreDies == Die({Core} \cup Requests) /\ UNCHANGED crashes

CoreOrphaned ==
    LET writing == {t \in Requests : pc[t] = "persist"} IN
    /\ pc' = [t \in Everyone |-> IF t = Core THEN "idle"
                                 ELSE IF t \in Requests /\ Running(t) THEN "failed" ELSE pc[t]]
    /\ accountLock' = Released({Core} \cup Requests, accountLock)
    /\ stateLock' = Released({Core} \cup Requests, stateLock)
    /\ rows' = {} /\ todo' = [todo EXCEPT ![Core] = {}]
    /\ detached' = detached \cup {[account |-> Acc(t), write |-> draft[t]] : t \in writing}
    /\ dropped' = dropped \cup {Acc(t) : t \in writing}
    /\ UNCHANGED <<world, files, job, step, token, draft, provider, crashes, created, removed>>

\* What a core without a coordinator was still writing goes with it.
OrphanGone ==
    /\ detached' = {}
    /\ UNCHANGED <<world, files, locks, pc, job, locals, rows, provider, crashes, history>>

TaskStep(t) == OpenStep(t) \/ CreateStep(t) \/ CommandStep(t) \/ RequestStep(t)

\* Everything but the core process, which its supervisor starts and ends.
Next ==
    \/ \E t \in Tasks, j \in world.jobs : Start(t, j)
    \/ \E t \in Tasks : TaskStep(t) \/ Abandon(t) \/ Drop(t) \/ CrashCommand(t)
    \/ OpenStep(Core)
    \/ \E a \in Accounts : Reject(a)
    \/ \E d \in detached : DetachedWrite(d)
-----------------------------------------------------------------------------
\* A record is never without its fingerprint, through crashes and concurrent cleanups: the
\* sidecar is written before the record and removed after it.  And the identity state that is
\* there lists every credential that uses it, whichever of the two came first.  Only a write of
\* a dropped request can bring a record back alone.
RecordIsWhole ==
    /\ \A a \in Accounts \ dropped : Exists(a) => HasFinger(a)
    /\ \A a \in created \ dropped :
           Exists(a) /\ owners[NamespaceOf[a]] # {} => a \in owners[NamespaceOf[a]]

\* A removal that returned is final: no request, retry or crash brings the record back.  Its
\* receipt says that the issuer revoked only if it did.
RemovedIsGone ==
    /\ \A a \in removed \ dropped : ~Exists(a) /\ receipt[a] # "none"
    /\ \A a \in Accounts : receipt[a] = "revoked" => issuer[a].revoked

\* The state of a credential that is in use is never swept away, by the removal of another
\* owner or by a cleanup that looked before the owner was there.
StateOutlivesOwners ==
    [][\A n \in Namespaces : owners[n] # {} /\ owners'[n] = {}
         => \A a \in created \ dropped : NamespaceOf[a] = n => ~Exists(a)]_vars
=============================================================================
