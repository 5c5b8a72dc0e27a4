------------------------------- MODULE Ledger -------------------------------
(***************************************************************************)
(* The coordinator's SQLite store under everybody who uses it: the serving *)
(* process with its restarts (cli/serve.go), its HTTP and WebSocket        *)
(* handlers, and the operator's CLI commands, which run in processes of    *)
(* their own (cli/credential.go, cli/credential_fingerprint.go).           *)
(*                                                                         *)
(* Every write is one immediate transaction (storage/store.go), so one     *)
(* action is one transaction; a credential mutation fence is a transaction *)
(* that lasts several steps and keeps every other writer out.              *)
(***************************************************************************)
EXTENDS Integers, FiniteSets

CONSTANTS
    Requests,
    Keys, Creds, \* downstream API keys, upstream credentials
    NoKey, NoCred,
    MaxDay,      \* the last day the clock reaches
    MaxCrashes,  \* how often the serving process dies
    Worlds       \* the scenarios; one is chosen at the start

\* busy: a write waits out its 5 s behind a fence.  timeouts: handlers outlast the
\* shutdown deadlines.  coreFails: a core credential command fails.  operator: keys
\* are revoked, credentials enabled, disabled or in need of a login.  mutation: the
\* removal and fingerprint commands.  prune: usage prune and the retention loop.
\* days: the clock goes on to the next day.
AllEvents == {"busy", "timeouts", "coreFails", "operator", "mutation", "prune", "days"}

ASSUME ConstantsAssumption ==
    /\ NoKey \notin Keys /\ NoCred \notin Creds
    /\ MaxDay \in Nat /\ MaxCrashes \in Nat
    /\ Worlds \subseteq [requests: SUBSET Requests, keys: SUBSET Keys, environment: SUBSET AllEvents]
    /\ IsFiniteSet(Requests)

VARIABLES
    world,                                 \* who takes part, and what may happen
    cred, key, keyCred,                    \* credentials, api_keys
    status, stored, rowKey, inference, day, \* requests; status outlives the stored row
    observed,                              \* requests: whether usage was recorded
    daily,                                 \* daily_usage
    account,                               \* external: the core's record of a credential
    server, live, routes, recovering,      \* the serving process
    oldOpen, leftover,                     \* a process that gave up its lock: store, handlers
    creating,                              \* CLI: core record written, metadata not yet
    cliPc, cliCred, cliKind,               \* CLI: a removal or a fingerprint change
    orphans,                               \* core removals whose CLI command was killed
    today, floor, crashes,                 \* clock; first day with all its aggregates
    lost                                   \* history: rows whose handler could not end them

creds == <<cred, key, keyCred>>
rows == <<status, stored, rowKey, inference, day, observed, daily, floor>>
process == <<server, live, routes, recovering, oldOpen, leftover, crashes, lost>>
cli == <<creating, cliPc, cliCred, cliKind, orphans>>

vars == <<world, creds, rows, account, process, cli, today>>

Environment == world.environment
Days == 0..MaxDay
Outcomes == {"completed", "upstream_error", "client_disconnected"}

NoUsage == [requests |-> 0, completed |-> 0, errors |-> 0, disconnected |-> 0, observed |-> 0]

Init ==
    /\ world \in Worlds
    /\ cred = [c \in Creds |-> "absent"] /\ account = [c \in Creds |-> "absent"]
    /\ key = [k \in Keys |-> "absent"] /\ keyCred = [k \in Keys |-> NoCred]
    /\ status = [r \in Requests |-> "absent"] /\ stored = {}
    /\ rowKey = [r \in Requests |-> NoKey] /\ inference = [r \in Requests |-> FALSE]
    /\ day = [r \in Requests |-> 0] /\ observed = [r \in Requests |-> FALSE]
    /\ daily = [d \in Days |-> [k \in Keys |-> NoUsage]]
    /\ server = "down" /\ live = {} /\ routes = {} /\ recovering = {}
    /\ oldOpen = FALSE /\ leftover = {} /\ lost = {}
    /\ creating = {} /\ cliPc = "idle" /\ cliCred = NoCred /\ cliKind = "remove"
    /\ orphans = {}
    /\ today = 0 /\ floor = 0 /\ crashes = 0

\* The write lock is free: no fence is held.
Unfenced == cliPc \notin {"mutate", "commit"}

InFlight(c) == {r \in Requests : status[r] = "in_progress" /\ keyCred[rowKey[r]] = c}
ActiveKeys(c) == {k \in Keys : key[k] = "active" /\ keyCred[k] = c}

\* The condition every route query shares.
Eligible(k) == key[k] = "active" /\ cred[keyCred[k]] = "enabled"

-----------------------------------------------------------------------------
(* Keys and credentials.                                                    *)

CreateAPIKey(k, c) ==
    /\ Unfenced /\ key[k] = "absent" /\ cred[c] = "enabled"
    /\ key' = [key EXCEPT ![k] = "active"] /\ keyCred' = [keyCred EXCEPT ![k] = c]
    /\ UNCHANGED <<cred, rows, account, process, cli, today>>

RevokeAPIKey(k) ==
    /\ Unfenced /\ key[k] = "active"
    /\ key' = [key EXCEPT ![k] = "revoked"]
    /\ UNCHANGED <<cred, keyCred, rows, account, process, cli, today>>

Undeleted(c) == cred[c] \notin {"absent", "deleted"}

SetCredentialEnabled(c, enabled) ==
    /\ Unfenced /\ Undeleted(c)
    /\ cred' = [cred EXCEPT ![c] = IF enabled THEN "enabled" ELSE "disabled"]
    /\ UNCHANGED <<key, keyCred, rows, account, process, cli, today>>

\* A handler whose core answered credential_requires_login, over HTTP or while
\* dialling a WebSocket; whatever status the operator has set meanwhile.
MarkCredentialRequiresLogin(c) ==
    /\ Unfenced /\ Undeleted(c)
    /\ \/ \E r \in live \cup leftover : keyCred[rowKey[r]] = c
       \/ \E k \in routes : keyCred[k] = c
    /\ cred' = [cred EXCEPT ![c] = "requires_login"]
    /\ UNCHANGED <<key, keyCred, rows, account, process, cli, today>>

\* credential login, import-codex and add-api-key have the core write its record.
CreateAccount(c) ==
    /\ account[c] = "absent" /\ account' = [account EXCEPT ![c] = "present"]
    /\ creating' = creating \cup {c}
    /\ UNCHANGED <<creds, rows, process, cliPc, cliCred, cliKind, orphans, today>>

\* persistCoreCredential stores the metadata; when that fails, or the command dies,
\* the record is removed again or stays behind.
PersistCoreCredential(c) ==
    /\ c \in creating /\ creating' = creating \ {c}
    /\ \/ Unfenced /\ cred' = [cred EXCEPT ![c] = "enabled"] /\ UNCHANGED account
       \/ UNCHANGED cred /\ \E left \in {"present", "removed"} : account' = [account EXCEPT ![c] = left]
    /\ UNCHANGED <<key, keyCred, rows, process, cliPc, cliCred, cliKind, orphans, today>>

-----------------------------------------------------------------------------
(* Requests.                                                                *)

\* Mutant: every row of a key adds to its aggregate, prewarms too.
CountedOrPrewarm(r, outcome, usage) ==
    [daily EXCEPT ![day[r]][rowKey[r]] =
       [requests |-> @.requests + 1,
        completed |-> @.completed + (IF outcome = "completed" THEN 1 ELSE 0),
        errors |-> @.errors + (IF outcome = "upstream_error" THEN 1 ELSE 0),
        disconnected |-> @.disconnected + (IF outcome = "client_disconnected" THEN 1 ELSE 0),
        observed |-> @.observed + (IF usage THEN 1 ELSE 0)]]

\* addDailyUsageTx: the aggregate of the day the request started on.
AddDailyUsage(r, outcome, usage) ==
    IF inference[r] THEN CountedOrPrewarm(r, outcome, usage) ELSE daily

\* Mutant: only the rows that are counted end once.
FinalizeUncountedAgain(r, outcome, usage) ==
    /\ IF status[r] = "in_progress" \/ ~inference[r]
       THEN /\ status' = [status EXCEPT ![r] = outcome]
            /\ observed' = [observed EXCEPT ![r] = usage]
            /\ daily' = AddDailyUsage(r, outcome, usage)
       ELSE UNCHANGED <<status, observed, daily>>
    /\ UNCHANGED <<stored, rowKey, inference, day, floor>>

\* FinalizeRequest in its transaction; ErrNotFound unless the row is in progress.
FinalizeRequest(r, outcome, usage) ==
    /\ IF status[r] = "in_progress"
       THEN /\ status' = [status EXCEPT ![r] = outcome]
            /\ observed' = [observed EXCEPT ![r] = usage]
            /\ daily' = AddDailyUsage(r, outcome, usage)
       ELSE UNCHANGED <<status, observed, daily>>
    /\ UNCHANGED <<stored, rowKey, inference, day, floor>>

InsertRow(r, k, isInference) ==
    /\ status[r] = "absent" /\ status' = [status EXCEPT ![r] = "in_progress"]
    /\ stored' = stored \cup {r} /\ rowKey' = [rowKey EXCEPT ![r] = k]
    /\ inference' = [inference EXCEPT ![r] = isInference] /\ day' = [day EXCEPT ![r] = today]
    /\ UNCHANGED <<observed, daily, floor>>

\* In the serving process, or in one that has given up its lock with its connections
\* still open.
AuthenticateAndStart(r, k) ==
    /\ Unfenced /\ Eligible(k) /\ InsertRow(r, k, TRUE)
    /\ \/ server = "serving" /\ live' = live \cup {r} /\ UNCHANGED leftover
       \/ oldOpen /\ leftover' = leftover \cup {r} /\ UNCHANGED live
    /\ UNCHANGED <<creds, account, server, routes, recovering, oldOpen, crashes, lost, cli, today>>

\* A read: it neither waits for the write lock nor keeps the route valid.
AuthenticateConnection(k) ==
    /\ server = "serving" /\ Eligible(k)
    /\ routes' = routes \cup {k}
    /\ UNCHANGED <<creds, rows, account, server, live, recovering, oldOpen, leftover, crashes, lost, cli, today>>

ConnectionEnds(k) ==
    /\ k \in routes /\ routes' = routes \ {k}
    /\ UNCHANGED <<creds, rows, account, server, live, recovering, oldOpen, leftover, crashes, lost, cli, today>>

\* Mutant: an authenticated connection starts operations without asking again.
StartWebSocketOperationOnRoute(r, k, isInference) ==
    /\ server = "serving" /\ k \in routes /\ Unfenced
    /\ InsertRow(r, k, isInference) /\ live' = live \cup {r}
    /\ UNCHANGED <<creds, account, server, routes, recovering, oldOpen, leftover, crashes, lost, cli, today>>

\* The connection's route is validated again, with the insert.
StartWebSocketOperation(r, k, isInference) ==
    /\ server = "serving" /\ k \in routes /\ Unfenced /\ Eligible(k)
    /\ InsertRow(r, k, isInference) /\ live' = live \cup {r}
    /\ UNCHANGED <<creds, account, server, routes, recovering, oldOpen, leftover, crashes, lost, cli, today>>

\* Handler.finish: the outcome is stored, or lost when the write lock stays taken
\* for its 5 s.
Finish(r, outcome, usage) ==
    /\ r \in live \cup leftover
    /\ live' = live \ {r} /\ leftover' = leftover \ {r}
    /\ \/ Unfenced /\ FinalizeRequest(r, outcome, usage)
       \/ "busy" \in Environment /\ ~Unfenced /\ UNCHANGED rows
    /\ lost' = IF Unfenced THEN lost ELSE lost \cup {r}
    /\ UNCHANGED <<creds, account, server, routes, recovering, oldOpen, crashes, cli, today>>

-----------------------------------------------------------------------------
(* The serving process.                                                     *)

\* Mutant: a starting server leaves the rows of its predecessor alone.
StartServerFresh ==
    /\ server = "down" /\ server' = "recovering"
    /\ recovering' = {}
    /\ UNCHANGED <<creds, rows, account, live, routes, oldOpen, leftover, crashes, lost, cli, today>>

\* runServe takes the service lock; RecoverInFlight lists the rows in progress ...
StartServer ==
    /\ server = "down" /\ server' = "recovering"
    /\ recovering' = {r \in Requests : status[r] = "in_progress"}
    /\ UNCHANGED <<creds, rows, account, live, routes, oldOpen, leftover, crashes, lost, cli, today>>

\* ... and finalizes them one by one; a row a leftover handler has finished first
\* makes it fail, and the server does not start.
RecoverInFlight(r) ==
    /\ server = "recovering" /\ r \in recovering /\ Unfenced
    /\ FinalizeRequest(r, "upstream_error", FALSE)
    /\ IF status[r] = "in_progress"
       THEN recovering' = recovering \ {r} /\ UNCHANGED server
       ELSE recovering' = {} /\ server' = "down"
    /\ UNCHANGED <<creds, account, live, routes, oldOpen, leftover, crashes, lost, cli, today>>

Prunable(r, cutoff) == r \in stored /\ day[r] < cutoff /\ status[r] # "in_progress"

\* PruneDetailsBefore: details go, aggregates stay (FinalizeRequest has counted
\* every ended row, so there is nothing left to aggregate first).
PruneRows(cutoff) ==
    /\ Unfenced
    /\ stored' = {r \in stored : ~Prunable(r, cutoff)}
    /\ UNCHANGED <<status, rowKey, inference, day, observed, daily, floor>>

\* Recovery done: details are pruned and the server serves.
BeginServing(cutoff) ==
    /\ server = "recovering" /\ recovering = {} /\ server' = "serving"
    /\ PruneRows(cutoff)
    /\ UNCHANGED <<creds, account, live, routes, recovering, oldOpen, leftover, crashes, lost, cli, today>>

\* retentionLoop, or usage prune.
PruneDetailsBefore(cutoff) ==
    /\ PruneRows(cutoff)
    /\ UNCHANGED <<creds, account, process, cli, today>>

\* usage prune --include-aggregates.
DeleteAggregatesBefore(cutoff) ==
    /\ Unfenced
    /\ daily' = [d \in Days |-> IF d < cutoff THEN [k \in Keys |-> NoUsage] ELSE daily[d]]
    /\ floor' = IF cutoff > floor THEN cutoff ELSE floor
    /\ UNCHANGED <<status, stored, rowKey, inference, day, observed>>
    /\ UNCHANGED <<creds, account, process, cli, today>>

\* An orderly exit releases the service lock before it closes the store: a handler
\* that outlasted the deadlines may still finish while a successor starts.
StopServer ==
    /\ server = "serving" /\ ~oldOpen /\ server' = "down"
    /\ \/ live = {} /\ UNCHANGED oldOpen
       \/ "timeouts" \in Environment /\ oldOpen' = TRUE
    /\ live' = {} /\ routes' = {} /\ leftover' = live
    /\ UNCHANGED <<creds, rows, account, recovering, crashes, lost, cli, today>>

\* The exiting process closes its store; its handlers can write nothing more.
CloseStore ==
    /\ oldOpen /\ oldOpen' = FALSE /\ leftover' = {} /\ lost' = lost \cup leftover
    /\ UNCHANGED <<creds, rows, account, server, live, routes, recovering, crashes, cli, today>>

\* The serving process dies, or its start fails.
Crash ==
    /\ server # "down" /\ crashes < MaxCrashes
    /\ server' = "down" /\ live' = {} /\ routes' = {} /\ recovering' = {}
    /\ crashes' = crashes + 1
    /\ UNCHANGED <<creds, rows, account, oldOpen, leftover, lost, cli, today>>

NextDay ==
    /\ "days" \in Environment /\ today < MaxDay /\ today' = today + 1
    /\ UNCHANGED <<creds, rows, account, process, cli>>

-----------------------------------------------------------------------------
(* credential revoke, credential remove and credential fingerprint --mode.  *)

Cli(here, next) ==
    /\ cliPc = here /\ cliPc' = next
    /\ UNCHANGED <<rows, process, today, creating, cliKind, orphans>>

\* The command ends, with an error or without.
CliEnds(here) ==
    /\ Cli(here, "idle") /\ cliCred' = NoCred /\ UNCHANGED <<creds, account>>

BeginRemove(c) ==
    /\ cliPc = "idle" /\ cred[c] # "absent" /\ ActiveKeys(c) = {}
    /\ cliPc' = "disable" /\ cliCred' = c /\ cliKind' = "remove"
    /\ UNCHANGED <<creds, rows, account, process, today, creating, orphans>>

BeginFingerprint(c) ==
    /\ cliPc = "idle" /\ cred[c] = "disabled"
    /\ cliPc' = "wait" /\ cliCred' = c /\ cliKind' = "fingerprint"
    /\ UNCHANGED <<creds, rows, account, process, today, creating, orphans>>

CliDisable ==
    \/ /\ Cli("disable", "recheck") /\ Undeleted(cliCred)
       /\ cred' = [cred EXCEPT ![cliCred] = "disabled"]
       /\ UNCHANGED <<key, keyCred, account, cliCred>>
    \/ CliEnds("disable") /\ cred[cliCred] = "deleted"

CliRequireNoActiveKeys ==
    \/ Cli("recheck", "wait") /\ ActiveKeys(cliCred) = {} /\ UNCHANGED <<creds, account, cliCred>>
    \/ CliEnds("recheck") /\ ActiveKeys(cliCred) # {}

\* waitForNoInFlight, or 30 s.
CliWait ==
    \/ Cli("wait", "fence") /\ InFlight(cliCred) = {} /\ UNCHANGED <<creds, account, cliCred>>
    \/ CliEnds("wait") /\ InFlight(cliCred) # {}

\* Mutant: the fence trusts the checks the command made before it.
FenceOpensOnDisabled == cred[cliCred] = "disabled"

\* credentialMutationTarget and, for a removal, the count of active keys.
FenceOpens ==
    /\ cred[cliCred] = "disabled" /\ InFlight(cliCred) = {}
    /\ cliKind = "remove" => ActiveKeys(cliCred) = {}

CliFence ==
    \/ Cli("fence", "mutate") /\ FenceOpens /\ UNCHANGED <<creds, account, cliCred>>
    \/ CliEnds("fence") /\ ~FenceOpens

\* External: the core command inside the fence.  A failed one may have removed the
\* record all the same; the transaction is rolled back.
CliMutate ==
    \/ /\ Cli("mutate", "commit") /\ UNCHANGED <<creds, cliCred>>
       /\ account' = [account EXCEPT ![cliCred] = IF cliKind = "remove" THEN "removed" ELSE @]
    \/ /\ "coreFails" \in Environment
       /\ Cli("mutate", "idle") /\ cliCred' = NoCred /\ UNCHANGED creds
       /\ \/ UNCHANGED account
          \/ cliKind = "remove" /\ account' = [account EXCEPT ![cliCred] = "removed"]

\* deleteCredentialMetadata, commit.
CliCommit ==
    /\ Cli("commit", "idle") /\ cliCred' = NoCred
    /\ cred' = [cred EXCEPT ![cliCred] = IF cliKind = "remove" THEN "deleted" ELSE @]
    /\ UNCHANGED <<key, keyCred, account>>

\* The command dies and an open transaction is rolled back.  Its core child dies with it when
\* the command was interrupted; when it was killed, the child goes on outside the fence.
CliDies ==
    /\ cliPc # "idle" /\ cliPc' = "idle" /\ cliCred' = NoCred
    /\ orphans' = orphans \cup {c \in {cliCred} : cliPc = "mutate" /\ cliKind = "remove"}
    /\ UNCHANGED <<creds, rows, account, process, today, creating, cliKind>>

\* Such a child removes the record, or fails.
OrphanEnds(c) ==
    /\ c \in orphans /\ orphans' = orphans \ {c}
    /\ account' \in {account, [account EXCEPT ![c] = "removed"]}
    /\ UNCHANGED <<creds, rows, process, today, creating, cliPc, cliCred, cliKind>>

CliStep ==
    \/ CliDisable \/ CliRequireNoActiveKeys \/ CliWait \/ CliFence \/ CliMutate \/ CliCommit
-----------------------------------------------------------------------------

Cutoffs == 0..(MaxDay + 1)

OperatorStep ==
    \/ \E c \in Creds : \/ CreateAccount(c) \/ PersistCoreCredential(c)
                        \/ \E k \in world.keys : CreateAPIKey(k, c)
    \/ /\ "operator" \in Environment
       /\ \/ \E k \in Keys : RevokeAPIKey(k)
          \/ \E c \in Creds, enabled \in BOOLEAN : SetCredentialEnabled(c, enabled)
    \/ /\ "mutation" \in Environment
       /\ \E c \in Creds : BeginRemove(c) \/ BeginFingerprint(c)
    \/ /\ "prune" \in Environment
       /\ \E cutoff \in Cutoffs : PruneDetailsBefore(cutoff) \/ DeleteAggregatesBefore(cutoff)
    \/ CliStep \/ CliDies \/ \E c \in Creds : OrphanEnds(c)

Finishes(r) == \E outcome \in Outcomes, usage \in BOOLEAN : Finish(r, outcome, usage)

HandlerStep ==
    \/ \E k \in Keys :
          \/ AuthenticateConnection(k) \/ ConnectionEnds(k)
          \/ \E r \in world.requests :
                \/ AuthenticateAndStart(r, k)
                \/ \E isInference \in BOOLEAN : StartWebSocketOperation(r, k, isInference)
    \/ \E r \in Requests : Finishes(r)
    \/ "operator" \in Environment /\ \E c \in Creds : MarkCredentialRequiresLogin(c)

BeginsServing == \E cutoff \in Cutoffs : BeginServing(cutoff)

ProcessStep ==
    \/ StartServer \/ (\E r \in Requests : RecoverInFlight(r)) \/ BeginsServing
    \/ StopServer \/ CloseStore \/ Crash

Next == (OperatorStep \/ HandlerStep \/ ProcessStep \/ NextDay) /\ UNCHANGED world

Spec == Init /\ [][Next]_vars

\* A handler finishes its request, a stopped server is started again and recovers,
\* and a CLI command runs to its end.  A writer that polls for the lock gets it when
\* fences, which operators set by hand, leave it free again and again.
Fairness ==
    /\ SF_vars((\E r \in Requests : Finishes(r)) /\ UNCHANGED world)
    /\ SF_vars((\E r \in Requests : RecoverInFlight(r)) /\ UNCHANGED world)
    /\ WF_vars(StartServer /\ UNCHANGED world) /\ SF_vars(BeginsServing /\ UNCHANGED world)
    /\ WF_vars(CliStep /\ UNCHANGED world)

FairSpec == Spec /\ Fairness
-----------------------------------------------------------------------------
(* Properties.                                                              *)

\* While a command and its core child work inside a fence, the credential stays disabled, no
\* request on it is in progress, and one that is being removed has no active key: admission,
\* enablement, key creation and late failure marks all stay out.
FenceHolds ==
    cliPc \in {"mutate", "commit"} =>
        /\ cred[cliCred] = "disabled" /\ InFlight(cliCred) = {}
        /\ cliKind = "remove" => ActiveKeys(cliCred) = {}

\* A credential the metadata calls deleted has no record left in the core, whatever failed
\* or died on the way, and no request in progress and no active key use it.
DeletedIsUnused ==
    \A c \in Creds :
        cred[c] = "deleted" => account[c] = "removed" /\ InFlight(c) = {} /\ ActiveKeys(c) = {}

\* The ended inferences of a key's day with an outcome.
Ended(d, k, outcomes) ==
    {r \in Requests : inference[r] /\ status[r] \in outcomes /\ rowKey[r] = k /\ day[r] = d}

\* The daily aggregates count every ended inference exactly once, on the day it
\* started, through crashes, recovery and pruning of the details; prewarms never.
DailyIsExact ==
    \A d \in Days, k \in Keys : d >= floor =>
        /\ daily[d][k].requests = Cardinality(Ended(d, k, Outcomes))
        /\ daily[d][k].completed = Cardinality(Ended(d, k, {"completed"}))
        /\ daily[d][k].errors = Cardinality(Ended(d, k, {"upstream_error"}))
        /\ daily[d][k].disconnected = Cardinality(Ended(d, k, {"client_disconnected"}))
        /\ daily[d][k].observed = Cardinality({r \in Ended(d, k, Outcomes) : observed[r]})

\* A request is recorded once, ends once and keeps its outcome.
History == INSTANCE RequestLedger WITH Requests <- Requests, status <- status
ImplementsHistory == History!Spec

\* Whoever starts a request, it ends: its handler ends it or a restart does, unless
\* the handler could not write to the store and the server just runs on.
EveryRequestEnds ==
    \A r \in Requests :
        status[r] = "in_progress" ~> status[r] # "in_progress" \/ r \in lost
=============================================================================
