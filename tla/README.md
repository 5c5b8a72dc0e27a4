# Verification of mini-sub2api

TLA+ specifications of the gateway, model-checked with TLC. Most of the safety properties are also
proved with TLAPS for every value of the constants.
Paths below are relative to the repository (`src/coordinator/...`, `src/core/codex/src/...`,
`src/protocol/v1/...`); `PROJECT.json` maps every definition to its lines.

## 1. The system

mini-sub2api is two processes. The **coordinator** (Go) authenticates API keys, keeps the SQLite
store, accounts for every request, and relays HTTP and WebSocket traffic. It starts and supervises
the **core** (Rust), which holds the provider credentials, keeps the per-subscription conversation
state, and talks to the provider. They speak a private HTTP/WebSocket protocol on a local socket.
Credential commands of both run as processes of their own on the same files.

| Component | State | Operations | Interacts with |
|---|---|---|---|
| Public WebSocket session | active and failed operation, stream generation, retirement, exit cause, deadlines channel | client pump, core pump, run loop with timers, `stop` | store (rows), core socket, manager |
| WebSocket manager and server | slots per key and role, registered sessions, closing, drained | acquire, register, unregister, release, shutdown, serve | sessions, store |
| Store | credentials, keys, request rows, daily aggregates, fences, retention floor | admit, start operation, finalize, recover, prune, mutate credential | handlers, CLI processes, core commands |
| HTTP streaming | copy loop, usage observer, guard goroutine (timers, reason) | forward, inspect, stream, stop | core response, client, store |
| Core supervisor | child process, readiness, back-off | start, monitor, restart, close | core process |
| Credential vault and OAuth | records, fingerprints, removal receipts, owners, tokens | create, remove, revoke, refresh, clean up | core commands, requests, issuer |
| Subscription context store | sessions, records, operations, reservations, routing tokens, budgets | plan, admit, commit, observe, complete, fail, evict | relay, HTTP pipeline, identity ledger |
| Identity ledger | conversations, threads, turns, items, compaction markers, wire pairs | resolve, admit, publish, prune, validate | request preparation, responses, context store |
| Core WebSocket relay | upstream socket, deferred connection, hidden setup, delivery, failure tail | open, recover authentication, two relay halves, close | context store, continuation, vault, provider |
| Continuation state | baseline, planned and active operation, phases | plan, commit, observe, fail, abandon | relay |
| Output tracking | pending, finished, discarded items | start, finish, discard, final output | relay, HTTP responses, context store |
| Core HTTP responses | SSE reader with deadlines, translation state, aggregated events | read, frame, translate, aggregate, fail, release | provider, coordinator, context store |

What is hard in it, and what therefore shapes the models:

* three goroutines per public WebSocket session share one operation slot, two locks and two channels;
  any of them may be the one that finishes an operation. In the core, two halves of a relay share the
  continuation state, and every await of one is a place where the other runs;
* delivery metadata ("is it safe to retry?") is computed at one moment and sent at another;
* shutdown races with handshakes, and the store must outlive the last handler that uses it;
* credential mutations span two processes and two stores, either of which can fail or die halfway;
* a restart recovers rows while the previous process may still be finishing them;
* a stream's timers race with the bytes that would extend them;
* byte budgets are charged in advance, moved between owners, and given back on every path out;
* the identity ledger is pruned by the edits of other requests while contexts in memory still rest on it.

`PROJECT.json` lists these as hazards, each at its line, with the properties that watch it.

## 2. Modules

| Module | Models | Kind |
|---|---|---|
| `WebSocketSession` | `httpapi/websocket_session.go`, `websocket_core_pump.go`, `websocket_failure_tail.go`, `websocket_delivery.go`, `websocket_protocol.go`, `websocket_interrupt.go` | component |
| `WebSocketSessionProofs` | theorems about it | proofs |
| `Server` | `httpapi/websocket_manager.go`, `websocket_handler.go`, `handler.go`, `listener.go`, `cli/serve.go` | composition of handlers, manager, shutdown path and store lifetime |
| `ServerProofs` | theorems about it | proofs |
| `RequestLedger` | the promise of the store: a request is recorded once, ends once, keeps its outcome | abstract specification |
| `Ledger` | `storage/*.go`, `cli/credential*.go`, `cli/core_command.go`, `cli/serve.go` | component; refines `RequestLedger` |
| `LedgerProofs` | theorems about it, the refinement included | proofs |
| `HttpStream` | `httpapi/stream.go`, `http_stream_timeout.go`, `handler.go`, `errors.go`, `usage/observer.go` | component |
| `HttpStreamProofs` | theorems about it | proofs |
| `Supervisor` | `adapter/supervisor.go` | component |
| `Vault` | `vault*.rs`, `fingerprint.rs`, `oauth*.rs`, `cli.rs`, `server.rs`, `server_http.rs`, the ownership in `request_state_store.rs` | component |
| `VaultProofs` | lemmas about one state directory: who changes which file, and what each task has done so far | proofs |
| `CoreService` | `Supervisor` decides when the core of `Vault` runs | composition |
| `CoreServiceProofs` | theorems about it, on the lemmas of `VaultProofs` | proofs |
| `ContextStore` | `subscription_context*.rs`, `subscription_*.rs`, the SSE failure reservation | component |
| `ContextStoreProofs` | theorems about it | proofs |
| `IdentityLedger` | `request_state_editor*.rs`, `request_state_prune*.rs`, `request_state_validation.rs`, `subscription_aliases.rs` | operators |
| `IdentityResolution` | `request_state_resolution*.rs`, `subscription_turn.rs`, `subscription_history_import.rs`, `subscription_lineage.rs` | operators |
| `IdentityState` | `request_normalizer.rs`, `request_state_transaction.rs`, `request_state_response.rs`, `response_wire_ids.rs`, `response_id_cache.rs`, `response_state_stamp.rs` | component over the two |
| `OutputLifecycle` | `response_output_lifecycle.rs`, `response_output.rs`, `response_interrupt.rs` | operators |
| `ResponseOperation` | `subscription_events.rs`, `response_failure_tail.rs`: what an operation accepts and keeps of its response's events | operators |
| `Continuation` | `responses_websocket_state.rs` and its parts | operators |
| `Relay` | `responses_websocket_deferred.rs`, `responses_websocket_prewarm.rs`, `responses_websocket_relay.rs` and their parts | composition of relay, continuation and output tracking |
| `ResponseStream` | `response_stream.rs`, `response_sse_reader.rs`, `response_sse_translation.rs`, `response_aggregation.rs`, `response_failure.rs` | component |
| `ResponseStreamProofs` | theorems about it | proofs |
| `CoreResponses` | a behaviour of `Relay` or one of `ResponseStream`: the core's two carriers of a response | composition |
| `MC*` | instances for TLC | |

Most models have a constant `Worlds`: a set of scenarios, one of which is chosen in `Init` and kept in
the variable `world`. A scenario says who takes part, what may happen around the component and how
often. It only ever restricts the environment, never a step of the code, so one run covers several
small environments that would be too large together.

### WebSocketSession

Variables are the fields of `websocketSession` plus the goroutines' program counters and locals;
one action per critical section or blocking call. `Client*` actions are `clientPump`, `Core*` are
`corePump`, `Run*` are `run`/`finishSession`. A mutex-protected section is one action; everything
between two sections can be interleaved with the other goroutines. Frames are abstracted to their
type, response id and the flags the code reads. Cancellation, failing reads and writes, a failing
store, `stop()` and the core's close codes are environment actions, switched by the constant
`Faults`. `rows`, `finishes`, `forwarded`, `delivered` are history: what the store and the two peers
have seen.

### Server

Each connection walks through the stages of `ServeHTTP`, `serveHTTPResponses` or `serveWebSocket`;
the manager's counters, session set, `closing` and `drained` are the fields of `websocketManager`.
Two callers run `shutdown`: the `OnShutdown` callback and `runServe`'s final call. The deferred
`store.Close` follows. The environment may let shutdown deadlines pass or the listener fail.

### Ledger

Every transaction of the store is one action; a CLI command that spans transactions is a process
with a program counter (`cliPc`), because other processes can run between its steps. A mutation
fence is the immediate transaction held while the core command runs: no other action writes to the
store meanwhile, except the ones that time out (`busy`). A crash loses the process's in-memory
requests (`live`) and keeps the rows. `leftover` are handlers of a process that gave up its service
lock before they ended; its store stays open (`oldOpen`) and they may still write. `lost` are rows
whose outcome could not be written within the five seconds `finish` allows. A command that is killed
gives up its fence at once, while its core child goes on: the removal it was doing moves to `orphans`
and ends in a step of its own (`OrphanEnds`).

### HttpStream

One response: the handler, the observer it feeds, and the guard goroutine. Time passes in ticks
while nothing of the guard is overdue; the guard's time stamps are ages capped at their timeout, so
that a stream of any length has finitely many states. An event arrives whole or in pieces (head, a
part of the data, the data without its blank line, all); the bytes of one `Read` never span two
events, which only makes the guard see them one by one. Error envelopes are inspected under a guard
of their own, as in `serveHTTPResponses`.

### Vault, Supervisor, CoreService

A task of `Vault` is one request of the running core or one credential command, a process of its own.
Files are replaced by an atomic rename, so one action writes or removes one file, and a process may
die between any two. File locks go with the process that held them. The issuer and the provider are
external: the issuer rotates refresh tokens and answers, or the answer is lost; the provider refuses
tokens. A request the coordinator gave up may leave a detached write behind (`detached`).
`Supervisor` has the monitor goroutine, `Close`, and a coordinator that is killed while its core lives
on. `CoreService` runs both: a core that exits takes its tasks with it, a core that starts opens the
vault, and a request is forwarded only while a core is current.

### ContextStore

An operation is planned, admitted inside the identity transaction, committed, observed and ended; its
lease may be dropped at any point. Every method holds the store's mutex and is one action, except
`make_room`: a loop that evicts until a reservation fits, one step an iteration (`room`), with no
other method in between. Sizes are small numbers for the kinds of charge the code distinguishes; the
budgets are set so that they are reached. A response id is its operation: ids are fresh, and a
response that changes its id fails its operation.

### IdentityLedger, IdentityResolution, IdentityState

The ledger of one API key's scope is a record of seven maps, as `ScopeState`. An edit is a pure
function of the ledger on disk: `Editor` carries the ledger, the protected keys, the result of the last
call and whether a check failed, and `Then` is the `?` operator. An edit runs under the account's file
lock from the read to the atomic rename, so that it is one action of `IdentityState`; between edits,
requests, responses, days and other requests interleave. After the edit, `Prune` evicts to the caps;
ties among oldest entries are a choice. Then the whole result is validated, and a refusal leaves the
file as it was. Lookup keys are the tuples the code takes the HMAC of.

### OutputLifecycle, ResponseOperation, Continuation, Relay

`OutputLifecycle`, `ResponseOperation` and `Continuation` are the states of their Rust types as records,
with one operator per method. `Relay` is one socket from its first message: the opening reads the first create, connects,
recovers from a 401, may warm the connection with a hidden setup; then the two halves run side by
side, with a step between any two awaits. The upstream answers creates it received on the connection
that is open; the coordinator waits for the end of one create before the next unless the scenario is
`eager`.

### ResponseStream

One HTTP response of the core. `reader` is `SseReader` (its three deadlines as ages, the received and
not yet framed events, the event that has only begun), `trans` is `TranslationState`, `bytes` is what
aggregation makes of the events so far, `lease` is the operation in the context store: whether it was
observed as completed, and whether the store kept it (`published`) or had to forget it, because an item
is missing, out of order or too much, or because a compaction is not the one item it should be. A read brings up
to `chunk` events and may end within one. `said` and `after` are history: the kinds of frame the
coordinator was sent, and which came after which. The two carriers share `ResponseOperation`, so that
`CarriersAgree` compares what the code does with the same events in each, up to what the store keeps,
in every scenario without faults, deadlines or a size limit that is reached. They differ in two things,
which the property leaves out: an empty data line is a comment to a stream and an error to aggregation,
and an error that follows a completed response passes on a stream and fails an aggregation.

## 3. Runs

Sizes are distinct states.

| Run | Shows | States |
|---|---|---|
| `session` | two creates with every failure event, a client that leaves, failing writes and core closes: each operation is finished once and before `run` returns, usage is booked on its own response, completed means delivered, and the advice in the close frame is honest while no malformed frame ends a pump | 1.8 M |
| `session_liveness` | a session that a pump has left, that is stopped or that is retired returns | 226 k |
| `session_stale_advice` | violation, see findings | |
| `server` | slots never leak, a reported drain is final, the store outlives its users after a graceful shutdown, shutdown completes | 81 k |
| `ledger` | through a crash, an overlapping restart, pruning and an operator's commands: aggregates stay exact, fences keep admission out, deleted credentials are unused, every request ends, and the store refines `RequestLedger` | 135 k |
| `http_stream` | completed is recorded only for a whole, unfailed stream; the guard never sleeps past a deadline it should know; a response ends or makes progress | 503 k |
| `context` | charges are exact and budgets hold, operations never share a lane, a prewarm's token reaches one turn, nothing of a session at work is evicted, nothing is left when all is idle | 194 k |
| `core_service` | records keep their sidecars and owners, removals are final, identity state outlives its owners, one core serves at a time and comes back | 110 k |
| `identity` | at the ledger's limits: no prune makes an edit invalid, responses can be published, what contexts rest on stays, the ID cache never answers what the ledger no longer has | 156 k |
| `identity_eviction` | violation, see findings | |
| `relay` | the advice of a close is honest, terminal events end the create they are of, an incremental create omits only what its base holds, a completed response is whole, a retired stream takes no create and closes. An HTTP response ends once and as the upstream ended it, the store keeps only what was told as completed, a stream and an aggregation judge the same events alike, and a response ends though the upstream only sends signs of life | 205 k |
| `relay_footer` | violation, see findings | |

**Bounds.** Two requests suffice for the session: an operation, and one that could displace it or be
mistaken for it; the code keeps at most one active and one failed operation. Three core frames cover
error, footer and a stray event; two response ids cover "own" and "other". The deadlines channel has
its real capacity reduced to 1 or 2, so that it does fill. The server needs two connections per key at
a limit of two to fill a key; two keys show that one does not affect the other. The ledger needs two
requests for two rows on one aggregate, two days for the day a request started against the day it
ended, one crash for a recovery. In `HttpStream` two ticks are enough for a timer that was set before
and one that was set after an event; `Tail` is shorter than `Idle`, as in the code.

The context store has three operations: one that is retained, one at work and one that needs room, in
budgets that hold two of them. A prewarm and two turns of one socket are what a token can be given to,
or given to wrongly. `core_service` has up to three tasks on one account (a holder of the lock, one
that waits, one that comes when the first is done), one death and two exits of the core; three access
tokens allow two rotations. The identity scenarios admit up to three requests, since an eviction needs
what is evicted, what evicts it and what rested on it; each sets the cap of one kind of entry so that
the third does not fit. `Relay` has up to four client messages and five upstream events per scenario:
an output needs items that begin, finish and reappear; a race of interrupts needs a create, its
interrupt, the next create and a late interrupt. `ResponseStream` has timeouts of two (idle), three
(output) and one tick (tail), so that signs of life can keep the first from passing and not the second;
an upstream sends up to five events, enough for an item that begins, finishes and reappears, or any
number of them, up to two in a read, with cuts within an event; aggregation then stops at its size limit.
A compaction gets its item once, twice or not at all, and a response its id or none, which is where the
store keeps a response and where it does not; a blank data line and an event without a type have scenarios
of their own.

Symmetry is used in runs without liveness properties only (`session`, `context`, `identity`); their
action properties treat the permuted values alike.

**Fairness.** Weak fairness of each goroutine's or task's own steps: runnable goroutines and futures are
scheduled. Calls that wait for the peer are fair only where the code bounds them (a write has a
deadline; a read of a closed or cancelled body returns). Nothing is assumed of the client or of what the
upstream sends. `HttpStream` adds strong fairness of the `select` case for a cancelled context, since
`select` picks among ready cases at random, and of time, which goes on however much the core sends.
`Ledger` needs strong fairness of finishing, recovery and the start of serving because crashes (bounded)
and held fences interrupt them, and fairness of `CliStep`: the core command inside a fence has no
deadline of its own, so that it returns is an assumption on the core. `CoreService` assumes that a core
that may have the instance lock gets ready unless it dies. Nothing is assumed of a core whose coordinator
was killed: it exits only when it is interrupted, and until then `Start` fails. `Relay` assumes that a
handshake is answered or fails, which its timeout ensures, that each half is polled, that the failure
tail's deadline passes, and that the coordinator drains its socket: a send to a coordinator that reads no
more has no deadline in the core. `ResponseStream` assumes that its body
is polled and that time passes, and nothing of the upstream.

**Deadlock** is checked in `session`, `session_liveness`, `server`, `ledger`, `http_stream` and
`core_service`. The other models simply end: a socket that is closed, or requests that are used up.

## 4. Findings

* `session_stale_advice`: `upstreamPumpResult` computes the delivery metadata when the core pump
  leaves; the client pump may forward another create before the close frame is sent with it, which
  `src/protocol/v1/README.md` (417-419) excludes.
* `identity_eviction`: a parent turn that was not seen is placed in the session's root thread, even if
  its root turn is a child thread's. Evicting that child removes the root turn and leaves the other,
  the validation refuses the edit, and so every later edit that must evict the same entry.
  `src/protocol/v1/README.md` (198): "Ancestor eviction protects descendants or removes the entire
  descendant graph."
* `relay_footer`: a hidden setup that ends with a statusless error leaves its connection in use; the
  `response.failed` that follows such an error is then taken for the end of the client's first create.
  `docs/CODEX_COMPATIBILITY.md` (184-187) excludes the attribution of an old footer to another
  operation. The `relay` run leaves the late footer out (`trailing`).

Smaller things met while modelling: `corePump` asks
`interruptedActive` and `observeServerEvent` asks again in a later critical section, which matters only
if the provider reports an interrupt nobody asked for; compaction markers and item aliases of a live
operation are not among the keys that `protect_aliases` keeps until the item is done, so that at the cap
of markers the completion of a running compaction can be refused, though `src/protocol/v1/README.md` (197)
has live dependencies protected (`ResponsesArePublished` is about owners, not markers); the write of a
request the coordinator gave up can bring back a record that was removed meanwhile; the core child of a
killed command removes a credential outside any fence, and the credential may be enabled again before
that.

## 5. Proofs

Assumptions on constants are the named assumption of each module; TLC evaluates them in every run.

**WebSocketSessionProofs** (for any set of requests, response ids and frames, any channel capacity,
all faults). The inductive invariant is
`TypeOK /\ Ownership /\ ControlInv /\ TailInv /\ UsageInv`. `AccountedOnce` is not inductive: it
follows from *Ownership*, that a started, unfinished operation is in exactly one of four places
(active, the failure tail, the hands of the core pump, the hands of the run loop) and a finished one in
none. Ownership needs to know where the program counters may be while an operation is in hand
(*ControlInv*, which also says what the final sweep of `finishSession` has established when
`run` returns), and that a failed operation is alone on a retired stream (*TailInv*). *UsageInv*
follows an event from its classification to the operation it is booked on. `CompletedWasDelivered` rests
on *DeliveryInv* besides: while the core pump handles an event no turn can begin under it, because the
active operation is the forwarded one that the event was read for, or is gone for good (the stream is
retired or cancelled); and on *EndingInv*, that the run loop never ends an operation as completed. It
assumes that the core sends no stray response events (`"strayEvents" \notin Faults`, as in the run
that checks it): an event that arrives between `beginOperation` and the write of the create would be taken
for the new turn's. Theorems: `TypeCorrect`, `RetirementTheorem`, `Inductive`, `Accounted`,
`TailIsolated`, `UsageTheorem`, `Delivered`.

**ServerProofs** (any set of keys, any finite set of connections, any limit). The invariant is
`TypeOK /\ SlotsMatchHolders /\ HandlerInv /\ ShutdownInv`: the counters are the cardinalities of the
sets of holders, a handler in a holding stage knows its key, and the shutdown path has passed its
stages in order. Acquire and release change one holder set by one element, which the finite-set
theorems turn into arithmetic. Theorems: `TypeCorrect`, `Inductive`, `SlotsTheorem`, `GuardianTheorem`,
`DrainTheorem`, `StoreTheorem`.

**LedgerProofs** (any finite set of requests, any keys, credentials, days and crashes). A step of the
store changes either the rows or the credentials and keys (`StepShape`), so each half of the invariant is
kept by its own steps. `FenceHolds` and `DeletedIsUnused` need each other, and that a removal commits
only after the core's record is gone. A removal that lost its command has no fence; all that is
known of its credential is that it exists, which is enough. `DailyIsExact` is a count: finalizing adds one row to one set of
ended requests, and the finite-set theorems make that one more. The refinement maps `status` to itself.
Theorems: `Inductive`, `FenceTheorem`, `DeletedTheorem`, `HistoryTheorem` (`ImplementsHistory`),
`DailyTheorem`.

**HttpStreamProofs** (any timeouts, events and cuts of them into reads). `GuardIsCurrent` is inductive
with the type invariant, which bounds every age by its timeout: a tick brings the deadline that counts
exactly one tick nearer, and so does the timer. `CompletedIsWhole` needs that a failure which was read is
known to the observer, as its terminal or in its buffer with all its data (`FailureIsSeen`), and that the
guard was joined before the outcome is chosen. Theorems: `Invariance`, `Completed`, `WakeIsNeverLost`,
`NoWatcherLeaks`.

**ResponseStreamProofs** (any requests, events, timeouts, limits and cuts). `OneHonestEnd` is about the
order of what was sent; the invariant ties that history to the translation state (`GoingOn`, `Ended`):
an end that is owed is `footer` and `pending` together, and the operation lives until the first end. What
the store keeps is decided in the same step as that end, and nothing takes it back.
The operators of `OutputLifecycle` stay closed: the argument needs only which events are ends. Theorems:
`Invariance`, `HonestEnd`.

**VaultProofs, CoreServiceProofs** (any accounts, namespaces, tasks, scenarios, deaths and restarts).
`VaultProofs` shows that the files of an account are changed only by the task that has it locked
(`Aside`, `TaskStays`), and what such a task has established at each of its steps (`Task`), whence what
the files of every account are, locked or not (`Files`, `Known`). A cleanup that has a state locked saw
nobody use it, and nobody can start to while it is locked (`StateLocks`). `CoreServiceProofs` adds the
supervisor's stages and that the core's process is where the supervisor believes it is (`InStep`), so
that a step of the service is one of the state directory. Looking for this invariant showed two things
the model had wrong: a core without a coordinator that exits takes its pending writes with it, and a
booting core that dies does not. Theorems: `Invariance`, `WholeRecords`, `RemovalIsFinal`,
`OneCoreServes`, `StatesOutlive`.

**ContextStoreProofs** (any operations, sessions, turns, sockets, tokens, costs and budgets). The phase of
an operation says what its plan, its charge and its record can be (`Operation`, `Record`); a call of
`make_room`, which is many steps, keeps what its caller has checked (`Call`): no other method runs in
between, and an eviction touches nothing of the session it is for. `OneOwner` needs that a branch made
for an operation is used by no other before it has ended (`Own`), since admission compares with the
active ones only. Theorems: `Invariance`, `Charged` (`ChargeIsExact`), `Owned`, `Handed`, `Pinning`,
`Swept`.

**Only model-checked:**

* everything under fairness (`DoomedSessionReturns`, `RetiredSessionReturns`, `ShutdownCompletes`,
  `EveryRequestEnds`, `EndsOrProgresses`, `CoreComesBack`, `RetiredStreamCloses`, `StreamEnds`), which is
  out of the prover's reach;
* the sums of `BudgetHeld` over sessions, folds whose induction over the set is out of its reach too;
* `SafeAdviceIsHonest` of the session, which does not hold for every value of the constants: the run
  `session_stale_advice` refutes it where a frame that is no event ends the core pump, so `session` shows it
  only for the frames and faults of its configuration;
* `CarriersAgree`, which compares two ways of going over the same events item by item; the invariant that
  relates them is not found yet;
* `IdentityState`, whose edits are recursive over data (ancestries, closures), and `Relay`
  (`AdviceIsHonest`, `TerminalsAreOwn`, `IncrementalIsComplete`, `OutputIsSound`), whose continuation and
  output operators loop over lists of items.

## 6. What is not modelled

Formatting, logging, flag parsing, header copying, TLS and cookies; migrations and read-only queries;
the field-by-field rewriting of requests and responses in the core, which is stateless and would only
be copied. A deadline is "may pass" or a tick, never a duration. SQLite is atomic, durable
transactions with one writer.

* The core's transport registry is a memo of clients under one mutex; nothing leaves it.
* Tool observations are a function of one request's JSON.
* Identity: one API key's scope; the lite and native prefixes, content ids, start times, the
  allowances of a classifier's history, the association of a turn with a plan, a request's conversation
  and the binding of a session to an inventory are left out. A tool continuation that spans turns is one
  refusal. `ProtectAliases` keeps less than the code: not the sessions of reservations, nor context windows.
* Relay: model notices, provider request ids, the error event before a protocol close, the size of
  frames other than "over the limit". The upstream is assumed to speak only of creates it received: an
  unsolicited error while no create is out, or at the gate of the first create, is left out, and with it a
  retirement before the first send.
* HttpStream: "heartbeat" stands for comments, empty events and `[DONE]`. A partial `[DONE]` counts as
  pending data in the code and not in the model, which therefore completes in more cases.
* The vault's secrets and the login callback server are data and I/O.
