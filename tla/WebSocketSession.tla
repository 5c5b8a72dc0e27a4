-------------------------- MODULE WebSocketSession --------------------------
(***************************************************************************)
(* One upgraded Responses WebSocket in the coordinator: the goroutines of  *)
(* httpapi/websocket_session.go (the client pump, the core pump and the    *)
(* run loop), the shared fields they touch under the session mutex, and    *)
(* the request rows they open and close in the store.                      *)
(*                                                                         *)
(* One action is one critical section, channel operation, socket call or   *)
(* store call, so every interleaving of the three goroutines and of stop() *)
(* is a behaviour.  The two sockets and their peers are external: a read   *)
(* returns any frame the peer may send or fails, a write succeeds or fails.*)
(* A response id stands for the text of the id; a frame keeps only the     *)
(* fields usage.ParseWebSocketEvent extracts.                              *)
(***************************************************************************)
EXTENDS Naturals, Sequences, FiniteSets

CONSTANTS
    Requests,        \* request ids newRequestID may generate
    ResponseIds,     \* response ids the provider may name
    NoId,            \* the empty response id
    None,            \* a nil pointer
    DeadlineCap,     \* capacity of the deadlines channel (8 in the code)
    ClientFrames,    \* frames the public peer may send
    CoreFrames,      \* frames the core may send
    MaxClientFrames, \* bound: frames read from the public socket
    MaxCoreFrames,   \* bound: frames read from the core socket
    CoreCloses,      \* how the core connection may end (see CoreLost)
    Faults           \* what the environment may do (see EnvironmentFaults)

Ids == ResponseIds \cup {NoId}

Statuses == {"completed", "upstream_error", "client_disconnected"}

\* Exit metadata of a pump: parsed from the core's close frame ("core"), a
\* close code passed through ("code"), derived from the session's own state
\* ("safe", "ambiguous", "never"), or absent ("none").
Metadata == {"core", "code", "safe", "ambiguous", "never", "none"}

ServerTypes == {"response.event", "response.completed", "response.failed",
                "response.incomplete", "error"}

\* What ParseWebSocketEvent yields: the failed footer is expected only after an
\* error, an interruption is reported only by response.incomplete.
ServerEvents ==
    {e \in [type: ServerTypes, id: Ids, usage: BOOLEAN,
            footer: BOOLEAN, interrupted: BOOLEAN] :
        /\ e.footer => e.type = "error"
        /\ e.interrupted => e.type = "response.incomplete"}

\* Frames that carry no event: not text, unparsable, and the private
\* provider-request-id control, well formed or not.
OpaqueFrames ==
    [type: {"binary", "malformed", "control", "badcontrol"}, id: {NoId},
     usage: {FALSE}, footer: {FALSE}, interrupted: {FALSE}]

NoEvent == [type |-> "none", id |-> NoId, usage |-> FALSE,
            footer |-> FALSE, interrupted |-> FALSE]

ClientEvents ==
    [type: {"response.create", "other", "binary", "malformed"}, id: {NoId}]
        \cup [type: {"interrupt"}, id: ResponseIds]

NoClientEvent == [type |-> "none", id |-> NoId]

\* websocketOperation.  ttfb is whether the first core event has been seen;
\* usage is the id of the event whose usage is kept, None before any.
Operations ==
    [req: Requests, ttfb: BOOLEAN, usage: Ids \cup {None},
     terminalPending: BOOLEAN, responseID: Ids, interruptRequested: BOOLEAN]

NewOperation(r) ==
    [req |-> r, ttfb |-> FALSE, usage |-> None, terminalPending |-> FALSE,
     responseID |-> NoId, interruptRequested |-> FALSE]

FailedOperations == [op: Operations, generation: Nat]

\* peerLeaves: the public peer may go away at any time.  writeFails: a write on an
\* open socket may fail.  stop: the manager may stop the session.  finalizeFails:
\* FinalizeRequest may fail (busy store, 5 s timeout).  strayEvents: a response
\* event may arrive outside a forwarded turn.  unaskedInterrupt: the provider may
\* report an interruption nobody asked for.
EnvironmentFaults == {"peerLeaves", "writeFails", "stop", "finalizeFails", "strayEvents",
                      "unaskedInterrupt"}

ASSUME ConstantsAssumption ==
    /\ NoId \notin ResponseIds
    /\ None \notin Operations
    /\ None \notin FailedOperations
    /\ None \notin Requests
    /\ None \notin Ids
    /\ DeadlineCap \in Nat \ {0}
    /\ ClientFrames \subseteq ClientEvents
    /\ CoreFrames \subseteq ServerEvents \cup OpaqueFrames
    /\ MaxClientFrames \in Nat
    /\ MaxCoreFrames \in Nat
    /\ CoreCloses \subseteq {"core", "code", "closed"}
    /\ Faults \subseteq EnvironmentFaults

VARIABLES
    \* Session fields guarded by websocketSession.mu.
    active, failed, generation, failedResponseObserved, retired,
    \* Atomics, the pumps' result channel, context and sockets.
    exitCause, stopping, results, ctxDone, public, core,
    \* The deadlines channel and the run loop's idle and failure-tail timers.
    deadlines, timerArmed, tailArmed,
    \* Program counters of the goroutines; operations the core pump and the run
    \* loop have taken; frames each pump has read (bounded).
    pc, taken, reads,
    \* Locals: the client pump's frame and the request it opened; the core pump's
    \* event with its verdicts; the run loop's result.
    clientFrame, clientReq, coreLocal, runLocal,
    \* The store's rows; how often each operation was finished (history); what
    \* reached the peers: creates and interrupts written to the core, requests
    \* whose terminal event reached the client, the public close frame.
    rows, finishes, forwarded, interruptsSent, delivered, closeAdvice

locked == <<active, failed, generation, failedResponseObserved, retired>>
exits  == <<exitCause, stopping, results>>
net    == <<ctxDone, public, core>>
timing == <<deadlines, timerArmed, tailArmed>>
locals == <<clientFrame, clientReq, coreLocal, runLocal, reads>>
store  == <<rows, finishes>>
peers  == <<forwarded, interruptsSent, delivered, closeAdvice>>

vars == <<locked, exits, net, timing, pc, taken, locals, store, peers>>

NoLocal == [event |-> NoEvent, old |-> FALSE, terminal |-> FALSE,
            status |-> "completed", meta |-> "none"]

Init ==
    /\ active = None /\ failed = None /\ generation = 0
    /\ failedResponseObserved = FALSE /\ retired = FALSE
    /\ exitCause = "unset" /\ stopping = FALSE /\ results = <<>>
    /\ ctxDone = FALSE /\ public = "open" /\ core = "open"
    /\ deadlines = <<>> /\ timerArmed = TRUE /\ tailArmed = FALSE
    /\ pc = [client |-> "read", core |-> "read", run |-> "select"]
    /\ taken = [core |-> None, run |-> None]
    /\ reads = [client |-> 0, core |-> 0]
    /\ clientFrame = NoClientEvent /\ clientReq = None
    /\ coreLocal = NoLocal
    /\ runLocal = [status |-> "completed", meta |-> "none"]
    /\ rows = [r \in Requests |-> [status |-> "absent", usage |-> None]]
    /\ finishes = [r \in Requests |-> 0]
    /\ forwarded = {} /\ interruptsSent = {} /\ delivered = {} /\ closeAdvice = "open"

-----------------------------------------------------------------------------
(* Steps the goroutines share.                                              *)

At(p, here) == pc[p] = here
Goto(p, next) == pc' = [pc EXCEPT ![p] = next]

\* exitCause.CompareAndSwap(unset, cause): the first cause wins.
RecordExitCause(cause) == exitCause' = IF exitCause = "unset" THEN cause ELSE exitCause

\* Mutant: retirement is not consulted.
DeliveryFailureIgnoringRetirement ==
    IF active = None
    THEN IF failedResponseObserved THEN "never" ELSE "safe"
    ELSE IF active.ttfb THEN "never" ELSE "ambiguous"

\* currentDeliveryFailure: the retry advice the session state supports.
CurrentDeliveryFailure ==
    IF retired THEN "never"
    ELSE IF active = None
         THEN IF failedResponseObserved THEN "never" ELSE "safe"
         ELSE IF active.ttfb THEN "never" ELSE "ambiguous"

\* A goroutine moves on without touching anything shared.
Step(p, here, next) ==
    /\ At(p, here) /\ Goto(p, next)
    /\ UNCHANGED <<locked, exits, net, timing, taken, locals, store, peers>>

\* notifyDeadline: send on the bounded channel, or give up once cancelled.
NotifyDeadline(p, here, event, next) ==
    /\ At(p, here) /\ Goto(p, next)
    /\ \/ Len(deadlines) < DeadlineCap /\ deadlines' = Append(deadlines, event)
       \/ ctxDone /\ UNCHANGED deadlines
    /\ UNCHANGED <<locked, exits, net, timerArmed, tailArmed, taken, locals, store, peers>>

\* finishOperation on the operation p has taken, if any: one FinalizeRequest,
\* which closes an in-progress row; a store failure is logged, nothing retried.
FinishOperation(p, here, status, next) ==
    /\ At(p, here) /\ Goto(p, next)
    /\ taken' = [taken EXCEPT ![p] = None]
    /\ IF taken[p] = None THEN UNCHANGED store
       ELSE LET r == taken[p].req IN
            /\ finishes' = [finishes EXCEPT ![r] = @ + 1]
            /\ \E stored \in {TRUE, "finalizeFails" \notin Faults} :
                  rows' = IF stored /\ rows[r].status = "in_progress"
                          THEN [rows EXCEPT ![r] = [status |-> status, usage |-> taken[p].usage]]
                          ELSE rows
    /\ UNCHANGED <<locked, exits, net, timing, locals, peers>>

\* upstreamPumpResult: the cause first, the delivery metadata in a later critical
\* section; the core's own close metadata wins over the session's state.
RecordUpstream(p, here, next) ==
    /\ At(p, here) /\ Goto(p, next)
    /\ RecordExitCause("upstream")
    /\ UNCHANGED <<stopping, results, locked, net, timing, taken, locals, store, peers>>

ReportUpstream(p, meta) ==
    /\ At(p, "reportUpstream") /\ Goto(p, "done")
    /\ results' = Append(results, [status |-> "upstream_error",
                     meta |-> IF meta = "none" THEN CurrentDeliveryFailure ELSE meta])
    /\ UNCHANGED <<exitCause, stopping, locked, net, timing, taken, locals, store, peers>>

\* pumpResult(client_disconnected).
ReportDisconnected(p) ==
    /\ At(p, "reportClient") /\ Goto(p, "done")
    /\ RecordExitCause("client")
    /\ results' = Append(results, [status |-> "client_disconnected", meta |-> "none"])
    /\ UNCHANGED <<stopping, locked, net, timing, taken, locals, store, peers>>

\* A closed core socket keeps the close frame the core sent, if it sent one; the
\* first close frame the public peer is sent is the one that counts.
CloseNow(socket) == IF socket = "open" THEN "closed" ELSE socket
SendClose(advice) == closeAdvice' = IF public = "open" THEN advice ELSE closeAdvice
-----------------------------------------------------------------------------
(* The client pump.                                                         *)

ClientRead(frame) ==
    /\ At("client", "read") /\ reads.client < MaxClientFrames
    /\ public # "closed" /\ ~ctxDone
    /\ clientFrame' = frame
    /\ reads' = [reads EXCEPT !.client = @ + 1]
    /\ Goto("client", IF reads.client = 0 THEN "first" ELSE "dispatch")
    /\ UNCHANGED <<clientReq, coreLocal, runLocal, locked, exits, net, timing, taken, store, peers>>

ClientReadError == (public = "closed" \/ ctxDone) /\ Step("client", "read", "reportClient")

ClientFirstFrame == NotifyDeadline("client", "first", "firstFrame", "dispatch")

\* A binary or unparsable frame, or an event other than response.create while
\* no operation is active, ends the session on the client's account.
ClientDispatch ==
    \/ clientFrame.type = "response.create" /\ Step("client", "dispatch", "begin")
    \/ clientFrame.type = "interrupt" /\ active # None /\ Step("client", "dispatch", "interrupt")
    \/ clientFrame.type = "other" /\ active # None /\ Step("client", "dispatch", "write")
    \/ /\ \/ clientFrame.type \in {"binary", "malformed"}
          \/ clientFrame.type \in {"interrupt", "other"} /\ active = None
       /\ Step("client", "dispatch", "reject")

\* beginOperation: a retired stream admits no create ...
BeginRetired == retired /\ Step("client", "begin", "recordUpstream")

\* ... a create that overlaps an active operation, meets a cancelled session or
\* gets no request id is refused; while the active operation's terminal event is
\* being delivered the pump waits on terminalReady or cancellation ...
BeginRefused ==
    /\ ~retired
    /\ active # None /\ active.terminalPending => ctxDone
    /\ Step("client", "begin", "reject")

\* ... otherwise the operation is published and its row started, all under the
\* mutex; a refused start (revoked key, store error) unpublishes it again.
BeginOperation(r) ==
    /\ At("client", "begin") /\ ~retired
    /\ active = None /\ ~ctxDone /\ ~stopping
    /\ rows[r].status = "absent"
    /\ generation' = generation + 1
    /\ failedResponseObserved' = FALSE
    /\ \/ /\ rows' = [rows EXCEPT ![r].status = "in_progress"]
          /\ active' = NewOperation(r)
          /\ clientReq' = r /\ Goto("client", "notify")
       \/ Goto("client", "reject") /\ UNCHANGED <<rows, active, clientReq>>
    /\ UNCHANGED <<failed, retired, finishes, clientFrame, coreLocal, runLocal, reads,
                    exits, net, timing, taken, peers>>

ClientTurnStarted == NotifyDeadline("client", "notify", "turnStarted", "write")

\* requestInterrupt.
RequestInterrupt ==
    /\ At("client", "interrupt") /\ Goto("client", "write")
    /\ active' = IF active # None /\ active.responseID = clientFrame.id /\ ~active.terminalPending
                 THEN [active EXCEPT !.interruptRequested = TRUE] ELSE active
    /\ UNCHANGED <<failed, generation, failedResponseObserved, retired, exits, net, timing,
                    taken, locals, store, peers>>

\* The frame reaches the core, or the write fails.
ClientWrite ==
    /\ At("client", "write") /\ core = "open" /\ ~ctxDone
    /\ Goto("client", "read")
    /\ forwarded' = forwarded \cup (IF clientFrame.type = "response.create" THEN {clientReq} ELSE {})
    /\ interruptsSent' = interruptsSent \cup (IF clientFrame.type = "interrupt" THEN {clientFrame.id} ELSE {})
    /\ clientFrame' = NoClientEvent /\ clientReq' = None
    /\ UNCHANGED <<delivered, closeAdvice, coreLocal, runLocal, reads, locked, exits, net,
                    timing, taken, store>>

ClientWriteError ==
    /\ At("client", "write") /\ Goto("client", "recordUpstream")
    /\ core # "open" \/ ctxDone \/ "writeFails" \in Faults
    /\ core' = CloseNow(core)
    /\ UNCHANGED <<ctxDone, public, locked, exits, timing, taken, locals, store, peers>>

\* recordExitCause(client), then the close frame of a client fault.
ClientReject ==
    /\ At("client", "reject") /\ Goto("client", "reportClient")
    /\ RecordExitCause("client")
    /\ SendClose("fault") /\ public' = "closed"
    /\ UNCHANGED <<stopping, results, ctxDone, core, forwarded, interruptsSent, delivered,
                    locked, timing, taken, locals, store>>

ClientExit ==
    \/ ReportDisconnected("client")
    \/ RecordUpstream("client", "recordUpstream", "reportUpstream")
    \/ ReportUpstream("client", "none")

-----------------------------------------------------------------------------
(* The core pump.                                                           *)

\* The core's relay: what it may send now.  Unless it strays, response events
\* belong to a forwarded turn or to the tail of a failed one.
CoreMaySend(event) ==
    /\ event \in ServerEvents /\ "strayEvents" \notin Faults =>
          failed # None \/ (active # None /\ active.req \in forwarded)
    /\ event.interrupted /\ "unaskedInterrupt" \notin Faults => event.id \in interruptsSent

\* A provider-request-id control is consumed; anything that is neither a control
\* nor an event ends the session.
CoreRead(event) ==
    /\ At("core", "read") /\ reads.core < MaxCoreFrames
    /\ core = "open" /\ ~ctxDone /\ CoreMaySend(event)
    /\ reads' = [reads EXCEPT !.core = @ + 1]
    /\ \/ event.type = "control" /\ Goto("core", "read") /\ UNCHANGED coreLocal
       \/ /\ event.type \in {"binary", "badcontrol"} /\ Goto("core", "recordUpstream")
          /\ coreLocal' = NoLocal
       \/ /\ event.type = "malformed" /\ Goto("core", "observeMalformed")
          /\ coreLocal' = NoLocal
       \/ /\ event.type \in ServerTypes /\ Goto("core", "classify")
          /\ coreLocal' = [NoLocal EXCEPT !.event = event]
    /\ UNCHANGED <<clientFrame, clientReq, runLocal, locked, exits, net, timing, taken, store, peers>>

CoreReadError ==
    /\ At("core", "read") /\ (core # "open" \/ ctxDone)
    /\ Goto("core", "recordUpstream")
    /\ coreLocal' = [NoLocal EXCEPT !.meta = IF core \in {"core", "code"} THEN core ELSE "none"]
    /\ UNCHANGED <<clientFrame, clientReq, runLocal, reads, locked, exits, net, timing, taken,
                    store, peers>>

\* observeCoreResponse: the first core event of an operation fixes its TTFB.
CoreObserveResponse ==
    /\ pc.core \in {"observeCore", "observeMalformed"}
    /\ Goto("core", IF pc.core = "observeCore" THEN "observeEvent" ELSE "recordUpstream")
    /\ active' = IF active = None THEN None ELSE [active EXCEPT !.ttfb = TRUE]
    /\ UNCHANGED <<failed, generation, failedResponseObserved, retired, exits, net, timing,
                    taken, locals, store, peers>>
\* failedServerEvent: does the event belong to the failure tail?
InFailureTail(event) ==
    /\ failed # None
    /\ \/ failed.op.responseID # NoId /\ event.id = failed.op.responseID
       \/ /\ failed.op.responseID = NoId /\ generation = failed.generation
          /\ event.type = "response.failed"
       \/ active = None /\ generation = failed.generation /\ event.type = "error"

\* Mutant: every event is taken for the active operation's.
OfNoOtherResponse(event) == FALSE

\* An event that names a response other than the active one's known response.
OfOtherResponse(event) ==
    /\ active # None /\ active.responseID # NoId
    /\ event.id # NoId /\ active.responseID # event.id

WithUsage(op, event) == IF event.usage THEN [op EXCEPT !.usage = event.id] ELSE op

\* What an event leaves on the operation it belongs to.
WithEvent(op, event, terminal) ==
    [WithUsage(op, event) EXCEPT
        !.responseID = IF op.responseID = NoId THEN event.id ELSE op.responseID,
        !.terminalPending = op.terminalPending \/ terminal]

\* The failed footer: the core pump takes the failed operation over, with its usage.
CoreFailedFooter ==
    LET event == coreLocal.event IN
    /\ At("core", "classify") /\ Goto("core", "status")
    /\ InFailureTail(event) /\ event.type = "response.failed"
    /\ taken' = [taken EXCEPT !.core = WithUsage(failed.op, event)]
    /\ failed' = None
    /\ failedResponseObserved' = (failedResponseObserved /\ generation # failed.generation)
    /\ coreLocal' = [coreLocal EXCEPT !.old = TRUE]
    /\ UNCHANGED <<active, generation, retired, clientFrame, clientReq, runLocal, reads,
                    exits, net, timing, store, peers>>

CoreClassify ==
    LET event == coreLocal.event IN
    /\ At("core", "classify") /\ Goto("core", "status")
    /\ ~(InFailureTail(event) /\ event.type = "response.failed")
    /\ coreLocal' = [coreLocal EXCEPT !.old = InFailureTail(event) \/ OfOtherResponse(event)]
    /\ UNCHANGED <<clientFrame, clientReq, runLocal, reads, locked, exits, net, timing, taken,
                    store, peers>>

\* interruptedActive: the active response ended by an interrupt the client sent.
InterruptedActive(event) ==
    /\ event.interrupted /\ event.id # NoId
    /\ active # None /\ active.interruptRequested /\ active.responseID = event.id

TerminalTypes == {"response.completed", "response.failed", "response.incomplete", "error"}

\* websocketTerminalStatus, corrected for an interrupted response.
CoreTerminalStatus ==
    LET event == coreLocal.event IN
    /\ At("core", "status") /\ Goto("core", IF coreLocal.old THEN "write" ELSE "observeCore")
    /\ coreLocal' = [coreLocal EXCEPT
          !.terminal = event.type \in TerminalTypes,
          !.status = IF event.type = "response.completed" \/ InterruptedActive(event)
                     THEN "completed" ELSE "upstream_error"]
    /\ UNCHANGED <<clientFrame, clientReq, runLocal, reads, locked, exits, net, timing, taken,
                    store, peers>>

\* Events after which the stream admits no further create.
Retires(event) ==
    \/ event.type \in {"error", "response.failed"}
    \/ event.type = "response.incomplete" /\ ~InterruptedActive(event)

\* observeServerEvent: a failure retires the stream; usage, the response id and
\* a terminal event are noted on the active operation.
CoreObserveEvent ==
    LET event == coreLocal.event IN
    /\ At("core", "observeEvent") /\ Goto("core", IF event.footer THEN "detach" ELSE "write")
    /\ retired' = (retired \/ Retires(event))
    /\ active' = IF active = None THEN None
                 ELSE WithEvent(active, event, coreLocal.terminal)
    /\ UNCHANGED <<failed, generation, failedResponseObserved, exits, net, timing, taken,
                    locals, store, peers>>

\* detachFailedOperation: the active operation becomes the failed one and waits
\* for its footer; an earlier failed operation is handed back to be finished.
CoreDetach ==
    /\ At("core", "detach") /\ Goto("core", "finishPrevious")
    /\ \/ /\ active # None
          /\ taken' = [taken EXCEPT !.core = IF failed = None THEN None ELSE failed.op]
          /\ failed' = [op |-> active, generation |-> generation]
          /\ failedResponseObserved' = TRUE
          /\ active' = None
       \/ active = None /\ UNCHANGED <<taken, failed, failedResponseObserved, active>>
    /\ UNCHANGED <<generation, retired, exits, net, timing, locals, store, peers>>

CoreFinishPrevious == FinishOperation("core", "finishPrevious", "upstream_error", "notifyTail")

\* Mutant: the run loop never learns of the failure tail.
CoreNotifyNoTail == Step("core", "notifyTail", "notifyDetached")

CoreNotifyTail == NotifyDeadline("core", "notifyTail", "failureTail", "notifyDetached")

\* An event with a footer to come is not terminal, and is still delivered.
CoreNotifyDetached == NotifyDeadline("core", "notifyDetached", "turnFinished", "write")

\* At the end of a loop iteration its locals go out of scope.
ForgetUnless(inUse) == coreLocal' = IF inUse THEN coreLocal ELSE NoLocal

EndsTurn == ~coreLocal.old /\ coreLocal.terminal /\ ~coreLocal.event.footer

\* The event reaches the public peer, or the write fails: the peer is gone, the
\* socket is closing, the write timed out.  A footer's operation is finished
\* whether or not the footer was delivered.
CoreWrite ==
    /\ At("core", "write") /\ public = "open" /\ ~ctxDone
    /\ Goto("core", IF taken.core # None THEN "finishFooter"
                    ELSE IF EndsTurn THEN "complete" ELSE "read")
    /\ delivered' = delivered \cup (IF active # None /\ EndsTurn THEN {active.req} ELSE {})
    /\ ForgetUnless(taken.core # None \/ EndsTurn)
    /\ UNCHANGED <<forwarded, interruptsSent, closeAdvice, clientFrame, clientReq, runLocal,
                    reads, locked, exits, net, timing, taken, store>>

\* Mutant: a lost terminal event still completes the turn.
CoreWriteErrorIgnored ==
    /\ At("core", "write")
    /\ public # "open" \/ ctxDone \/ "writeFails" \in Faults
    /\ Goto("core", IF taken.core # None THEN "finishFooterLost"
                    ELSE IF EndsTurn THEN "complete" ELSE "reportClient")
    /\ public' = "closed"
    /\ UNCHANGED <<ctxDone, core, locked, exits, timing, taken, locals, store, peers>>

CoreWriteError ==
    /\ At("core", "write")
    /\ public # "open" \/ ctxDone \/ "writeFails" \in Faults
    /\ Goto("core", IF taken.core # None THEN "finishFooterLost" ELSE "reportClient")
    /\ public' = "closed"
    /\ UNCHANGED <<ctxDone, core, locked, exits, timing, taken, locals, store, peers>>

CoreFinishFooter ==
    \/ FinishOperation("core", "finishFooter", "upstream_error", "recordUpstream")
    \/ FinishOperation("core", "finishFooterLost", "upstream_error", "reportClient")

\* completeActive: takeActive under the mutex, the store call outside it.
CoreTakeActive ==
    /\ At("core", "complete") /\ Goto("core", IF active = None THEN "read" ELSE "finishTaken")
    /\ taken' = [taken EXCEPT !.core = active]
    /\ active' = None
    /\ ForgetUnless(active # None)
    /\ UNCHANGED <<failed, generation, failedResponseObserved, retired, clientFrame, clientReq,
                    runLocal, reads, exits, net, timing, store, peers>>

CoreFinishTaken == FinishOperation("core", "finishTaken", coreLocal.status, "notifyFinished")

CoreTurnFinished ==
    NotifyDeadline("core", "notifyFinished", "turnFinished",
                   IF coreLocal.status = "upstream_error" THEN "recordUpstream" ELSE "read")

CoreExit ==
    \/ ReportDisconnected("core")
    \/ RecordUpstream("core", "recordUpstream", "reportUpstream")
    \/ ReportUpstream("core", coreLocal.meta)
-----------------------------------------------------------------------------
(* The run loop.                                                            *)

\* firstFrame and turnStarted stop the idle timer, turnFinished re-arms it when
\* nothing is active, failureTail arms the tail timer of the failed operation.
RunDeadline ==
    /\ At("run", "select") /\ deadlines # <<>>
    /\ deadlines' = Tail(deadlines)
    /\ \/ /\ Head(deadlines) \in {"firstFrame", "turnStarted"}
          /\ timerArmed' = FALSE /\ UNCHANGED tailArmed
       \/ /\ Head(deadlines) = "turnFinished"
          /\ timerArmed' = (active = None) /\ UNCHANGED tailArmed
       \/ /\ Head(deadlines) = "failureTail"
          /\ tailArmed' = (failed # None) /\ UNCHANGED timerArmed
    /\ UNCHANGED <<locked, exits, net, pc, taken, locals, store, peers>>

\* Mutant: the failed operation stays in place after it was taken.
TakeFailedKeeping(here, finish, skip) ==
    /\ At("run", here) /\ Goto("run", IF failed = None THEN skip ELSE finish)
    /\ taken' = [taken EXCEPT !.run = IF failed = None THEN None ELSE failed.op]
    /\ UNCHANGED <<locked, exits, net, timing, locals, store, peers>>

\* takeFailedOperation.
TakeFailed(here, finish, skip) ==
    /\ At("run", here) /\ Goto("run", IF failed = None THEN skip ELSE finish)
    /\ taken' = [taken EXCEPT !.run = IF failed = None THEN None ELSE failed.op]
    /\ failed' = None
    /\ UNCHANGED <<active, generation, failedResponseObserved, retired, exits, net, timing,
                    locals, store, peers>>

\* The failure tail's second is over: expireFailureTail, then
\* finishSession(upstreamPumpResult(nil)).
RunTailExpires == tailArmed /\ TakeFailed("select", "finishExpired", "tailCause")

RunFinishExpired == FinishOperation("run", "finishExpired", "upstream_error", "tailCause")

RunTailCause == RecordUpstream("run", "tailCause", "tailResult")

RunTailResult ==
    /\ At("run", "tailResult") /\ Goto("run", "finishSession")
    /\ runLocal' = [status |-> "upstream_error", meta |-> CurrentDeliveryFailure]
    /\ UNCHANGED <<clientFrame, clientReq, coreLocal, reads, locked, exits, net, timing, taken,
                    store, peers>>

\* A pump has ended.
RunResult ==
    /\ At("run", "select") /\ Goto("run", "finishSession")
    /\ results # <<>> /\ results' = Tail(results)
    /\ runLocal' = Head(results)
    /\ UNCHANGED <<exitCause, stopping, clientFrame, clientReq, coreLocal, reads, locked, net,
                    timing, taken, store, peers>>

\* The first-frame or inter-turn deadline passes.
RunTimer ==
    /\ At("run", "select") /\ Goto("run", "cancel") /\ timerArmed
    /\ SendClose("policy") /\ public' = (IF public = "open" THEN "closing" ELSE public)
    /\ runLocal' = [status |-> "client_disconnected", meta |-> "none"]
    /\ UNCHANGED <<clientFrame, clientReq, coreLocal, reads, ctxDone, core, forwarded,
                    interruptsSent, delivered, locked, exits, timing, taken, store>>

\* finishSession: the first recorded cause decides, shutdown overrides it.
RunFinishSession ==
    LET causal == IF exitCause = "client" THEN "client_disconnected"
                  ELSE IF exitCause = "upstream" THEN "upstream_error" ELSE runLocal.status
    IN
    /\ At("run", "finishSession")
    /\ Goto("run", IF ~stopping /\ causal = "upstream_error" THEN "takeFailedFirst" ELSE "cancel")
    /\ runLocal' = [runLocal EXCEPT !.status = IF stopping THEN "upstream_error" ELSE causal]
    /\ UNCHANGED <<clientFrame, clientReq, coreLocal, reads, locked, exits, net, timing, taken,
                    store, peers>>

\* The failed operation is accounted for before the close handshake.
RunTakeFailedFirst == TakeFailed("takeFailedFirst", "finishFailedFirst", "closePublic")

RunFinishFailedFirst == FinishOperation("run", "finishFailedFirst", "upstream_error", "closePublic")

\* closePublicForCoreFailure: the close frame leaves, then the handshake waits
\* while the pumps keep running; metadata is derived late only when absent.
RunClosePublic ==
    /\ At("run", "closePublic") /\ Goto("run", "cancel")
    /\ SendClose(IF runLocal.meta = "none" THEN CurrentDeliveryFailure ELSE runLocal.meta)
    /\ public' = (IF public = "open" THEN "closing" ELSE public)
    /\ UNCHANGED <<ctxDone, core, forwarded, interruptsSent, delivered, locked, exits, timing,
                    taken, locals, store>>

\* Cancelling the context and closing both sockets, here and in stop().
CancelSession ==
    /\ ctxDone' = TRUE /\ public' = "closed" /\ core' = CloseNow(core)
    /\ SendClose("none")
    /\ UNCHANGED <<forwarded, interruptsSent, delivered, locked, exits, timing, taken, locals, store>>

\* Mutant: run waits for its pumps before it cancels them.
RunCancelNothing == Step("run", "cancel", "takeActive")

RunCancel == At("run", "cancel") /\ Goto("run", "takeActive") /\ CancelSession

\* finishActive: the active operation first, then a failed one.
RunTakeActive ==
    /\ At("run", "takeActive") /\ Goto("run", IF active = None THEN "takeFailed" ELSE "finishActive")
    /\ taken' = [taken EXCEPT !.run = active]
    /\ active' = None
    /\ UNCHANGED <<failed, generation, failedResponseObserved, retired, exits, net, timing,
                    locals, store, peers>>

RunFinishActive == FinishOperation("run", "finishActive", runLocal.status, "takeFailed")

RunTakeFailed == TakeFailed("takeFailed", "finishFailed", "wait")

RunFinishFailed == FinishOperation("run", "finishFailed", "upstream_error", "wait")

\* The deferred pumps.Wait: run returns after both pumps have.
RunReturn == pc.client = "done" /\ pc.core = "done" /\ Step("run", "wait", "returned")

-----------------------------------------------------------------------------
(* The peers and the shutdown path.                                         *)

\* External: the public peer goes away, or answers the close handshake.
PeerDisconnect ==
    /\ "peerLeaves" \in Faults \/ public = "closing"
    /\ public # "closed" /\ public' = "closed"
    /\ UNCHANGED <<ctxDone, core, locked, exits, timing, pc, taken, locals, store, peers>>

\* The core's relay: its connection ends, with failure metadata in its close frame,
\* with a plain close code, or without a close frame.
CoreLost(how) ==
    /\ core = "open" /\ core' = how
    /\ UNCHANGED <<ctxDone, public, locked, exits, timing, pc, taken, locals, store, peers>>

\* stop(), called by the shutting-down manager: the flag, then the cancellation.
Stop ==
    /\ "stop" \in Faults /\ ~stopping /\ pc.run # "returned"
    /\ stopping' = TRUE
    /\ UNCHANGED <<exitCause, results, locked, net, timing, pc, taken, locals, store, peers>>

StopCancel == stopping /\ ~ctxDone /\ CancelSession /\ UNCHANGED pc

-----------------------------------------------------------------------------

ClientStep ==
    \/ ClientReadError \/ ClientFirstFrame \/ ClientDispatch
    \/ BeginRetired \/ BeginRefused \/ (\E r \in Requests : BeginOperation(r))
    \/ ClientTurnStarted \/ RequestInterrupt \/ ClientWrite \/ ClientWriteError
    \/ ClientReject \/ ClientExit

CoreStep ==
    \/ CoreReadError \/ CoreFailedFooter \/ CoreClassify \/ CoreTerminalStatus
    \/ CoreObserveResponse \/ CoreObserveEvent \/ CoreDetach \/ CoreFinishPrevious
    \/ CoreNotifyTail \/ CoreNotifyDetached \/ CoreWrite \/ CoreWriteError
    \/ CoreFinishFooter \/ CoreTakeActive \/ CoreFinishTaken \/ CoreTurnFinished
    \/ CoreExit

RunStep ==
    \/ RunDeadline \/ RunTailExpires \/ RunFinishExpired \/ RunTailCause \/ RunTailResult
    \/ RunResult \/ RunFinishSession \/ RunTakeFailedFirst
    \/ RunFinishFailedFirst \/ RunClosePublic \/ RunCancel \/ RunTakeActive
    \/ RunFinishActive \/ RunTakeFailed \/ RunFinishFailed \/ RunReturn

PeerStep ==
    \/ \E frame \in ClientFrames : ClientRead(frame)
    \/ \E event \in CoreFrames : CoreRead(event)
    \/ PeerDisconnect
    \/ \E how \in CoreCloses : CoreLost(how)

\* A session that has returned does nothing more.
Returned == pc.run = "returned" /\ UNCHANGED vars

Next == ClientStep \/ CoreStep \/ RunStep \/ RunTimer \/ PeerStep \/ Stop \/ StopCancel \/ Returned

Spec == Init /\ [][Next]_vars

\* The Go scheduler runs every runnable goroutine, the failure-tail timer fires,
\* writes and store calls have deadlines.  Peers owe nothing, and nothing below
\* relies on the idle timer.
Fairness ==
    WF_vars(ClientStep) /\ WF_vars(CoreStep) /\ WF_vars(RunStep) /\ WF_vars(StopCancel)

FairSpec == Spec /\ Fairness
-----------------------------------------------------------------------------
(* Properties.                                                              *)

Pcs == [client: {"read", "first", "dispatch", "begin", "notify", "interrupt", "write",
                 "reject", "reportClient", "recordUpstream", "reportUpstream", "done"},
        core: {"read", "observeMalformed", "classify", "status", "observeCore",
               "observeEvent", "detach", "finishPrevious", "notifyTail", "notifyDetached",
               "write", "finishFooter", "finishFooterLost", "complete", "finishTaken",
               "notifyFinished", "recordUpstream", "reportUpstream",
               "reportClient", "done"},
        run: {"select", "finishExpired", "tailCause", "tailResult", "finishSession",
              "takeFailedFirst", "finishFailedFirst", "closePublic", "cancel", "takeActive",
              "finishActive", "takeFailed", "finishFailed", "wait", "returned"}]

PumpResults == [status: Statuses, meta: Metadata]

MaybeOperation == Operations \cup {None}
TailStates == FailedOperations \cup {None}
DeadlineEvents == {"firstFrame", "turnStarted", "turnFinished", "failureTail"}
CoreLocals == [event: ServerEvents \cup OpaqueFrames \cup {NoEvent}, old: BOOLEAN,
               terminal: BOOLEAN, status: Statuses, meta: Metadata]
Rows == [status: Statuses \cup {"absent", "in_progress"}, usage: Ids \cup {None}]

LockedType ==
    /\ active \in MaybeOperation /\ failed \in TailStates
    /\ generation \in Nat /\ failedResponseObserved \in BOOLEAN /\ retired \in BOOLEAN

SharedType ==
    /\ exitCause \in {"unset", "client", "upstream"} /\ stopping \in BOOLEAN
    /\ results \in Seq(PumpResults)
    /\ ctxDone \in BOOLEAN /\ public \in {"open", "closing", "closed"}
    /\ core \in {"open", "core", "code", "closed"}
    /\ deadlines \in Seq(DeadlineEvents) /\ timerArmed \in BOOLEAN /\ tailArmed \in BOOLEAN

LocalType ==
    /\ pc \in Pcs /\ taken \in [core: MaybeOperation, run: MaybeOperation]
    /\ reads \in [client: Nat, core: Nat]
    /\ clientFrame \in ClientEvents \cup {NoClientEvent} /\ clientReq \in Requests \cup {None}
    /\ coreLocal \in CoreLocals /\ runLocal \in PumpResults

StoreType ==
    /\ rows \in [Requests -> Rows] /\ finishes \in [Requests -> Nat]
    /\ forwarded \in SUBSET (Requests \cup {None}) /\ interruptsSent \in SUBSET Ids
    /\ delivered \in SUBSET Requests
    /\ closeAdvice \in Metadata \cup {"open", "fault", "policy"}

\* Every field keeps the type it is declared with in websocketSession,
\* websocketOperation and websocketPumpResult.
TypeOK == LockedType /\ SharedType /\ LocalType /\ StoreType

\* The operations in somebody's hands: the session's active one, the failed one,
\* and those the core pump or the run loop has taken and not yet finished.
Held == ({active, taken.core, taken.run} \ {None})
          \cup (IF failed = None THEN {} ELSE {failed.op})

\* takeActive, takeFailedOperation, failedServerEvent, detachFailedOperation and the final sweep
\* of finishSession hand over an operation exactly once: none is finished twice, whichever of
\* the core pump, the run loop and the tail timer gets to it, and when run returns every one
\* whose row was started has been finished.
AccountedOnce ==
    /\ \A r \in Requests : finishes[r] <= 1
    /\ pc.run = "returned" =>
           \A r \in Requests : rows[r].status # "absent" => finishes[r] = 1

\* Usage never crosses responses: an operation whose response is known keeps only
\* usage of an event that named this response, or named none.
UsageOfOwnResponse ==
    \A op \in Held : op.usage \in ResponseIds => op.responseID \in {op.usage, NoId}

\* A failed operation waiting for its footer is alone on a retired stream, so the
\* tail can neither be displaced by a second failure nor mistaken for a newer turn.
FailureTailIsolated ==
    failed # None => /\ active = None /\ retired
                     /\ failed.generation = generation /\ failedResponseObserved

\* A row says completed only if its create was written to the core and the
\* terminal event of its own turn was written to the client.
CompletedWasDelivered ==
    \A r \in Requests : rows[r].status = "completed" => r \in delivered \cap forwarded

\* The public socket is closed with retry advice "safe" only if every create that
\* reached the core got its terminal event delivered and did not fail.
SafeAdviceIsHonest ==
    closeAdvice = "safe" =>
        \A r \in forwarded : r \in delivered /\ rows[r].status # "upstream_error"

\* After a failure retired the stream no operation is started on it, and it stays
\* retired when the failure tail ends.
RetirementIsFinal ==
    [][retired => /\ retired'
                  /\ \A r \in Requests :
                        rows[r].status = "absent" => rows'[r].status = "absent"]_vars

\* A session that a pump has left, or that is being stopped, returns.
DoomedSessionReturns ==
    (pc.client = "done" \/ pc.core = "done" \/ stopping) ~> pc.run = "returned"

\* A retired stream does not linger: its footer, its tail deadline or a fault ends it.
RetiredSessionReturns == retired ~> pc.run = "returned"
=============================================================================
