-------------------------------- MODULE Relay --------------------------------
(***************************************************************************)
(* One Responses WebSocket of the core (responses_websocket_deferred.rs,   *)
(* responses_websocket_relay.rs and their parts): the opening, which reads *)
(* the first create, connects upstream and may warm the connection with a  *)
(* hidden setup, and the relay, whose two halves run side by side over a   *)
(* shared continuation and delivery tracker.  Every await of a half is a   *)
(* place where the other half can run.                                     *)
(*                                                                         *)
(* A client message is [type, create, rid].  A create that reached the     *)
(* upstream is numbered by its place in sent, and that number is the id of *)
(* its response.  External: the upstream answers only creates it received  *)
(* on the connection that is open, and the coordinator waits for the end   *)
(* of one create before it sends the next, unless the world is eager.      *)
(***************************************************************************)
EXTENDS Continuation

CONSTANTS Worlds,       \* the scenarios; one is chosen at the start
          MaxPending    \* MAX_PENDING_MESSAGES, MAX_DEFERRED_PENDING_MESSAGES

VARIABLES
    world,
    stage,      \* first, admitting, connecting, setup, again, planning, relay, closed
    tries,      \* handshakes of this connect that were answered with 401
    conn,       \* the number of the upstream connection
    stale,      \* what changed in the vault since it was captured: the token, the fingerprint
    pending,    \* client messages read while the core was not ready for them
    frames,     \* messages the client has left
    owed,       \* the client has not seen the end of its last create
    cont,       \* ResponsesWebSocketState
    delivery,   \* WebSocketDeliveryTracker
    inbound,    \* Inbound
    ops,        \* the operations of the context store this socket began, the last is current
    client,     \* client_to_upstream: where it is, its message, and the frame it will send
    reading,    \* upstream_to_client: the event being translated or sent, or None
    sent,       \* the creates that went upstream, with what the upstream answered
    exit        \* how the socket ended

vars == <<world, stage, tries, conn, stale, pending, frames, owed, cont, delivery, inbound, ops,
          client, reading, sent, exit>>

opening == <<tries, conn>>
inputs == <<pending, frames, owed>>
upstreamHalf == <<inbound, reading>>

Passthrough == world.profile = "passthrough"

\* fingerprint_is_current compares revision and mode; identity_is_current the credential as well.
FingerprintIsCurrent == "fingerprint" \notin stale
IdentityIsCurrent == stale = {}

\* ---------------------------------------------------- WebSocketDeliveryTracker
NothingDelivered == [st |-> "idle", gen |-> 0, retired |-> FALSE]

MarkAttempted(d) == [d EXCEPT !.st = "attempted", !.gen = @ + 1]
MarkResponseObserved(d) == [d EXCEPT !.st = IF @ = "idle" THEN @ ELSE "observed"]
Retire(d) == MarkResponseObserved([d EXCEPT !.retired = TRUE])

\* Mutant: the end of one create settles whatever was attempted since.
MarkTerminalAny(d, gen) == [d EXCEPT !.st = "idle"]

MarkTerminal(d, gen) == [d EXCEPT !.st = IF d.gen = gen THEN "idle" ELSE @]

\* failure: the retry advice of a close.
Advice(d) == IF d.retired \/ d.st = "observed" THEN "never"
             ELSE IF d.st = "attempted" THEN "ambiguous" ELSE "safe"

\* ------------------------------------------------------------- the operations
\* ContextStore::prepare_interrupt: the one live operation that the id names.
Interruptible(rid) ==
    {o \in DOMAIN ops : /\ ops[o].live /\ ops[o].rid = rid /\ ~ops[o].comp
                        /\ MayInterrupt(ops[o].intr, rid)}

\* ------------------------------------------------------------------- the ends
Resting == [at |-> "idle", msg |-> None, frame |-> None]

\* The socket ends: the continuation is reset, and the close carries a code and, for a failure,
\* the advice.
End(code, advice) ==
    /\ stage' = "closed" /\ exit' = [code |-> code, advice |-> advice]
    /\ cont' = Reset(cont) /\ client' = Resting /\ reading' = None /\ pending' = <<>>
    /\ UNCHANGED <<world, opening, stale, delivery, inbound, ops>>

Quit(code, advice) == End(code, advice) /\ UNCHANGED <<frames, owed, sent>>

\* ------------------------------------------------------------------ the client
\* The coordinator sends its next create when it has seen the end of the last one.
MaySend(m) == frames > 0 /\ (m.type = "create" => ~owed \/ world.eager)

Take(m) == frames' = frames - 1 /\ owed' = (owed \/ m.type = "create")

\* ----------------------------------------------------------------- the opening
Init ==
    /\ world \in Worlds
    /\ stage = IF world.profile = "passthrough" THEN "relay" ELSE "first"
    /\ tries = 0 /\ conn = IF world.profile = "passthrough" THEN 1 ELSE 0
    /\ stale = {} /\ pending = <<>> /\ frames = world.frames /\ owed = FALSE
    /\ cont = NewContinuation(world.auto) /\ delivery = NothingDelivered
    /\ inbound = [failed |-> None, rid |-> None, retired |-> FALSE] /\ ops = <<>>
    /\ client = Resting /\ reading = None /\ sent = <<>> /\ exit = None

\* first_create
FirstMessage ==
    /\ stage = "first"
    /\ \E m \in world.messages :
           /\ MaySend(m) /\ Take(m)
           /\ CASE m.type = "create" ->
                       /\ stage' = "admitting" /\ client' = [Resting EXCEPT !.msg = m]
                       /\ UNCHANGED <<world, opening, stale, pending, cont, delivery, ops,
                                      upstreamHalf, sent, exit>>
                [] m.type = "ping" -> UNCHANGED <<world, stage, opening, stale, pending, cont,
                                                  delivery, ops, client, upstreamHalf, sent,
                                                  exit>>
                [] m.type = "binary" -> End("1003", None) /\ UNCHANGED sent
                [] m.type = "close" -> End("1001", None) /\ UNCHANGED sent
                [] OTHER -> End("1002", None) /\ UNCHANGED sent

\* run, up to the plan of a hidden setup: the fingerprint, the socket lease, the preparation.
Admit ==
    /\ stage = "admitting"
    /\ LET create == client.msg.create
           fresh == [NewContinuation(world.auto) EXCEPT !.rebuilt = create.rebuilt]
       IN  \/ ~FingerprintIsCurrent /\ Quit("1012", None)
           \/ /\ FingerprintIsCurrent /\ world.faults
              /\ \E code \in {"1011", "1002", "failure"} :
                     Quit(code, IF code = "failure" THEN "safe" ELSE None)
           \/ /\ FingerprintIsCurrent /\ stage' = "connecting" /\ tries' = 0
              /\ ops' = <<NewOperation(create)>>
              /\ \E warm \in {FALSE, world.warm} :    \* allow_hidden_prewarm, apply_synthetic_prewarm
                     cont' = IF MayPlanHiddenSetup(fresh, create) /\ warm
                             THEN PlanHiddenSetup(fresh, create) ELSE fresh
              /\ UNCHANGED <<world, conn, stale, inputs, delivery, client, upstreamHalf, sent,
                             exit>>

\* connect: two 401s are answered by a reload and by a refresh of the credential.
Unauthorized ==
    /\ stage \in {"connecting", "again"} /\ world.faults
    /\ \/ tries < 2 /\ tries' = tries + 1 /\ stale' = {}
          /\ UNCHANGED <<world, stage, conn, inputs, cont, delivery, ops, client, upstreamHalf,
                         sent, exit>>
       \/ Quit("failure", "never")    \* the second recovery did not help, or one failed

ConnectFails ==
    /\ stage \in {"connecting", "again"} /\ world.faults
    /\ \E advice \in {"safe", "ambiguous", "never"} : Quit("failure", advice)

\* The connection stands: a hidden setup that was planned runs on it first.
Connected ==
    /\ stage \in {"connecting", "again"}
    /\ IF ~FingerprintIsCurrent
       THEN Quit("1012", None)
       ELSE /\ conn' = conn + 1
            /\ stage' = IF stage = "connecting" /\ cont.setup = "planned" THEN "setup"
                        ELSE "planning"
            /\ UNCHANGED <<world, tries, stale, inputs, cont, delivery, ops, client, upstreamHalf,
                           sent, exit>>

\* A create the upstream received, and what it was told since.
Received(kind, create, prev, input) ==
    [kind |-> kind, conn |-> conn, gen |-> delivery'.gen, create |-> create, prev |-> prev,
     input |-> input, told |-> <<>>, ended |-> FALSE]

Ahead(create) == [create EXCEPT !.input = SubSeq(@, 1, create.lead)]

\* run_hidden_setup: the frame may be over the limit, or fail to be sent, which reconnects.
StartSetup ==
    /\ stage = "setup" /\ cont.setup = "planned"
    /\ \/ /\ "setup" \in client.msg.create.over
          /\ cont' = FailOperation(cont, "setup") /\ stage' = "planning"
          /\ UNCHANGED <<sent, delivery, tries>>
       \/ /\ "setup" \notin client.msg.create.over
          /\ cont' = Activate(cont, "setup") /\ UNCHANGED <<stage, delivery, tries>>
          /\ LET ahead == Ahead(client.msg.create)
             IN  sent' = Append(sent, Received("setup", ahead, None, ahead.input))
       \/ /\ world.faults /\ "setup" \notin client.msg.create.over
          /\ cont' = Reset(cont) /\ stage' = "again" /\ tries' = 0 /\ UNCHANGED <<sent, delivery>>
    /\ UNCHANGED <<world, conn, stale, inputs, ops, client, upstreamHalf, exit>>

\* ----------------------------------------------------------------- the upstream
Failing(s) == \E i \in DOMAIN s.told : s.told[i].type = "error"
Over(s) == \E i \in DOMAIN s.told :
               s.told[i].type \in {"completed", "failed", "incomplete"}
               \/ (s.told[i].type = "error" /\ s.told[i].status)

\* What the upstream may say of the create k: it is created first, and after an error that is
\* not final only its footer and metadata follow.  A setup that failed says nothing more, unless
\* the world is trailing.
MaySay(k, ev) ==
    /\ sent[k].conn = conn /\ ~Over(sent[k])
    /\ Len(sent[k].told) < world.answers
    /\ (sent[k].told = <<>>) = (ev.type = "created") \/ ev.type \in {"error", "failed", "metadata"}
    /\ Failing(sent[k]) => ev.type \in {"failed", "error", "metadata"}
    /\ (sent[k].kind = "setup" /\ Failing(sent[k])) => world.trailing

\* An event names its response where the protocol puts an id.
Named(ev, k) ==
    [ev EXCEPT !.rid = IF NamesResponse(ev) \/ ev.type \in {"accepted", "interrupted"} THEN k
                       ELSE None]

Told(k, ev) == [sent EXCEPT ![k].told = Append(@, ev)]

\* consume_hidden_events: an end of the setup, good or bad, leaves the connection in use.
SetupEvent ==
    /\ stage = "setup" /\ cont.active # None
    /\ \E k \in DOMAIN sent, ev \in world.events :
           /\ MaySay(k, ev)
           /\ LET c == ObserveServerEvent(cont, Named(ev, k))
              IN  /\ cont' = c /\ sent' = Told(k, Named(ev, k))
                  /\ stage' = IF c.setup \in {"completed", "failed"} THEN "planning" ELSE "setup"
    /\ UNCHANGED <<world, opening, stale, inputs, delivery, ops, client, upstreamHalf,
                   exit>>

\* Mutant: a setup that timed out leaves its connection to the first create.
SetupBrokenKept ==
    /\ stage = "setup" /\ cont.active # None
    /\ cont' = FailOperation(cont, "setup") /\ stage' = "planning"
    /\ UNCHANGED <<world, opening, stale, inputs, delivery, ops, client, upstreamHalf, sent,
                   exit>>

\* The setup times out, or its connection breaks: it is given up for a new connection.
SetupBroken ==
    /\ stage = "setup" /\ cont.active # None
    /\ cont' = Reset(cont) /\ stage' = "again" /\ tries' = 0
    /\ UNCHANGED <<world, conn, stale, inputs, delivery, ops, client, upstreamHalf, sent, exit>>

\* wait_deferred: what the client says while the core connects or warms up.
DeferredMessage ==
    /\ stage \in {"connecting", "setup", "again"}
    /\ \E m \in world.messages :
           /\ MaySend(m) /\ frames' = frames - 1 /\ UNCHANGED <<owed, sent>>
           /\ CASE m.type = "create" -> End("1008", None)
                [] m.type = "bad" -> End("1002", None)
                [] m.type = "binary" -> End("1003", None)
                [] m.type = "close" -> End("gone", None)
                [] m.type \in {"interrupt", "control"} /\ Len(pending) >= MaxPending ->
                       End("1009", None)
                [] OTHER -> /\ pending' = IF m.type = "ping" THEN pending ELSE Append(pending, m)
                            /\ UNCHANGED <<world, stage, opening, stale, cont, delivery, ops, client,
                                           upstreamHalf, exit>>

\* The routing token is learned, the first create is planned and its observations are written.
PlanFirst ==
    /\ stage = "planning"
    /\ LET plan == PlanPublicText(cont, client.msg.create)
       IN  \/ world.faults /\ cont.token /\ Quit("1011", None)
           \/ plan = None /\ Quit("1002", None)
           \/ plan # None /\ world.faults /\ Quit("failure", "safe")
           \/ /\ plan # None
              /\ cont' = plan.c /\ stage' = "relay"
              /\ client' = [at |-> "verify", msg |-> client.msg,
                             frame |-> [prev |-> plan.prev, input |-> plan.input]]
              /\ UNCHANGED <<world, opening, stale, inputs, delivery, ops, upstreamHalf, sent,
                             exit>>

\* ------------------------------------------------------------ client_to_upstream
\* The first create: the identity is verified, then the core waits for the upstream's sink and
\* still reads what the client says.
VerifyFirst ==
    /\ stage = "relay" /\ client.at = "verify"
    /\ IF IdentityIsCurrent
       THEN /\ client' = [client EXCEPT !.at = "gate"]
            /\ UNCHANGED <<world, stage, opening, stale, inputs, cont, delivery, ops, upstreamHalf,
                           sent, exit>>
       ELSE Quit("1012", None)

GateMessage ==
    /\ stage = "relay" /\ client.at = "gate"
    /\ \E m \in world.messages :
           /\ MaySend(m) /\ frames' = frames - 1 /\ UNCHANGED <<owed, sent>>
           /\ CASE m.type = "create" -> End("1008", None)
                [] m.type = "close" -> End("complete", None)
                [] m.type \notin {"create", "close"} /\ Len(pending) >= MaxPending ->
                       End("1009", None)
                [] OTHER -> /\ pending' = Append(pending, m)
                            /\ UNCHANGED <<world, stage, opening, stale, cont, delivery, ops, client,
                                           upstreamHalf, exit>>

\* The create is marked as attempted and sent; a send that fails may still have arrived.
Attempt ==
    LET create == client.msg.create
        d == MarkAttempted(delivery)
    IN  \/ /\ delivery' = d /\ cont' = Activate(cont, "public")
           /\ sent' = Append(sent, Received("public", create, client.frame.prev,
                                            client.frame.input))
           /\ client' = Resting
           /\ UNCHANGED <<world, stage, opening, stale, inputs, ops, upstreamHalf, exit>>
        \/ /\ world.faults /\ stage' = "closed"
           /\ exit' = [code |-> "failure", advice |-> Advice(d)]
           /\ delivery' = d /\ cont' = Reset(cont) /\ client' = Resting /\ reading' = None
           /\ pending' = <<>>
           /\ \/ UNCHANGED sent
              \/ sent' = Append(sent, Received("public", create, client.frame.prev,
                                               client.frame.input))
           /\ UNCHANGED <<world, opening, stale, frames, owed, inbound, ops>>

\* initial::send: the sink breaks, or it is ready.
SendFirst ==
    /\ stage = "relay" /\ client.at = "gate"
    /\ \/ world.faults /\ Quit("failure", Advice(delivery))
       \/ IF MayActivate(cont, "public") THEN Attempt ELSE Quit("1008", None)

\* The loop: the next message is one that waited, or one that the client sends now.
ClientMessage ==
    /\ stage = "relay" /\ client.at = "idle"
    /\ \E m \in IF pending # <<>> THEN {Head(pending)} ELSE world.messages :
           /\ IF pending # <<>> THEN UNCHANGED <<frames, owed>> ELSE MaySend(m) /\ Take(m)
           /\ UNCHANGED sent
           /\ CASE m.type = "bad" -> End("1002", None)
                [] m.type \in {"binary", "close"} -> End("complete", None)
                [] m.type \in {"create", "interrupt", "control"} /\ delivery.retired ->
                       End("failure", Advice(delivery))
                [] OTHER ->
                       /\ pending' = IF pending = <<>> THEN <<>> ELSE Tail(pending)
                       /\ client' = IF m.type \in {"create", "interrupt"}
                                    THEN [Resting EXCEPT !.at = "checking", !.msg = m] ELSE Resting
                       /\ UNCHANGED <<world, stage, opening, stale, cont, delivery, ops,
                                      upstreamHalf, exit>>

\* The identity is verified; a second create is refused, an interrupt is noted by the store.
Check ==
    /\ stage = "relay" /\ client.at = "checking"
    /\ LET m == client.msg
           targets == Interruptible(m.rid)
       IN  IF ~IdentityIsCurrent THEN Quit("1012", None)
           ELSE IF m.type = "create" /\ PublicCreateInFlight(cont) THEN Quit("1008", None)
           ELSE IF m.type = "interrupt" /\ ~Passthrough /\ Cardinality(targets) # 1
                THEN Quit("1002", None)
           ELSE /\ client' = [client EXCEPT !.at = "preparing"]
                /\ ops' = [o \in DOMAIN ops |->
                               IF m.type = "interrupt" /\ o \in targets
                               THEN [ops[o] EXCEPT !.intr.asked = TRUE] ELSE ops[o]]
                /\ UNCHANGED <<world, stage, opening, stale, inputs, cont, delivery, upstreamHalf,
                               sent, exit>>

\* prepare_client_text ends badly: the store is unavailable, or the text is not acceptable.
PrepareFails ==
    /\ stage = "relay" /\ client.at = "preparing" /\ world.faults /\ ~Passthrough
    /\ Quit("failure", Advice(delivery)) \/ Quit("1002", None)

\* The create is planned on the continuation; one that is too long closes the upstream.
PrepareCreate ==
    /\ stage = "relay" /\ client.at = "preparing" /\ client.msg.type = "create"
    /\ LET create == client.msg.create
           marked == [cont EXCEPT !.rebuilt = create.rebuilt]
       IN  \E plan \in {IF Passthrough THEN PlanPublicCreate(marked, create)
                        ELSE PlanPublicText(marked, create)} :
           IF plan = None THEN Quit("complete", None)
           ELSE /\ cont' = plan.c
                /\ ops' = IF Passthrough THEN ops ELSE Append(ops, NewOperation(create))
                /\ client' = [client EXCEPT !.at = "sending",
                                            !.frame = [prev |-> plan.prev, input |-> plan.input]]
                /\ UNCHANGED <<world, stage, opening, stale, inputs, delivery, upstreamHalf,
                               sent, exit>>

\* prepare_interrupt, and the control is sent.
SendInterrupt ==
    /\ stage = "relay" /\ client.at = "preparing" /\ client.msg.type = "interrupt"
    /\ LET rid == client.msg.rid
       IN  IF ~MayRequestInterrupt(cont, rid) /\ ~Passthrough THEN Quit("1002", None)
           ELSE /\ cont' = IF MayRequestInterrupt(cont, rid) THEN RequestInterrupt(cont) ELSE cont
                /\ client' = Resting
                /\ UNCHANGED <<world, stage, opening, stale, inputs, delivery, ops, upstreamHalf,
                               sent, exit>>

\* finalize_frame has written the observations: the last checks, and the send.
SendCreate ==
    /\ stage = "relay" /\ client.at = "sending"
    /\ \/ world.faults /\ ~Passthrough /\ Quit("failure", Advice(delivery))
       \/ delivery.retired /\ Quit("failure", Advice(delivery))
       \/ ~delivery.retired /\ (IF MayActivate(cont, "public") THEN Attempt ELSE Quit("1008", None))

\* ------------------------------------------------------------ upstream_to_client
MayRead == stage = "relay" /\ reading = None /\ (inbound.retired => inbound.failed # None)

\* The part of a stream after an error: only what belongs to the failed response passes.
ReadTail(k, ev, d) ==
    LET failed == inbound.failed
        same == IF Passthrough THEN failed.gen = d.gen ELSE failed.op = Len(ops)
        belongs == \/ failed.rid # None /\ failed.rid = ev.rid
                   \/ failed.rid = None /\ same /\ ev.type = "failed"
                   \/ same /\ ev.type = "error"
        footer == ev.type = "failed"
    IN  IF ~belongs THEN End("failure", Advice(d)) /\ UNCHANGED <<frames, owed>>
        ELSE /\ delivery' = d
             /\ inbound' = [inbound EXCEPT !.retired = TRUE, !.failed = IF footer THEN None ELSE @]
             /\ reading' = [step |-> IF Passthrough THEN "send" ELSE "translate", ev |-> ev,
                            of |-> k, op |-> failed.op, tail |-> TRUE,
                            ends |-> IF footer /\ same THEN failed.gen ELSE None]
             /\ UNCHANGED <<world, stage, opening, stale, inputs, cont, ops, client, exit>>

\* An event of the running response: the continuation observes it, and an error that is not
\* final freezes the operation until its footer or the deadline.
ReadFresh(k, ev, d) ==
    LET waits == ev.type = "error" /\ ~ev.status
        now == Len(ops)
        e == MarkResponseObserved(d)
    IN  IF waits /\ ~Passthrough /\ ~ops[now].live
        THEN End("failure", Advice(e)) /\ UNCHANGED <<frames, owed>>
        ELSE /\ cont' = ObserveServerEvent(cont, ev)
             /\ delivery' = e
             /\ inbound' = [retired |-> d.retired,
                            rid |-> IF ev.type = "created" THEN ev.rid
                                    ELSE IF Terminal(ev) THEN None ELSE inbound.rid,
                            failed |-> IF ~waits THEN None
                                       ELSE [op |-> now, gen |-> d.gen, rid |-> inbound.rid]]
             /\ ops' = IF waits /\ ~Passthrough THEN [ops EXCEPT ![now].live = FALSE] ELSE ops
             /\ reading' = [step |-> IF Passthrough THEN "send" ELSE "translate", ev |-> ev,
                            of |-> k, op |-> now, tail |-> waits,
                            ends |-> IF Terminal(ev) /\ ~waits THEN d.gen ELSE None]
             /\ UNCHANGED <<world, stage, opening, stale, inputs, client, exit>>

\* Inbound::translate up to its await: a failure retires the stream before anything else.
ReadEvent ==
    /\ MayRead
    /\ \E k \in DOMAIN sent, template \in world.events :
           /\ MaySay(k, template)
           /\ LET ev == Named(template, k)
                  stopsWell == cont.active # None /\ Completes(cont.active.intr, ev)
                  fails == ev.type \in {"error", "failed"} \/ (ev.type = "incomplete" /\ ~stopsWell)
                  d == IF fails THEN Retire(delivery) ELSE delivery
              IN  /\ sent' = Told(k, ev)
                  /\ IF inbound.failed # None THEN ReadTail(k, ev, d) ELSE ReadFresh(k, ev, d)

\* translate_event_with_compaction, translate_sse_value: the identity transaction and the context
\* store take the event, or the stream ends.
Translate ==
    /\ stage = "relay" /\ reading # None /\ reading.step = "translate"
    /\ LET op == ops[reading.op]
           ev == reading.ev
           next == IF reading.tail THEN [op EXCEPT !.rid = IF ev.rid # None THEN ev.rid ELSE @]
                   ELSE Observed(op, ev)
       IN  \E valid \in {IF reading.tail THEN ValidTail(op, ev)
                         ELSE ValidEvent(op, ev) /\ Observable(op, ev)} :
           \/ (~valid \/ world.faults) /\ Quit("failure", Advice(delivery))
           \/ /\ valid /\ reading' = [reading EXCEPT !.step = "send"]
              /\ ops' = [ops EXCEPT ![reading.op] = next]
              /\ UNCHANGED <<world, stage, opening, stale, inputs, cont, delivery, inbound, client,
                             sent, exit>>

\* The event goes to the client, which may act on it before the tracker is told.
Send ==
    /\ stage = "relay" /\ reading # None /\ reading.step = "send"
    /\ \/ world.faults /\ Quit("complete", None)
       \/ /\ reading' = [reading EXCEPT !.step = "sent"]
          /\ owed' = (owed /\ ~Terminal(reading.ev))
          /\ sent' = [sent EXCEPT ![reading.of].ended = @ \/ Terminal(reading.ev)]
          /\ UNCHANGED <<world, stage, opening, stale, pending, frames, cont, delivery, inbound, ops,
                         client, exit>>

Settle ==
    /\ stage = "relay" /\ reading # None /\ reading.step = "sent"
    /\ delivery' = IF reading.ends = None THEN delivery ELSE MarkTerminal(delivery, reading.ends)
    /\ reading' = None
    /\ UNCHANGED <<world, stage, opening, stale, inputs, cont, inbound, ops, client, sent, exit>>

\* The upstream closes, breaks, or says what cannot be read.  Its close passes through while
\* nothing is under way.
UpstreamEnds ==
    /\ MayRead /\ world.drops
    /\ \E how \in {"close", "lost"} \cup IF Passthrough THEN {} ELSE {"junk"} :
           IF how = "close" /\ Advice(delivery) = "safe" THEN Quit("complete", None)
           ELSE Quit("failure", Advice(IF how = "junk" THEN MarkResponseObserved(delivery)
                                       ELSE delivery))

\* Mutant: the wait for a footer has no deadline.
TailEndsLate ==
    /\ stage = "relay" /\ reading = None /\ inbound.retired /\ inbound.failed = None
    /\ Quit("failure", Advice(delivery))

\* next: nothing is read after a failure, but for the footer until the deadline.
TailEnds ==
    /\ stage = "relay" /\ reading = None /\ inbound.retired
    /\ Quit("failure", Advice(delivery))

\* The context store, over its budget or past the time it keeps histories, takes the bodies or
\* the baseline: its sweeper and every other socket come here, at any moment.
Pressure ==
    /\ stage = "relay" /\ world.tight
    /\ cont' \in {AbandonBodies(cont), [cont EXCEPT !.baseline = None]} \ {cont}
    /\ UNCHANGED <<world, stage, opening, stale, inputs, delivery, ops, client, upstreamHalf,
                   sent, exit>>

\* The vault changes under the socket.
Rotate ==
    /\ world.rotates /\ stage # "closed"
    /\ \E what \in {"token", "fingerprint"} : stale' = {what} /\ stale = {}
    /\ UNCHANGED <<world, stage, opening, inputs, cont, delivery, ops, client, upstreamHalf,
                   sent, exit>>

Next ==
    \/ FirstMessage \/ Admit \/ Unauthorized \/ ConnectFails \/ Connected
    \/ StartSetup \/ SetupEvent \/ SetupBroken \/ DeferredMessage \/ PlanFirst
    \/ VerifyFirst \/ GateMessage \/ SendFirst \/ ClientMessage \/ Check
    \/ PrepareFails \/ PrepareCreate \/ SendInterrupt \/ SendCreate
    \/ ReadEvent \/ Translate \/ Send \/ Settle \/ UpstreamEnds \/ TailEnds
    \/ Pressure \/ Rotate

\* The steps of the deferred connection, of the half that reads the client and of the one that
\* reads the upstream.
Deferred == \/ Admit \/ Unauthorized \/ ConnectFails \/ Connected \/ StartSetup \/ SetupBroken
            \/ PlanFirst \/ VerifyFirst \/ SendFirst
ClientHalf == Check \/ PrepareFails \/ PrepareCreate \/ SendInterrupt \/ SendCreate
UpstreamHalf == Translate \/ Send \/ Settle

\* The core's own steps are taken: its connects and setups end by a timeout, its halves are
\* polled, its timer runs.  Nothing is assumed of the client, the upstream or the vault.
Fairness == WF_vars(Deferred) /\ WF_vars(ClientHalf) /\ WF_vars(UpstreamHalf) /\ WF_vars(TailEnds)

Spec == Init /\ [][Next]_vars /\ Fairness

\* ------------------------------------------------------------------- properties
\* failure, mark_terminal: a socket that ends with the advice that a retry is safe leaves no
\* create behind that the upstream received and whose end the client has not been sent.
AdviceIsHonest ==
    (exit # None /\ exit.advice = "safe") =>
        \A k \in DOMAIN sent : sent[k].kind = "public" => sent[k].ended

\* Inbound::translate: an event that settles a create for the client is an event of that create.
TerminalsAreOwn ==
    (reading # None /\ reading.ends # None) =>
        sent[reading.of].kind = "public" /\ sent[reading.of].gen = reading.ends

\* The output of a response as the upstream told it.
DoneItems(s) ==
    LET add(f, ev) == IF ev.type # "done" THEN f
                      ELSE ((IF ev.idx # None THEN ev.idx ELSE Cardinality(DOMAIN f))
                                :> ev.item) @@ f
    IN  FoldLeft(add, <<>>, s.told)
FinalOutput(s) == LET last == Last(s.told)
                  IN  IF Populated(last.out) THEN last.out ELSE InOrder(DoneItems(s))

\* plan_public_create_with_state: a create that is sent as an addition to an earlier response
\* builds on one the same connection completed for the same thread and properties, and that
\* response's input and output and the addition are together the input the client asked for.
IncrementalIsComplete ==
    \A k \in DOMAIN sent :
        sent[k].prev # None =>
            LET p == sent[sent[k].prev]
                whole == p.create.input \o FinalOutput(p) \o sent[k].input
            IN  /\ p.conn = sent[k].conn /\ Last(p.told).type \in {"completed", "incomplete"}
                /\ p.create.thread = sent[k].create.thread /\ p.create.props = sent[k].create.props
                /\ whole = sent[k].create.input

ItemId(ev) == IF ev.item # None THEN ev.item.id ELSE ev.id
SameItem(e, f) == \/ e.idx # None /\ e.idx = f.idx
                  \/ ItemId(e) # None /\ ItemId(e) = ItemId(f)

Passed == reading # None /\ ~Passthrough /\ reading.step # "translate"
Events(s) == {s.told[i] : i \in DOMAIN s.told}

\* Every item the upstream began was finished by an event of its own or is in the final output.
Whole(told, out) ==
    \A e \in told :
        e.type \in {"added", "delta"} =>
            \/ \E f \in told : f.type = "done" /\ SameItem(e, f)
            \/ e.idx # None /\ e.idx + 1 \in DOMAIN out
            \/ \E i \in DOMAIN out : ItemId(e) # None /\ out[i].id = ItemId(e)

\* What an interruption discarded is neither finished nor part of the output.
DiscardedStaysOut(told, out) ==
    \A e \in told :
        e.type = "interrupted" => /\ \A f \in told : f.type = "done" => ~SameItem(e, f)
                                  /\ \A i \in DOMAIN out : out[i].id # e.id

\* validate_completed, ensure_not_discarded, validate_interrupted: a response the client is told
\* was completed is whole, and what an interruption discarded never reaches the client.
OutputIsSound ==
    Passed =>
        LET told == Events(sent[reading.of])
            out == IF Populated(reading.ev.out) THEN reading.ev.out ELSE <<>>
        IN  /\ reading.ev.type = "completed" => Whole(told, out)
            /\ ~delivery.retired => DiscardedStaysOut(told, out)

\* retire, is_retired, FAILURE_TAIL: once a response has failed no create is sent on its stream,
\* and the stream is closed, whatever the upstream and the client do.
RetiredStreamCloses ==
    /\ [][delivery.retired => Len(sent') = Len(sent)]_vars
    /\ LET open == delivery.retired /\ stage # "closed"
       IN  open ~> ~open
=============================================================================
