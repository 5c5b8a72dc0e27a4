--------------------------- MODULE ResponseStream ---------------------------
(***************************************************************************)
(* One HTTP response of the core, from the upstream's headers to the end   *)
(* of the body it hands to the coordinator (response_stream.rs,            *)
(* response_sse_reader.rs, response_sse_translation.rs,                    *)
(* response_aggregation.rs, response_failure.rs).  A successful answer to  *)
(* a subscription request is translated event by event, or, when the       *)
(* client did not ask for a stream, read to its end and made into one JSON *)
(* body.  The answer to an API key's request passes as it is.              *)
(*                                                                         *)
(* Events are those of OutputLifecycle, with five more types: heartbeat (a *)
(* comment, or an event without a data line), blank (an empty data line),  *)
(* DONE, garbage (no JSON) and oversize (more than the reader keeps).  The *)
(* status of an error or of a failed response says that it is of the Flex  *)
(* category, that of a completed one contradicts it.  Time passes in ticks, and a deadline is kept as the age it   *)
(* is compared with, capped at its timeout.                                *)
(***************************************************************************)
EXTENDS ResponseOperation

CONSTANTS
    Requests,                  \* the requests and upstreams to consider: records with
                               \*   sse, identity: a stream was asked for; a subscription
                               \*   rejected: the status is no success
                               \*   comp: a compaction that must produce a compaction item
                               \*   faults: the state store fails, a result is too large
                               \*   limit: output_bytes, in events that aggregation may keep
                               \*   endless: the upstream sends more than limit events
                               \*   slow: time passes while it does
                               \*   chunk: the events that come in one read; cuts: a read may
                               \*   end within an event; events: what the upstream sends
    IdleTicks, OutputTicks,    \* SseTimeouts: idle and output_idle (300 s each)
    TailTicks                  \* SseTimeouts: terminal_tail (1 s)

\* What an event carries (see OutputLifecycle).
IsEvent(ev) == ev = [type |-> ev.type, rid |-> ev.rid, idx |-> ev.idx, item |-> ev.item,
                     id |-> ev.id, out |-> ev.out, status |-> ev.status]

ASSUME RequestsAssumption ==
    \A r \in Requests : /\ r.sse \in BOOLEAN /\ r.identity \in BOOLEAN /\ r.faults \in BOOLEAN
                        /\ r.chunk \in Nat /\ \A ev \in r.events : IsEvent(ev)

VARIABLES
    http,       \* the request, one of Requests
    reply,      \* headers, rejected, stream, aggregate, passing, over, dropped
    reader,     \* SseReader
    trans,      \* TranslationState
    lease,      \* its context's operation, whether that was completed, and whether the store
                \* keeps the response
    bytes,      \* what aggregation makes of the events read so far
    said,       \* history: the kinds of frame the coordinator was sent
    after       \* history: <<x, y>> when a y was sent after an x

streamVars == <<http, reply, reader, trans, lease, bytes, said, after>>

Ends == {"completed", "failed", "incomplete"}
IsFlexEvent(ev) == ev.type \in {"error", "failed"} /\ ev.status
Silent(ev) == ev.type \in {"heartbeat", "blank", "DONE"}

\* ------------------------------------------------------------------ SseReader
\* end: None while the upstream is read.  queue: received and not yet framed.  part: the event
\* whose beginning is in the buffer.
NewReader == [end |-> None, queue |-> <<>>, part |-> None, idle |-> 0, output |-> 0, tail |-> None]

Closed(r, why) == [r EXCEPT !.end = why, !.queue = <<>>, !.part = None]

Reads == reply \in {"stream", "aggregate"} /\ ~trans.finished

\* deadline: the tail's once an end was read, else the earlier of the other two.
Due == reader.end = None /\ IF reader.tail # None THEN reader.tail = TailTicks
                            ELSE reader.idle = IdleTicks \/ reader.output = OutputTicks

\* Mutant: whatever the upstream sends is progress.
AnythingIsProgress(ev) == TRUE

\* sse_progress::classify, is_output: a payload, not a status.
IsOutput(ev) == ev.type = "delta" \/ (ev.type = "done" /\ ~ev.item.open)

TakeEvent(r, ev) ==
    IF Silent(ev) THEN r
    ELSE [r EXCEPT !.idle = 0, !.output = IF IsOutput(ev) THEN 0 ELSE @,
                   !.tail = IF @ = None /\ ev.type \in Ends THEN 0 ELSE @]

\* ----------------------------------------------------------- what is sent
Say(kinds) == /\ said' = said \cup kinds
              /\ after' = after \cup (said \X kinds)
Quiet == UNCHANGED <<said, after>>

\* The operation is given back; what it did to the store stays.
Released(l) == [l EXCEPT !.op = None]

\* fail: the trailers say that the stream broke.
Fail(l) == /\ Say({"trailers"})
           /\ trans' = [trans EXCEPT !.finished = TRUE, !.tail = None]
           /\ lease' = Released(l)

\* finish_failure: the end that an error announced, made by the core.
FinishFailure ==
    /\ Say({"failed"})
    /\ trans' = [trans EXCEPT !.finished = TRUE, !.tail = None, !.pending = FALSE]
    /\ lease' = Released(lease)

\* ----------------------------------------------------------- translate_event
NewTranslation == [finished |-> FALSE, terminal |-> FALSE, footer |-> FALSE, pending |-> FALSE,
                   tail |-> None, life |-> NoOutput]

FailedFooter(ev) == trans.footer /\ ev.type = "failed"
FirstError(ev) == ev.type = "error" /\ ~trans.terminal

\* detach_sse_failure leaves what the footer is checked against.
FailureTail(ev) == IF FirstError(ev) THEN lease.op ELSE trans.tail
UsesTail(ev) == (FailedFooter(ev) \/ ev.type = "error") /\ FailureTail(ev) # None

Lifecycle(ev) == Observe(trans.life, ev, MaxItems, FALSE)

Accepts(ev) ==
    /\ ev.type # "garbage"
    /\ trans.terminal => ~IsOutputEvent(ev) /\ (ev.type \in Ends => FailedFooter(ev))
    /\ FirstError(ev) => lease.op.live
    /\ ~Lifecycle(ev).broken
    /\ ev.type = "completed" => CompletedProves(Lifecycle(ev), ev)
    /\ IF UsesTail(ev) THEN ValidTail(FailureTail(ev), ev)
       ELSE ValidEvent(lease.op, ev) /\ Observable(lease.op, ev)

\* The tail keeps the first response id that it checked.
CheckedTail(ev) == LET tail == FailureTail(ev)
                   IN  IF UsesTail(ev) /\ tail.rid = None THEN [tail EXCEPT !.rid = ev.rid] ELSE tail

Translated(ev) ==
    LET footer == ~FailedFooter(ev) /\ ~IsFlexEvent(ev) /\ (trans.footer \/ FirstError(ev))
    IN  [trans EXCEPT !.life = Lifecycle(ev), !.footer = footer,
                      !.terminal = @ \/ Terminal(ev),
                      !.pending = ~FailedFooter(ev) /\ (@ \/ (ev.type = "error" /\ footer)),
                      !.tail = IF footer THEN CheckedTail(ev) ELSE None,
                      !.finished = IsFlexEvent(ev)]

\* The frames that the properties tell apart.
Kind(ev) ==
    IF IsOutputEvent(ev) THEN {"output"}
    ELSE IF ev.type = "error" THEN {IF IsFlexEvent(ev) THEN "flex" ELSE "error"}
    ELSE {ev.type} \cap Ends

\* Mutant: [DONE] passes whatever came before it.
NothingWithheld == FALSE

\* [DONE] would make a client stop before the end that is still to come.
DoneWithheld == trans.pending

\* translate_response, observe: what the context store makes of an event that is accepted.
Taken(ev) ==
    LET op == Observed(lease.op, ev)
        ends == lease.op.live /\ ev.type = "completed"
    IN  IF UsesTail(ev) THEN [lease EXCEPT !.op.live = FALSE]
        ELSE [op |-> op, completed |-> lease.completed \/ ends,
              published |-> lease.published \/ (ends /\ Publishes(op, ev))]

\* An event may also fail because the state store does, or when the store has taken it already
\* and the rewritten frame is too large to be sent.
TranslateEvent(ev, r) ==
    IF Silent(ev)
    THEN /\ UNCHANGED <<trans, lease>> /\ reader' = r
         /\ IF ev.type = "DONE" /\ ~DoneWithheld THEN Say({"DONE"}) ELSE Quiet
    ELSE \/ /\ Accepts(ev) /\ trans' = Translated(ev) /\ lease' = Taken(ev)
            /\ reader' = IF IsFlexEvent(ev) THEN Closed(r, "closed") ELSE r
            /\ Say(Kind(ev))
         \/ /\ ~Accepts(ev) \/ http.faults
            /\ Fail(lease) \/ (Accepts(ev) /\ Fail(Taken(ev)))
            /\ reader' = Closed(r, "closed")

\* ---------------------------------------------------------- aggregation.rs
\* Aggregation keeps the bytes of all events and goes over them twice when they are complete;
\* here the result of going over them is kept instead.
NoBytes == [size |-> 0, bad |-> FALSE, terminal |-> None, output |-> <<>>, life |-> NoOutput,
            op |-> None]

\* Mutant: what follows the end is ignored.
AfterTheEndIgnored(b, ev) == FALSE

\* An output or another end after the end.
AfterTheEnd(b, ev) == b.terminal # None /\ (IsOutputEvent(ev) \/ ev.type \in Ends)

\* prepare_terminal passes to the operation what it must know before the end.
Prepared(op, ev) ==
    IF op = None \/ ev.type \notin {"created", "metadata", "done"} THEN op
    ELSE IF ValidEvent(op, ev) /\ Observable(op, ev) THEN Observed(op, ev) ELSE None

\* One event of terminal_response_from_sse, and of prepare_terminal.
Aggregated(b, ev) ==
    LET life == Observe(b.life, ev, MaxItems, FALSE)
        at == IF ev.idx # None THEN ev.idx ELSE Cardinality(DOMAIN b.output)
        kept == b.terminal = None /\ ev.type = "done"
    IN  IF b.bad \/ ev.type \in {"heartbeat", "DONE"} THEN [b EXCEPT !.size = @ + 1]
        ELSE IF \/ ev.type \in {"garbage", "blank", "error"} \/ AfterTheEnd(b, ev) \/ life.broken
                \/ (kept /\ at \in DOMAIN b.output /\ b.output[at] # ev.item)
             THEN [NoBytes EXCEPT !.size = b.size + 1, !.bad = TRUE]
        ELSE [b EXCEPT !.size = @ + 1, !.life = life,
                       !.output = IF kept THEN (at :> ev.item) @@ @ ELSE @,
                       !.op = IF b.terminal = None THEN Prepared(@, ev) ELSE @,
                       !.terminal = IF ev.type \in Ends THEN ev ELSE @]

\* The end, with the finished items when it does not repeat them; None when it is not valid.
TerminalResponseFromSse(b) ==
    LET end == b.terminal
    IN  IF end = None THEN None
        ELSE IF \/ end.type = "completed" /\ ~CompletedProves(b.life, end)
                \/ ~TerminalAgrees(end.out, b.output, TRUE) THEN None
        ELSE [end EXCEPT !.out = IF Populated(@) THEN @ ELSE InOrder(b.output)]

PrepareTerminal(b) ==
    LET end == TerminalResponseFromSse(b)
    IN  IF end = None \/ b.op = None THEN None
        ELSE IF ValidEvent(b.op, end) /\ Observable(b.op, end) THEN end ELSE None

\* ------------------------------------------------------------------- actions
StreamInit ==
    /\ http \in Requests
    /\ reply = "headers" /\ reader = NewReader /\ trans = NewTranslation
    /\ lease = [op |-> IF http.identity THEN NewOperation(http) ELSE None,
                completed |-> FALSE, published |-> FALSE]
    /\ bytes = [NoBytes EXCEPT !.op = NewOperation(http)] /\ said = {} /\ after = {}

\* normalized_upstream_failure: an error envelope instead of a body.
Refuse(l) == /\ reply' = "over" /\ lease' = Released(l) /\ Say({"refused"})

\* build_http_response.
BuildHttpResponse ==
    /\ reply = "headers"
    /\ reply' = IF ~http.identity THEN "passing"
                ELSE IF http.rejected THEN "rejected"
                ELSE IF http.sse THEN "stream" ELSE "aggregate"
    /\ UNCHANGED <<http, reader, trans, lease, bytes, said, after>>

\* A subscription's 401 stays after the retries (server_http), the routing token is not stored, or
\* filtered_provider_headers fails.
HeadersRefused ==
    /\ reply = "headers"
    /\ http.faults \/ (http.rejected /\ http.identity)
    /\ Refuse(lease) /\ UNCHANGED <<http, reader, trans, bytes>>

\* classify_http: one category has to reach a client that reads a stream as a failed response;
\* the others, and a body that is late, large or broken, are an error envelope.
ClassifyHttp ==
    /\ reply = "rejected"
    /\ \/ Refuse(lease)
       \/ /\ http.sse /\ reply' = "over" /\ lease' = Released(lease) /\ Say({"failed"})
    /\ UNCHANGED <<http, reader, trans, bytes>>

\* ------------------------------------------------------------------ next_event
UpstreamSends == http.endless \/ bytes.size < http.limit

\* Bytes from the upstream: whole events, the beginning of one, or the rest of it.
Receive ==
    /\ Reads /\ reader.end = None /\ reader.queue = <<>> /\ ~Due /\ UpstreamSends
    /\ \/ /\ reader.part = None
          /\ \E evs \in UNION {[1..n -> http.events] : n \in 1..http.chunk} :
                reader' = [reader EXCEPT !.queue = evs]
       \/ /\ reader.part = None /\ http.cuts
          /\ \E ev \in http.events \ {e \in http.events : Silent(e)} :
                reader' = [reader EXCEPT !.part = ev]
       \/ /\ reader.part # None
          /\ reader' = [reader EXCEPT !.queue = <<reader.part>>, !.part = None]
    /\ UNCHANGED <<http, reply, trans, lease, bytes, said, after>>

\* The upstream's body ends.
Eof ==
    /\ Reads /\ reader.end = None /\ reader.queue = <<>> /\ ~Due
    /\ reader' = [reader EXCEPT !.end = "eof"]
    /\ UNCHANGED <<http, reply, trans, lease, bytes, said, after>>

\* After the end of the response the upstream is read for a while; what came stays.
TailClosed ==
    /\ Reads /\ Due /\ reader.tail # None
    /\ reader' = [reader EXCEPT !.end = "tail"]
    /\ UNCHANGED <<http, reply, trans, lease, bytes, said, after>>

\* append_bounded, and the same events of a translated stream as far as they are compared.
Keep(ev) == bytes' = IF bytes.size < http.limit THEN Aggregated(bytes, ev) ELSE bytes

\* An event for whoever reads: the translation, or the buffer of the aggregation.
Consume(ev, r) ==
    /\ UNCHANGED <<http>> /\ Keep(ev)
    /\ IF reply = "stream" THEN TranslateEvent(ev, r) /\ UNCHANGED reply
       ELSE /\ UNCHANGED trans
            /\ IF IsFlexEvent(ev) \/ bytes.size = http.limit
               THEN Refuse(lease) /\ reader' = Closed(r, "closed")
               ELSE UNCHANGED <<reply, lease, said, after>> /\ reader' = r

NextEvent ==
    /\ Reads /\ ~Due /\ reader.queue # <<>> /\ Head(reader.queue).type # "oversize"
    /\ LET ev == Head(reader.queue)
       IN  Consume(ev, TakeEvent([reader EXCEPT !.queue = Tail(@)], ev))

\* The buffer that is left at the end is an event if its data is whole.
LastEvent ==
    /\ Reads /\ reader.end # None /\ reader.queue = <<>> /\ reader.part # None
    /\ \E ev \in {reader.part, [reader.part EXCEPT !.type = "garbage"]} :
          /\ ev.type # "oversize"
          /\ Consume(ev, TakeEvent([reader EXCEPT !.part = None], ev))

\* SseReadError.  Only one that is no matter of size leaves a pending failure to be told.
ReadFails(large) ==
    /\ reader' = Closed(reader, "error")
    /\ UNCHANGED <<http, bytes>>
    /\ IF reply = "aggregate" THEN Refuse(lease) /\ UNCHANGED trans
       ELSE /\ UNCHANGED reply
            /\ \/ trans.pending /\ ~large /\ FinishFailure
               \/ (~trans.pending \/ large \/ http.faults) /\ Fail(lease)

TimedOut == Reads /\ Due /\ reader.tail = None /\ ReadFails(FALSE)
TooLarge == /\ Reads /\ ~Due /\ reader.queue # <<>> /\ Head(reader.queue).type = "oversize"
            /\ ReadFails(TRUE)
UpstreamBreaks == Reads /\ ~Due /\ reader.end = None /\ reader.queue = <<>> /\ ReadFails(FALSE)

Exhausted == reader.end # None /\ reader.queue = <<>> /\ reader.part = None

\* The end of what is read: a stream that has not said how it ended is broken.
EndOfEvents ==
    /\ Reads /\ reply = "stream" /\ Exhausted
    /\ UNCHANGED <<http, bytes>>
    /\ \/ /\ trans.pending
          /\ FinishFailure \/ (http.faults /\ Fail(lease))
          /\ reader' = Closed(reader, "closed") /\ UNCHANGED reply
       \/ /\ ~trans.pending /\ ~trans.terminal
          /\ Fail(lease) /\ reader' = Closed(reader, "closed") /\ UNCHANGED reply
       \/ /\ ~trans.pending /\ trans.terminal
          /\ reply' = "over" /\ lease' = Released(lease) /\ trans' = [trans EXCEPT !.tail = None]
          /\ UNCHANGED <<reader, said, after>>

\* The stream was ended by its last frame.
Finished ==
    /\ reply = "stream" /\ trans.finished
    /\ reply' = "over" /\ lease' = Released(lease)
    /\ UNCHANGED <<http, reader, trans, bytes, said, after>>

\* What the context store makes of the end of an aggregated response.
TakenAtOnce(end) ==
    [lease EXCEPT !.completed = end.type = "completed",
                  !.published = end.type = "completed" /\ Publishes(Observed(bytes.op, end), end)]

\* build_non_streaming_response, once everything is read.  The body it makes may be too large,
\* which is found when the store has the response already.
Aggregate ==
    /\ Reads /\ reply = "aggregate" /\ Exhausted
    /\ LET end == PrepareTerminal(bytes)
       IN  \/ /\ end # None /\ Say({end.type})
              /\ reply' = "over" /\ lease' = Released(TakenAtOnce(end))
           \/ (end = None \/ http.faults) /\ Refuse(lease)
           \/ end # None /\ http.faults /\ Refuse(TakenAtOnce(end))
    /\ UNCHANGED <<http, reader, trans, bytes>>

\* The body of an API key's response.
Pass ==
    /\ reply = "passing"
    /\ \/ Say({"trailers"}) /\ reply' = "over"
       \/ Quiet /\ reply' = "over"
    /\ lease' = Released(lease)
    /\ UNCHANGED <<http, reader, trans, bytes>>

\* The coordinator goes away: the body, or the handler that makes it, is dropped.
DropResponse ==
    /\ reply \in {"rejected", "stream", "aggregate", "passing"}
    /\ reply' = "dropped" /\ lease' = Released(lease)
    /\ reader' = Closed(reader, "closed") /\ trans' = [trans EXCEPT !.tail = None]
    /\ UNCHANGED <<http, bytes, said, after>>

Older(age, timeout) == IF age = None \/ age = timeout THEN age ELSE age + 1

Tick ==
    /\ Reads /\ reader.end = None /\ ~Due /\ http.slow
    /\ reader' = [reader EXCEPT !.idle = Older(@, IdleTicks), !.output = Older(@, OutputTicks),
                                !.tail = Older(@, TailTicks)]
    /\ UNCHANGED <<http, reply, trans, lease, bytes, said, after>>

Poll == \/ BuildHttpResponse \/ ClassifyHttp \/ TailClosed \/ NextEvent \/ LastEvent
        \/ EndOfEvents \/ Finished \/ Aggregate \/ TimedOut \/ TooLarge

StreamNext == \/ BuildHttpResponse \/ HeadersRefused \/ ClassifyHttp \/ Receive \/ Eof
              \/ TailClosed \/ NextEvent \/ LastEvent \/ TimedOut \/ TooLarge \/ UpstreamBreaks
              \/ EndOfEvents \/ Finished \/ Aggregate \/ Pass \/ DropResponse \/ Tick

\* The coordinator reads the body until it ends or closes it, so that the body is polled, and
\* time passes whatever the upstream sends.
StreamFairness == WF_streamVars(Poll) /\ WF_streamVars(Tick)

StreamSpec == StreamInit /\ [][StreamNext]_streamVars /\ StreamFairness

\* ---------------------------------------------------------------- properties
EndsOrFlex == Ends \cup {"flex"}

\* translate_event, finish_failure, fail: a stream is ended by one end, after which no output
\* comes.  After an error only a failed response can be that end, and [DONE] waits for it.
\* Nothing follows a Flex error or the trailers, and a stream without trailers has told its
\* end.  A client is told that a response was completed only when that was the end of a live
\* operation.  Whatever the context store keeps for later requests was told as completed, or its
\* carrier broke: never as a failed or an incomplete response.  The operation and its reservation
\* are given back with the response.
OneHonestEnd ==
    /\ \A x, y \in Ends : <<x, y>> \notin after
    /\ \A x \in EndsOrFlex \cup {"error"} : <<x, "output">> \notin after
    /\ \A x \in {"completed", "incomplete"} : <<"error", x>> \notin after
    /\ <<"error", "DONE">> \in after => \E x \in Ends : <<x, "DONE">> \in after
    /\ \A x \in {"flex", "trailers", "refused"} : \A y \in said : <<x, y>> \notin after
    /\ (reply = "over" /\ http.identity /\ {"trailers", "refused"} \cap said = {})
           => EndsOrFlex \cap said # {}
    /\ "completed" \in said => lease.completed
    /\ lease.published => /\ {"completed", "trailers", "refused"} \cap said # {}
                          /\ {"failed", "incomplete"} \cap said = {}
    /\ reply \in {"over", "dropped"} => lease.op = None /\ trans.tail = None

\* terminal_response_from_sse, translate_event: the same events make a completed response
\* whether the client asked for a stream or for one body, and the context store keeps it for
\* either or for none.
CarriersAgree ==
    (/\ reply = "over" /\ http.identity /\ http.sse /\ ~http.faults /\ reader.end # "error"
     /\ bytes.size < http.limit /\ \A ev \in http.events : ev.type # "blank")
    => LET end == PrepareTerminal(bytes)
           whole == "completed" \in said /\ {"error", "flex", "trailers"} \cap said = {}
       IN  /\ whole <=> end # None /\ end.type = "completed"
           /\ whole => lease.published = Publishes(Observed(bytes.op, end), end)

\* next_event: a response that makes no progress, or has told its end, does not stay open,
\* whatever else its upstream sends; nor does one whose upstream never sends output.
StreamEnds ==
    LET mute == \A ev \in http.events : ev.type \notin {"delta", "done"}
        stalled == /\ reply \in {"stream", "aggregate"}
                   /\ \/ trans.finished \/ reader.output > 0
                      \/ http.slow /\ (mute \/ reader.tail # None)
    IN  stalled ~> ~stalled
=============================================================================
