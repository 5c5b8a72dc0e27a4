----------------------------- MODULE HttpStream -----------------------------
(***************************************************************************)
(* One HTTP response on its way through the coordinator (serveHTTPResponses *)
(* and streamBody): the handler's copy loop, the usage observer it feeds,  *)
(* and the guard goroutine whose timers stop a stream that makes no        *)
(* progress (httpStreamGuard).  The guard and the loop share a mutex, a    *)
(* wake-up channel of capacity one, and the abort function.                *)
(*                                                                         *)
(* Time passes in ticks, while nothing of the guard is due.  The guard's   *)
(* time stamps are kept as ages, capped at the timeout they serve, so that *)
(* a stream may go on for ever.                                            *)
(***************************************************************************)
EXTENDS Integers

CONSTANTS
    Idle, OutputIdle, Tail, \* the guard's timeouts, in ticks (300 s, 300 s, 2 s)
    Events,                 \* kinds of event the core may send (see AllEvents)
    Pieces,                 \* how its events may be cut into reads (see Amounts)
    Modes                   \* how the body is observed: "sse", "detect" or "json"

\* output: nonempty text, reasoning, tool input, media or a finished item.  status:
\* any other data event that ends nothing.  error: a failure that is no SSETerminal.
\* heartbeat: a comment, an empty event or [DONE].  oversize: more than the observer keeps.
AllEvents == {"output", "status", "completed", "failed", "error", "heartbeat", "oversize"}

\* How much of an event has arrived: bytes before its data, a part of the data, the
\* data, or all of it with the blank line that ends it.
Parts == <<"head", "part", "data", "all">>
Amounts == {"head", "part", "data", "all"}

ASSUME ConstantsAssumption ==
    /\ Idle \in Nat \ {0} /\ OutputIdle \in Nat \ {0} /\ Tail \in Nat \ {0}
    /\ Events \subseteq AllEvents /\ Pieces \subseteq Amounts
    /\ Modes \subseteq {"sse", "detect", "json"}

VARIABLES
    pc,                       \* the handler
    ctxDone,                  \* the client's request context is cancelled
    upstream,                 \* the core's response body: open, closed by us
    response,                 \* what the core answered (see Responses)
    chunk, readErr,           \* the loop's last read
    mode, pending, terminal,  \* the observer
    outcome,                  \* what is recorded
    gpc, reason, watchOutput, hasOutput, ageEvent, ageOutput, ageTerminal, wake, done,
    timer,                    \* the guard: its fields, its channels, its timer
    failureRead               \* history: a failure was among what was forwarded

handler == <<pc, upstream, response, chunk, readErr, mode, pending, terminal, outcome,
             failureRead>>
fields == <<reason, watchOutput, hasOutput, ageEvent, ageOutput, ageTerminal>>
guard == <<gpc, fields, wake, done, timer>>

vars == <<handler, ctxDone, guard>>

None == "none"
NotYet == -1  \* firstTerminal is zero

\* What the core answered, as far as it has been looked at.  status: an error from 400 up;
\* coreError: the body is the core's own error envelope; failedHeader: the
\* terminal header of an aggregated failure; trailers: the failure trailers, which are
\* there once the body has been read to its end.
Responses == [status: {None, "ok", "error"}, coreError: BOOLEAN, failedHeader: BOOLEAN,
              trailers: BOOLEAN]
NoResponse == [status |-> None, coreError |-> FALSE, failedHeader |-> FALSE, trailers |-> FALSE]

NoChunk == [event |-> None, got |-> "head"]

Streaming == mode = "sse"

Init ==
    /\ pc = "forward" /\ ctxDone = FALSE /\ upstream = "open" /\ response = NoResponse
    /\ chunk = NoChunk /\ readErr = None /\ mode = "json" /\ pending = NoChunk /\ terminal = None
    /\ outcome = None /\ failureRead = FALSE
    /\ gpc = "off" /\ reason = None /\ watchOutput = FALSE /\ hasOutput = FALSE
    /\ ageEvent = 0 /\ ageOutput = 0 /\ ageTerminal = NotYet
    /\ wake = FALSE /\ done = FALSE /\ timer = 0

-----------------------------------------------------------------------------
(* The guard.                                                               *)

\* newHTTPStreamGuard.
NewGuard ==
    /\ gpc' = "check" /\ reason' = None /\ watchOutput' = FALSE /\ hasOutput' = FALSE
    /\ ageEvent' = 0 /\ ageOutput' = 0 /\ ageTerminal' = NotYet
    /\ wake' = FALSE /\ done' = FALSE /\ timer' = 0

\* Ticks left until the deadline that counts, and the reason it stands for.
IdleLeft == Idle - ageEvent
OutputLeft == OutputIdle - ageOutput
OutputFirst == watchOutput /\ OutputLeft < IdleLeft

Remaining ==
    IF ageTerminal # NotYet THEN Tail - ageTerminal
    ELSE IF OutputFirst THEN OutputLeft ELSE IdleLeft

DeadlineReason ==
    IF ageTerminal # NotYet THEN "tail"
    ELSE IF ~OutputFirst THEN "idle"
    ELSE IF hasOutput THEN "outputIdle" ELSE "firstOutput"

\* Under the mutex: a deadline that has passed is the reason to stop; otherwise the
\* timer is set to the next one.
GuardCheck ==
    /\ gpc = "check"
    /\ IF Remaining <= 0
       THEN gpc' = "abort" /\ reason' = DeadlineReason /\ UNCHANGED timer
       ELSE gpc' = "select" /\ timer' = Remaining /\ UNCHANGED reason
    /\ UNCHANGED <<handler, ctxDone, watchOutput, hasOutput, ageEvent, ageOutput, ageTerminal, wake, done>>

\* The select: stopped, woken, timed out or cancelled, whichever is ready; the timer is
\* stopped or set anew after it.
Select(case, next, why) ==
    /\ gpc = "select" /\ case /\ gpc' = next /\ reason' = why /\ timer' = 0
    /\ UNCHANGED <<handler, ctxDone, watchOutput, hasOutput, ageEvent, ageOutput, ageTerminal, done>>

GuardDone == Select(done, "exited", reason) /\ UNCHANGED wake
GuardWoken == Select(wake, "check", reason) /\ wake' = FALSE
GuardTimeout == Select(timer = 0, "check", reason) /\ UNCHANGED wake
GuardCanceled == Select(ctxDone, "abort", "canceled") /\ UNCHANGED wake

\* Mutant: the abort function closes nothing.
GuardAbortNothing ==
    gpc = "abort" /\ gpc' = "exited" /\ UNCHANGED <<handler, ctxDone, fields, wake, done, timer>>

\* closeUpstream unblocks a pending read.
GuardAbort ==
    /\ gpc = "abort" /\ gpc' = "exited" /\ upstream' = "closed"
    /\ UNCHANGED <<pc, response, chunk, readErr, mode, pending, terminal, outcome,
                    failureRead, ctxDone, fields, wake, done, timer>>

\* A deadline has passed, or the guard is told to end, and it has not answered yet.
GuardDue ==
    \/ gpc = "check" /\ Remaining <= 0
    \/ gpc = "select" /\ (timer = 0 \/ done \/ ctxDone)

Older(age, cap) == IF age < cap THEN age + 1 ELSE age

Tick ==
    /\ gpc \in {"check", "select"} /\ ~GuardDue
    /\ timer' = IF gpc = "select" THEN timer - 1 ELSE timer
    /\ ageEvent' = Older(ageEvent, Idle) /\ ageOutput' = Older(ageOutput, OutputIdle)
    /\ ageTerminal' = IF ageTerminal = NotYet THEN NotYet ELSE Older(ageTerminal, Tail)
    /\ UNCHANGED <<handler, ctxDone, gpc, reason, watchOutput, hasOutput, wake, done>>

-----------------------------------------------------------------------------
(* The observer.                                                            *)

\* Mutant: the last terminal event wins.
LastTerminal(event) ==
    IF event \in {"failed", "error"} THEN "error"
    ELSE IF event = "completed" THEN "completed" ELSE terminal

\* observeTerminal: a failure is never overwritten.
TerminalAfter(event) ==
    IF terminal = "error" THEN "error"
    ELSE IF event \in {"failed", "error"} THEN "error"
    ELSE IF event = "completed" THEN "completed" ELSE terminal

\* HasPendingSSEData.
HasPendingSSEData ==
    Streaming /\ pending.got \in {"part", "data"} /\ pending.event # "heartbeat"

\* The observer's finish: what is left in the buffer is taken for an event, if it parses.
Finished ==
    IF pending.got = "data" /\ pending.event # "oversize" THEN TerminalAfter(pending.event)
    ELSE terminal

\* observedStreamOutcome.
ObservedOutcome ==
    IF Finished = "error" THEN "failed"
    ELSE IF Streaming /\ Finished # "completed" THEN "upstreamError" ELSE "complete"

-----------------------------------------------------------------------------
(* The handler.                                                             *)

\* h.finish with the outcome, then the deferred closeUpstream.
Record(status) ==
    /\ pc' = "done" /\ outcome' = status /\ upstream' = "closed"

Gone == IF ctxDone THEN "client_disconnected" ELSE "upstream_error"

\* Forward answers, or fails.  All but 2xx is looked into first.
Forward ==
    /\ pc = "forward"
    /\ \/ \E status \in {"ok", "error"}, m \in Modes :
             /\ response' = [response EXCEPT !.status = status] /\ mode' = m
             /\ \/ status = "ok" /\ pc' = "open" /\ UNCHANGED guard
                \/ pc' = "inspect" /\ NewGuard
             /\ UNCHANGED <<outcome, upstream>>
       \/ Record(Gone) /\ UNCHANGED <<response, mode, guard>>
    /\ UNCHANGED <<chunk, readErr, pending, terminal, failureRead, ctxDone>>

\* detectCoreError reads a body that may be JSON to its end, or until it breaks.
Inspect(isCoreError) ==
    /\ pc = "inspect" /\ pc' = "inspectStop"
    /\ isCoreError => upstream = "open" /\ ~Streaming
    /\ response' = [response EXCEPT !.coreError = isCoreError]
    /\ UNCHANGED <<upstream, chunk, readErr, mode, pending, terminal, outcome, failureRead, ctxDone,
                    guard>>

\* guard.stop: done is closed ...
Stop(here, next) ==
    /\ pc = here /\ pc' = next /\ done' = TRUE
    /\ UNCHANGED <<upstream, response, chunk, readErr, mode, pending, terminal, outcome,
                    failureRead, ctxDone, gpc, fields, wake, timer>>

\* ... and the watcher is joined.
Joined == gpc = "exited"

InspectStop == Stop("inspectStop", "inspectJoin")

InspectJoin ==
    /\ pc = "inspectJoin" /\ Joined
    /\ \/ /\ reason # None
          /\ Record(IF reason = "canceled" THEN "client_disconnected" ELSE "upstream_error")
       \/ reason = None /\ response.coreError /\ Record("upstream_error")
       \/ reason = None /\ ~response.coreError /\ pc' = "open" /\ UNCHANGED <<outcome, upstream>>
    /\ UNCHANGED <<response, chunk, readErr, mode, pending, terminal, failureRead, ctxDone, guard>>

\* streamBody: the observer and the guard are created.
Open ==
    /\ pc = "open" /\ pc' = (IF Streaming THEN "enable" ELSE "read") /\ NewGuard
    /\ UNCHANGED <<upstream, response, chunk, readErr, mode, pending, terminal, outcome,
                    failureRead, ctxDone>>

\* enableOutputDeadline, under the mutex.
EnableOutputDeadline ==
    /\ pc = "enable" /\ pc' = "wakeEnable" /\ watchOutput' = TRUE
    /\ UNCHANGED <<upstream, response, chunk, readErr, mode, pending, terminal, outcome,
                    failureRead, ctxDone, gpc, reason, hasOutput, ageEvent, ageOutput, ageTerminal,
                    wake, done, timer>>

\* Mutant: the watcher is not told.
WakeNobody(here, next) ==
    /\ pc = here /\ pc' = next
    /\ UNCHANGED <<upstream, response, chunk, readErr, mode, pending, terminal, outcome,
                    failureRead, ctxDone, guard>>

\* A wake-up is left in the channel, unless one is there already.
Wake(here, next) ==
    /\ pc = here /\ pc' = next /\ wake' = TRUE
    /\ UNCHANGED <<upstream, response, chunk, readErr, mode, pending, terminal, outcome,
                    failureRead, ctxDone, gpc, fields, done, timer>>

WakeEnable == Wake("wakeEnable", IF chunk = NoChunk THEN "read" ELSE "observe")

\* The bytes of a read: an event, or more of the one that is pending.
Rank(got) == CHOOSE i \in 1..4 : Parts[i] = got
Bytes == {c \in [event: Events, got: Pieces] :
            pending = NoChunk \/ (pending.event = c.event /\ Rank(pending.got) < Rank(c.got))}

\* observer.Observe: a whole SSE event is taken; parts, and JSON bodies, are kept.  An
\* untyped body that looks like SSE becomes a stream.
Observed(c) ==
    LET sse == mode \in {"sse", "detect"}
        taken == sse /\ c.got = "all"
    IN
    /\ mode' = IF sse THEN "sse" ELSE mode
    /\ pending' = IF taken THEN NoChunk ELSE [c EXCEPT !.got = IF @ = "all" THEN "data" ELSE @]
    /\ terminal' = IF taken /\ c.event # "oversize" THEN TerminalAfter(c.event) ELSE terminal

\* body.Read with bytes, which may be the last ones.
Read(c, err) ==
    /\ pc = "read" /\ upstream = "open" /\ c \in Bytes
    /\ chunk' = c /\ readErr' = err /\ Observed(c)
    /\ pc' = IF mode' = "sse" /\ ~watchOutput THEN "enable" ELSE "observe"
    /\ failureRead' = (failureRead \/ (c.got \in {"data", "all"} /\ c.event \in {"failed", "error"}))
    /\ UNCHANGED <<upstream, response, outcome, ctxDone, guard>>

\* body.Read without bytes: the end, a broken connection, or our own close.
ReadEnd(err) ==
    /\ pc = "read"
    /\ upstream = "closed" => err = "error"
    /\ readErr' = err /\ chunk' = NoChunk /\ pc' = "stop"
    /\ UNCHANGED <<upstream, response, mode, pending, terminal, outcome, failureRead,
                    ctxDone, guard>>

\* What the last chunk means to the guard.
Whole(events) == Streaming /\ chunk.got = "all" /\ chunk.event \in events
Progress == ~Streaming \/ Whole(AllEvents \ {"heartbeat", "oversize"})
Output == Whole({"output"})
Terminal == ageTerminal # NotYet \/ Whole({"completed", "failed"})

TakesNote == reason = None

\* guard.observe, under the mutex; a guard that has made up its mind is left alone.
Observe ==
    /\ pc = "observe" /\ pc' = (IF Progress \/ Output \/ Terminal THEN "wakeObserve" ELSE "write")
    /\ ageEvent' = IF TakesNote /\ Progress THEN 0 ELSE ageEvent
    /\ ageOutput' = IF TakesNote /\ Output THEN 0 ELSE ageOutput
    /\ hasOutput' = (hasOutput \/ (TakesNote /\ Output))
    /\ ageTerminal' = IF TakesNote /\ Terminal /\ ageTerminal = NotYet THEN 0 ELSE ageTerminal
    /\ UNCHANGED <<upstream, response, chunk, readErr, mode, pending, terminal, outcome,
                    failureRead, ctxDone, gpc, reason, watchOutput, wake, done, timer>>

WakeObserve == Wake("wakeObserve", "write")

\* The chunk is written and flushed.
Write ==
    /\ pc = "write" /\ pc' = (IF readErr = None THEN "read" ELSE "stop") /\ chunk' = NoChunk
    /\ UNCHANGED <<upstream, response, readErr, mode, pending, terminal, outcome,
                    failureRead, ctxDone, guard>>

\* The client is gone or too slow: stop, abort, return.
WriteFails == Stop("write", "writeJoin")

StopStream == Stop("stop", "join")

\* Mutant: a tail that is cut off in the middle of an event still counts.
StreamOutcomeCut ==
    IF reason \in {"idle", "firstOutput", "outputIdle"} THEN "upstreamError"
    ELSE IF reason = "canceled" \/ (ctxDone /\ reason = None) THEN "disconnected"
    ELSE IF reason # "tail" /\ readErr # "eof" THEN "upstreamError"
    ELSE ObservedOutcome

\* The table at the end of streamBody.
StreamOutcome ==
    IF reason \in {"idle", "firstOutput", "outputIdle"} THEN "upstreamError"
    ELSE IF reason = "canceled" \/ (ctxDone /\ reason = None) THEN "disconnected"
    ELSE IF reason = "tail" /\ HasPendingSSEData THEN "upstreamError"
    ELSE IF reason # "tail" /\ readErr # "eof" THEN "upstreamError"
    ELSE ObservedOutcome

\* serveHTTPResponses turns it into the row's outcome; the terminal header, failure
\* trailers and failing statuses overrule.
TerminalStatus(result, failedHeader, trailers) ==
    LET failed == \/ trailers \/ (result = "complete" /\ failedHeader)
                  \/ result \in {"failed", "upstreamError"}
    IN IF failed THEN "upstream_error"
       ELSE IF result = "disconnected" THEN "client_disconnected"
       ELSE IF response.status = "error" THEN "upstream_error" ELSE "completed"

\* streamBody returns: after a failed write, or with what the guard and the observer say.
JoinStream(here, result) ==
    /\ pc = here /\ Joined
    /\ \E failedHeader, trailers \in BOOLEAN :
         /\ trailers => readErr = "eof"
         /\ response' = [response EXCEPT !.failedHeader = failedHeader, !.trailers = trailers]
         /\ Record(TerminalStatus(result, failedHeader, trailers))
    /\ UNCHANGED <<chunk, readErr, mode, pending, terminal, failureRead, ctxDone, guard>>

WriteJoin == JoinStream("writeJoin", "disconnected")

ReadJoin == JoinStream("join", StreamOutcome)

\* External: the client goes away, or its request context ends.
ClientLeaves ==
    /\ ~ctxDone /\ pc # "done" /\ ctxDone' = TRUE
    /\ UNCHANGED <<handler, guard>>

\* The handler has returned.
Returned == pc = "done" /\ UNCHANGED vars
-----------------------------------------------------------------------------

GuardStep == GuardCheck \/ GuardDone \/ GuardWoken \/ GuardTimeout \/ GuardCanceled \/ GuardAbort

\* What the handler does by itself: a write ends within its deadline, and reading a
\* closed body, or one whose request is cancelled, ends.
HandlerStep ==
    \/ InspectStop \/ InspectJoin \/ Open \/ EnableOutputDeadline \/ WakeEnable
    \/ Observe \/ WakeObserve \/ Write \/ WriteFails \/ WriteJoin \/ StopStream \/ ReadJoin
    \/ Streaming /\ Inspect(FALSE)
    \/ (upstream = "closed" \/ ctxDone) /\ (Inspect(FALSE) \/ ReadEnd("error"))

\* External: the core sends what it likes when it likes.
CoreStep ==
    \/ Forward
    \/ \E isCoreError \in BOOLEAN : Inspect(isCoreError)
    \/ \E c \in [event: Events, got: Pieces], err \in {None, "eof"} : Read(c, err)
    \/ \E err \in {"eof", "error"} : ReadEnd(err)

Next == GuardStep \/ HandlerStep \/ CoreStep \/ Tick \/ ClientLeaves \/ Returned

Spec == Init /\ [][Next]_vars

\* Goroutines run, a select that finds several cases ready takes each of them in the long
\* run, and time goes on however much the core sends.
Fairness ==
    /\ WF_vars(GuardStep) /\ SF_vars(GuardCanceled)
    /\ WF_vars(HandlerStep) /\ SF_vars(Tick)

FairSpec == Spec /\ Fairness
-----------------------------------------------------------------------------
(* Properties.                                                              *)

\* A request is recorded as completed only if the core's status, header and trailers
\* report no failure, nothing that was forwarded is a failure, a stream had its completion event, and closing the tail did
\* not cut an event in two.
CompletedIsWhole ==
    outcome = "completed" =>
        /\ response.status # "error" /\ ~response.failedHeader /\ ~response.trailers /\ ~failureRead
        /\ Streaming => Finished = "completed"
        /\ readErr # "eof" => reason = "tail" /\ ~HasPendingSSEData

\* No wake-up is lost: a guard that waits undisturbed waits for the deadline the
\* shared fields give at that moment.
GuardIsCurrent ==
    gpc = "select" /\ ~wake /\ pc \notin {"wakeEnable", "wakeObserve"} => timer = Remaining

\* A response that has begun ends, or goes on making progress: for a stream, output.
\* Status events, heartbeats and parts of events do not keep it alive.
EndsOrProgresses ==
    pc # "forward" ~> pc = "done" \/ (pc = "observe" /\ (Output \/ ~Streaming))
=============================================================================
