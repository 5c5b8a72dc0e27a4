-------------------------- MODULE HttpStreamProofs --------------------------
(***************************************************************************)
(* Theorems about one HTTP response in the coordinator, for any timeouts,  *)
(* any set of events and any way of cutting them into reads.               *)
(***************************************************************************)
EXTENDS HttpStream, TLAPS

\* How long a leaf may take.
USE SMTT(60), ZenonT(60)

Chunks == [event: AllEvents \cup {None}, got: Amounts]

\* Type correctness.  The ages never pass the timeouts they serve.
TypeOK ==
    /\ pc \in {"forward", "open", "inspect", "inspectStop", "inspectJoin", "enable", "wakeEnable",
               "read", "observe", "wakeObserve", "write", "writeJoin", "stop", "join", "done"}
    /\ ctxDone \in BOOLEAN /\ upstream \in {"open", "closed"} /\ response \in Responses
    /\ chunk \in Chunks /\ readErr \in {None, "eof", "error"}
    /\ mode \in {"sse", "detect", "json"} /\ pending \in Chunks
    /\ terminal \in {None, "error", "completed"}
    /\ outcome \in {None, "completed", "upstream_error", "client_disconnected"}
    /\ gpc \in {"off", "check", "select", "abort", "exited"}
    /\ reason \in {None, "tail", "idle", "outputIdle", "firstOutput", "canceled"}
    /\ watchOutput \in BOOLEAN /\ hasOutput \in BOOLEAN
    /\ ageEvent \in 0..Idle /\ ageOutput \in 0..OutputIdle
    /\ ageTerminal \in {NotYet} \cup 0..Tail
    /\ wake \in BOOLEAN /\ done \in BOOLEAN /\ timer \in Nat
    /\ failureRead \in BOOLEAN

\* A failure that was forwarded is in the observer: taken, or in its buffer with all its data.
FailureIsSeen ==
    failureRead => \/ terminal = "error"
                   \/ pending.got = "data" /\ pending.event \in {"failed", "error"}

\* A completed row is the handler's last step, and the guard was joined before it.
CompletedIsLast == outcome = "completed" => pc = "done" /\ gpc = "exited"

\* The handler's returns, and a second guard, find no watcher running: stop joins it.
WatcherIsJoined ==
    /\ pc = "forward" => gpc = "off"
    /\ pc \in {"open", "done"} => gpc \in {"off", "exited"}

IInv ==
    /\ TypeOK /\ FailureIsSeen /\ CompletedIsLast /\ CompletedIsWhole /\ GuardIsCurrent
    /\ WatcherIsJoined
-----------------------------------------------------------------------------

LEMMA InitInv == ASSUME Init PROVE IInv
<1> USE ConstantsAssumption
<1>1. TypeOK
  <2>1. response \in Responses
    BY Zenon DEF Init, NoResponse, Responses, None
  <2>2. chunk \in Chunks /\ pending \in Chunks
    BY Zenon DEF Init, NoChunk, Chunks, AllEvents, Amounts, None
  <2>3. /\ ageEvent \in 0..Idle /\ ageOutput \in 0..OutputIdle
        /\ ageTerminal \in {NotYet} \cup 0..Tail /\ timer \in Nat
    BY DEF Init, NotYet
  <2> QED
    BY ZenonT(60), <2>1, <2>2, <2>3 DEF Init, TypeOK, None
<1>2. FailureIsSeen
  BY ZenonT(60) DEF Init, FailureIsSeen
<1>4. CompletedIsLast /\ CompletedIsWhole
  <2>1. outcome # "completed"
    BY Zenon DEF Init, None
  <2> QED
    BY <2>1, ZenonT(60) DEF CompletedIsLast, CompletedIsWhole
<1>3. GuardIsCurrent /\ WatcherIsJoined
  BY Zenon DEF Init, GuardIsCurrent, WatcherIsJoined
<1> QED
  BY Zenon, <1>1, <1>2, <1>3, <1>4 DEF IInv

\* What the guard computes under the mutex.
LEMMA RemainingIsInt ==
    ASSUME TypeOK
    PROVE  /\ Remaining \in Int
           /\ DeadlineReason \in {"tail", "idle", "outputIdle", "firstOutput"}
  BY ConstantsAssumption
     DEF TypeOK, Remaining, DeadlineReason, OutputFirst, IdleLeft, OutputLeft, NotYet

\* A tick brings the deadline that counts one tick nearer, as long as it has not passed.
LEMMA TickRemaining ==
    ASSUME TypeOK, Tick, Remaining > 0
    PROVE  Remaining' = Remaining - 1
<1> USE ConstantsAssumption DEF NotYet
<1>1. UNCHANGED watchOutput
  BY Zenon DEF Tick
<1>2. CASE ageTerminal # NotYet
  <2>1. ageTerminal < Tail /\ ageTerminal \in 0..Tail
    BY <1>2 DEF TypeOK, Remaining
  <2>2. ageTerminal' = Older(ageTerminal, Tail)
    BY Zenon, <1>2 DEF Tick
  <2>3. ageTerminal' = ageTerminal + 1
    BY Zenon, <2>1, <2>2 DEF Older
  <2>4. Remaining = Tail - ageTerminal
    BY Zenon, <1>2 DEF Remaining
  <2>5. ageTerminal' # NotYet
    BY <2>1, <2>3
  <2>6. Remaining' = Tail - ageTerminal'
    BY Zenon, <2>5 DEF Remaining
  <2> QED
    BY <2>1, <2>3, <2>4, <2>6
<1>3. CASE ageTerminal = NotYet
  <2>1. ageTerminal' = NotYet
    BY Zenon, <1>3 DEF Tick
  <2>2. IdleLeft > 0 /\ (watchOutput => OutputLeft > 0)
    BY <1>3 DEF TypeOK, Remaining, OutputFirst, IdleLeft, OutputLeft
  <2>3. IdleLeft' = IdleLeft - 1 /\ (watchOutput => OutputLeft' = OutputLeft - 1)
    BY <2>2 DEF TypeOK, Tick, Older, IdleLeft, OutputLeft
  <2>4. IdleLeft \in Int /\ OutputLeft \in Int
    BY DEF TypeOK, IdleLeft, OutputLeft
  <2>5. OutputFirst' = OutputFirst
    BY <1>1, <2>3, <2>4 DEF OutputFirst
  <2> QED
    BY Zenon, <1>3, <2>1, <2>3, <2>5 DEF Remaining, OutputFirst
<1> QED
  BY Zenon, <1>2, <1>3
-----------------------------------------------------------------------------
(* The type invariant.                                                      *)

LEMMA TypeGuard ==
    ASSUME TypeOK, GuardStep \/ Tick PROVE TypeOK'
<1> USE DEF handler, fields, guard
<1>1. CASE GuardCheck
  <2>1. Remaining > 0 => Remaining \in Nat
    BY RemainingIsInt
  <2>2. DeadlineReason \in {"tail", "idle", "outputIdle", "firstOutput"}
    BY Zenon, RemainingIsInt
  <2>3. Remaining \in Int
    BY Zenon, RemainingIsInt
  <2> QED
    BY <1>1, <2>1, <2>2, <2>3 DEF GuardCheck, TypeOK
<1>2. ASSUME NEW next \in {"exited", "check", "abort"}, NEW why \in {reason, "canceled"},
             gpc' = next, reason' = why, timer' = 0, wake' \in BOOLEAN,
             UNCHANGED <<handler, ctxDone, watchOutput, hasOutput, ageEvent, ageOutput, ageTerminal, done>>
      PROVE  TypeOK'
  BY <1>2 DEF TypeOK
<1>5. CASE GuardDone
  BY <1>2, <1>5 DEF GuardDone, Select, TypeOK
<1>6. CASE GuardWoken
  <2>1. wake' \in BOOLEAN
    BY ZenonT(60), <1>6 DEF GuardWoken
  <2> QED
    BY Zenon, <1>2, <1>6, <2>1 DEF GuardWoken, Select
<1>7. CASE GuardTimeout
  BY <1>2, <1>7 DEF GuardTimeout, Select, TypeOK
<1>8. CASE GuardCanceled
  BY <1>2, <1>8 DEF GuardCanceled, Select, TypeOK
<1>3. CASE GuardAbort
  BY <1>3 DEF GuardAbort, TypeOK
<1>4. CASE Tick
  <2>1. timer' \in Nat
    BY <1>4 DEF Tick, GuardDue, TypeOK
  <2>2. /\ ageEvent' \in 0..Idle /\ ageOutput' \in 0..OutputIdle
        /\ ageTerminal' \in {NotYet} \cup 0..Tail
    BY <1>4, ConstantsAssumption DEF Tick, Older, TypeOK, NotYet
  <2> QED
    BY <1>4, <2>1, <2>2 DEF Tick, TypeOK
<1> QED
  BY Zenon, <1>1, <1>3, <1>4, <1>5, <1>6, <1>7, <1>8 DEF GuardStep

LEMMA NewGuardType ==
    ASSUME NewGuard
    PROVE  /\ gpc' \in {"off", "check", "select", "abort", "exited"}
           /\ reason' \in {None, "tail", "idle", "outputIdle", "firstOutput", "canceled"}
           /\ watchOutput' \in BOOLEAN /\ hasOutput' \in BOOLEAN
           /\ ageEvent' \in 0..Idle /\ ageOutput' \in 0..OutputIdle
           /\ ageTerminal' \in {NotYet} \cup 0..Tail
           /\ wake' \in BOOLEAN /\ done' \in BOOLEAN /\ timer' \in Nat
<1>1. /\ ageEvent' \in 0..Idle /\ ageOutput' \in 0..OutputIdle
      /\ ageTerminal' \in {NotYet} \cup 0..Tail /\ timer' \in Nat
  BY ConstantsAssumption DEF NewGuard
<1>2. /\ watchOutput' \in BOOLEAN /\ hasOutput' \in BOOLEAN
      /\ wake' \in BOOLEAN /\ done' \in BOOLEAN
  BY ZenonT(60) DEF NewGuard
<1> QED
  BY Zenon, <1>1, <1>2 DEF NewGuard

LEMMA TypeHandler ==
    ASSUME TypeOK, Next, ~(GuardStep \/ Tick) PROVE TypeOK'
<1> USE DEF handler, fields, guard
<1> SUFFICES ASSUME ~UNCHANGED vars PROVE TypeOK'
  BY Zenon DEF TypeOK, vars
<1>1. ASSUME Record(outcome'), outcome' \in {"completed", "upstream_error", "client_disconnected"},
             response' \in Responses,
             UNCHANGED <<chunk, readErr, mode, pending, terminal, failureRead, ctxDone, guard>>
      PROVE  TypeOK'
  BY <1>1 DEF Record, TypeOK
<1>2. CASE Forward
  <2>1. CASE Record(Gone) /\ UNCHANGED <<response, mode, guard>>
    BY Zenon, <1>1, <1>2, <2>1 DEF Forward, Record, Gone, TypeOK
  <2>2. ASSUME NEW status \in {"ok", "error"}, NEW m \in Modes,
               response' = [response EXCEPT !.status = status], mode' = m,
               UNCHANGED <<outcome, upstream, chunk, readErr, pending, terminal, failureRead, ctxDone>>
        PROVE  /\ response' \in Responses /\ mode' \in {"sse", "detect", "json"}
               /\ UNCHANGED <<outcome, upstream, chunk, readErr, pending, terminal, failureRead, ctxDone>>
    BY Zenon, <2>2, ConstantsAssumption DEF TypeOK, Responses
  <2>3. ASSUME response' \in Responses, mode' \in {"sse", "detect", "json"},
               UNCHANGED <<outcome, upstream, chunk, readErr, pending, terminal, failureRead, ctxDone>>,
               pc' = "open", UNCHANGED guard
        PROVE  TypeOK'
    BY <2>3 DEF TypeOK
  <2>4. ASSUME response' \in Responses, mode' \in {"sse", "detect", "json"},
               UNCHANGED <<outcome, upstream, chunk, readErr, pending, terminal, failureRead, ctxDone>>,
               pc' = "inspect", NewGuard
        PROVE  TypeOK'
    BY <2>4, NewGuardType DEF TypeOK
  <2> QED
    BY Zenon, <1>2, <2>1, <2>2, <2>3, <2>4 DEF Forward
<1>3. ASSUME NEW isCoreError \in BOOLEAN, Inspect(isCoreError) PROVE TypeOK'
  BY <1>3 DEF Inspect, TypeOK, Responses
<1>4. CASE InspectStop \/ WriteFails \/ StopStream
  BY ZenonT(60), <1>4 DEF InspectStop, WriteFails, StopStream, Stop, TypeOK
<1>5. CASE InspectJoin
  <2>1. CASE pc' = "open" /\ UNCHANGED <<outcome, upstream>>
    BY <1>5, <2>1 DEF InspectJoin, TypeOK
  <2> QED
    BY Zenon, <1>1, <1>5, <2>1 DEF InspectJoin, Record, TypeOK
<1>6. CASE Open
  BY <1>6, NewGuardType DEF Open, TypeOK
<1>7. CASE EnableOutputDeadline
  BY <1>7 DEF EnableOutputDeadline, TypeOK
<1>8. CASE WakeEnable \/ WakeObserve
  BY ZenonT(60), <1>8 DEF WakeEnable, WakeObserve, Wake, TypeOK
<1>9. CASE Observe
  <2>1. hasOutput' \in BOOLEAN
    BY Zenon, <1>9 DEF Observe
  <2>2. /\ ageEvent' \in 0..Idle /\ ageOutput' \in 0..OutputIdle
        /\ ageTerminal' \in {NotYet} \cup 0..Tail
    BY <1>9, ConstantsAssumption DEF Observe, TypeOK
  <2> QED
    BY <1>9, <2>1, <2>2 DEF Observe, TypeOK
<1>10. CASE Write
  <2>1. NoChunk \in Chunks
    BY Zenon DEF NoChunk, Chunks, Amounts
  <2> QED
    BY <1>10, <2>1 DEF Write, TypeOK
<1>11. CASE WriteJoin \/ ReadJoin
  <2>1. \A result, f, t : TerminalStatus(result, f, t)
                            \in {"completed", "upstream_error", "client_disconnected"}
    BY Zenon DEF TerminalStatus
  <2>2. ASSUME NEW here, NEW result, JoinStream(here, result) PROVE TypeOK'
    <3>1. PICK f, t \in BOOLEAN :
             /\ response' = [response EXCEPT !.failedHeader = f, !.trailers = t]
             /\ Record(TerminalStatus(result, f, t))
      BY ZenonT(60), <2>2 DEF JoinStream
    <3>2. response' \in Responses
      BY ZenonT(60), <3>1 DEF TypeOK, Responses
    <3> QED
      BY Zenon, <1>1, <2>1, <2>2, <3>1, <3>2 DEF JoinStream, Record
  <2> QED
    BY Zenon, <1>11, <2>2 DEF WriteJoin, ReadJoin
<1>12. ASSUME NEW c \in [event: Events, got: Pieces], NEW err \in {None, "eof"}, Read(c, err)
       PROVE  TypeOK'
  <2>1. c \in Chunks /\ NoChunk \in Chunks /\ [c EXCEPT !.got = "data"] \in Chunks
    BY Zenon, ConstantsAssumption DEF Chunks, NoChunk, Amounts
  <2>2. pending' \in Chunks
    <3>1. pending' \in {NoChunk, c, [c EXCEPT !.got = "data"]}
      BY Zenon, <1>12, <2>1 DEF Read, Observed, Chunks
    <3> QED
      BY Zenon, <2>1, <3>1
  <2>3. terminal' \in {None, "error", "completed"}
    BY Zenon, <1>12 DEF Read, Observed, TerminalAfter, TypeOK
  <2>4. mode' \in {"sse", "detect", "json"}
    BY Zenon, <1>12 DEF Read, Observed, TypeOK
  <2>5. failureRead' \in BOOLEAN
    BY Zenon, <1>12 DEF Read
  <2>6. pc' \in {"enable", "observe"}
    BY Zenon, <1>12 DEF Read
  <2> QED
    BY <1>12, <2>1, <2>2, <2>3, <2>4, <2>5, <2>6 DEF Read, TypeOK
<1>13. ASSUME NEW err \in {"eof", "error"}, ReadEnd(err) PROVE TypeOK'
  <2>1. NoChunk \in Chunks
    BY Zenon DEF NoChunk, Chunks, Amounts
  <2> QED
    BY <1>13, <2>1 DEF ReadEnd, TypeOK
<1>14. CASE ClientLeaves
  BY <1>14 DEF ClientLeaves, TypeOK
<1> QED
  BY ZenonT(60), <1>2, <1>3, <1>4, <1>5, <1>6, <1>7, <1>8, <1>9, <1>10, <1>11, <1>12, <1>13, <1>14
     DEF Next, HandlerStep, CoreStep, Returned
LEMMA TypeStep == ASSUME TypeOK, [Next]_vars PROVE TypeOK'
<1>1. CASE UNCHANGED vars
  BY <1>1 DEF TypeOK, vars, handler, fields, guard
<1> QED
  BY Zenon, <1>1, TypeGuard, TypeHandler

-----------------------------------------------------------------------------
(* The guard's timer.                                                       *)

\* What changes a deadline tells the guard before the handler goes on.
LEMMA GuardKept == ASSUME TypeOK, GuardIsCurrent, [Next]_vars PROVE GuardIsCurrent'
<1> USE DEF handler, fields, guard
<1>1. ASSUME UNCHANGED <<fields, gpc, timer, wake>>,
             pc' \in {"wakeEnable", "wakeObserve"} \/ pc \notin {"wakeEnable", "wakeObserve"}
      PROVE  GuardIsCurrent'
  <2>1. Remaining' = Remaining
    BY Zenon, <1>1 DEF Remaining, OutputFirst, IdleLeft, OutputLeft
  <2> QED
    BY Zenon, <1>1, <2>1 DEF GuardIsCurrent
<1>2. CASE GuardCheck
  <2>1. Remaining' = Remaining
    BY Zenon, <1>2 DEF GuardCheck, Remaining, OutputFirst, IdleLeft, OutputLeft
  <2> QED
    BY Zenon, <1>2, <2>1 DEF GuardCheck, GuardIsCurrent
<1>3. CASE GuardDone \/ GuardWoken \/ GuardTimeout \/ GuardCanceled
  BY Zenon, <1>3 DEF GuardDone, GuardWoken, GuardTimeout, GuardCanceled, Select, GuardIsCurrent
<1>4. CASE GuardAbort
  BY Zenon, <1>4 DEF GuardAbort, GuardIsCurrent
<1>5. CASE Tick
  <2> SUFFICES ASSUME gpc = "select", ~wake, pc \notin {"wakeEnable", "wakeObserve"}
               PROVE  timer' = Remaining'
    BY Zenon, <1>5 DEF Tick, GuardIsCurrent
  <2>1. timer = Remaining
    BY Zenon DEF GuardIsCurrent
  <2>2. timer' = timer - 1 /\ timer # 0
    BY Zenon, <1>5 DEF Tick, GuardDue
  <2>3. Remaining > 0
    BY <2>1, <2>2 DEF TypeOK
  <2>4. Remaining' = Remaining - 1
    BY Zenon, <1>5, <2>3, TickRemaining
  <2> QED
    BY Zenon, <2>1, <2>2, <2>4
<1>6. CASE Forward
  <2>1. CASE UNCHANGED guard
    BY Zenon, <1>1, <1>6, <2>1 DEF Forward
  <2>2. CASE NewGuard
    BY Zenon, <2>2 DEF NewGuard, GuardIsCurrent
  <2> QED
    BY Zenon, <1>6, <2>1, <2>2 DEF Forward
<1>7. CASE Open
  BY Zenon, <1>7 DEF Open, NewGuard, GuardIsCurrent
<1>8. CASE EnableOutputDeadline
  BY Zenon, <1>8 DEF EnableOutputDeadline, GuardIsCurrent
<1>9. CASE WakeEnable \/ WakeObserve
  BY Zenon, <1>9 DEF WakeEnable, WakeObserve, Wake, GuardIsCurrent
<1>10. CASE Observe
  <2>1. CASE Progress \/ Output \/ Terminal
    BY Zenon, <1>10, <2>1 DEF Observe, GuardIsCurrent
  <2>2. CASE ~(Progress \/ Output \/ Terminal)
    <3>1. UNCHANGED <<ageEvent, ageOutput, ageTerminal>>
      BY Zenon, <1>10, <2>2 DEF Observe
    <3>2. hasOutput' = hasOutput
      BY Zenon, <1>10, <2>2 DEF Observe, TypeOK
    <3> QED
      BY Zenon, <1>1, <1>10, <3>1, <3>2 DEF Observe
  <2> QED
    BY Zenon, <2>1, <2>2
<1>11. CASE InspectStop \/ WriteFails \/ StopStream
  BY Zenon, <1>1, <1>11 DEF InspectStop, WriteFails, StopStream, Stop
<1>12. CASE InspectJoin
  BY Zenon, <1>1, <1>12 DEF InspectJoin
<1>13. CASE WriteJoin \/ ReadJoin
  BY ZenonT(60), <1>1, <1>13 DEF WriteJoin, ReadJoin, JoinStream
<1>14. ASSUME NEW isCoreError, Inspect(isCoreError) PROVE GuardIsCurrent'
  BY Zenon, <1>1, <1>14 DEF Inspect
<1>15. ASSUME NEW c, NEW err, Read(c, err) \/ ReadEnd(err) PROVE GuardIsCurrent'
  BY Zenon, <1>1, <1>15 DEF Read, ReadEnd
<1>16. CASE Write
  BY Zenon, <1>1, <1>16 DEF Write
<1>17. CASE UNCHANGED vars
  BY Zenon, <1>1, <1>17 DEF vars
<1>18. CASE ClientLeaves
  BY Zenon, <1>1, <1>18 DEF ClientLeaves
<1> QED
  BY ZenonT(60), <1>2, <1>3, <1>4, <1>5, <1>6, <1>7, <1>8, <1>9, <1>10, <1>11, <1>12, <1>13, <1>14, <1>15, <1>16,
     <1>17, <1>18 DEF Next, GuardStep, HandlerStep, CoreStep, Returned
-----------------------------------------------------------------------------
(* What is recorded.                                                        *)

\* Only a read tells the observer anything.
LEMMA FailureKept == ASSUME TypeOK, FailureIsSeen, [Next]_vars PROVE FailureIsSeen'
<1> USE DEF handler, fields, guard
<1>1. ASSUME UNCHANGED <<failureRead, terminal, pending>> PROVE FailureIsSeen'
  BY Zenon, <1>1 DEF FailureIsSeen
<1>2. ASSUME NEW c \in [event: Events, got: Pieces], NEW err, Read(c, err)
      PROVE  FailureIsSeen'
  <2> DEFINE sse == mode \in {"sse", "detect"}
             fails == c.got \in {"data", "all"} /\ c.event \in {"failed", "error"}
  <2>1. c \in Chunks
    BY Zenon, ConstantsAssumption DEF Chunks
  <2>2. CASE terminal = "error"
    BY Zenon, <1>2, <2>2 DEF Read, Observed, TerminalAfter, FailureIsSeen
  <2>3. ASSUME failureRead' PROVE terminal = "error" \/ fails
    <3>1. CASE failureRead /\ terminal # "error"
      <4>1. pending.got = "data" /\ pending.event \in {"failed", "error"}
        BY Zenon, <3>1 DEF FailureIsSeen
      <4>2. pending.event = c.event /\ Rank("data") < Rank(c.got)
        BY <1>2, <4>1 DEF Read, Bytes, NoChunk, None
      <4>3. Rank("head") = 1 /\ Rank("part") = 2 /\ Rank("data") = 3
        BY DEF Rank, Parts
      <4>4. c.got = "all"
        BY <2>1, <4>2, <4>3 DEF Chunks, Amounts
      <4> QED
        BY Zenon, <4>1, <4>2, <4>4
    <3> QED
      BY ZenonT(60), <1>2, <2>3, <3>1 DEF Read
  <2>4. CASE fails /\ terminal # "error" /\ sse /\ c.got = "all"
    BY Zenon, <1>2, <2>4 DEF Read, Observed, TerminalAfter, FailureIsSeen
  <2>5. CASE fails /\ ~(sse /\ c.got = "all")
    <3>1. pending' = [c EXCEPT !.got = IF c.got = "all" THEN "data" ELSE c.got]
      BY Zenon, <1>2, <2>5 DEF Read, Observed
    <3> QED
      BY Zenon, <2>1, <2>5, <3>1 DEF FailureIsSeen, Chunks
  <2> QED
    BY Zenon, <2>2, <2>3, <2>4, <2>5 DEF FailureIsSeen
<1>3. CASE GuardStep
  BY Zenon, <1>1, <1>3 DEF GuardStep, GuardCheck, GuardDone, GuardWoken, GuardTimeout, GuardCanceled, GuardAbort, Select
<1>4. CASE HandlerStep
  BY ZenonT(60), <1>1, <1>4 DEF HandlerStep, InspectStop, InspectJoin, Open, EnableOutputDeadline, WakeEnable, Observe,
     WakeObserve, Write, WriteFails, WriteJoin, StopStream, ReadJoin, Inspect, ReadEnd, Stop, Wake, JoinStream
<1>5. CASE CoreStep
  <2>1. CASE Forward
    BY Zenon, <1>1, <2>1 DEF Forward
  <2>2. ASSUME NEW b, Inspect(b) \/ ReadEnd(b) PROVE FailureIsSeen'
    BY Zenon, <1>1, <2>2 DEF Inspect, ReadEnd
  <2> QED
    BY Zenon, <1>2, <1>5, <2>1, <2>2 DEF CoreStep
<1>6. CASE Tick \/ ClientLeaves \/ UNCHANGED vars
  BY Zenon, <1>1, <1>6 DEF Tick, ClientLeaves, vars
<1> QED
  BY Zenon, <1>3, <1>4, <1>5, <1>6 DEF Next, Returned

\* A row that says completed was written by the last step of all.
LEMMA CompletedStays ==
    ASSUME TypeOK, CompletedIsLast, outcome = "completed", [Next]_vars
    PROVE  UNCHANGED vars
<1>1. pc = "done" /\ gpc = "exited"
  BY Zenon DEF CompletedIsLast
<1>2. ~GuardStep /\ ~Tick
  BY Zenon, <1>1 DEF GuardStep, GuardCheck, GuardDone, GuardWoken, GuardTimeout, GuardCanceled, GuardAbort, Select, Tick
<1>3. ~HandlerStep
  BY Zenon, <1>1 DEF HandlerStep, InspectStop, InspectJoin, Open, EnableOutputDeadline, WakeEnable, Observe,
     WakeObserve, Write, WriteFails, WriteJoin, StopStream, ReadJoin, Inspect, ReadEnd, Stop, Wake, JoinStream
<1>4. ~CoreStep /\ ~ClientLeaves
  BY Zenon, <1>1 DEF CoreStep, Forward, Inspect, Read, ReadEnd, ClientLeaves
<1> QED
  BY Zenon, <1>2, <1>3, <1>4 DEF Next, Returned

\* Only the join of a stream that was read records a completion.
LEMMA CompletedBy ==
    ASSUME TypeOK, [Next]_vars, outcome # "completed", outcome' = "completed"
    PROVE  ReadJoin
<1> USE DEF handler, fields, guard
<1>1. CASE outcome' = outcome
  BY Zenon, <1>1
<1>2. ~InspectJoin
  BY Zenon DEF InspectJoin, Record
<1>3. ~Forward
  BY Zenon DEF Forward, Record, Gone
<1>4. ~WriteJoin
  BY Zenon DEF WriteJoin, JoinStream, Record, TerminalStatus
<1>5. CASE HandlerStep
  BY Zenon, <1>1, <1>2, <1>4, <1>5 DEF HandlerStep, InspectStop, Open, EnableOutputDeadline, WakeEnable, Observe,
     WakeObserve, Write, WriteFails, StopStream, Inspect, ReadEnd, Stop, Wake
<1>6. CASE GuardStep
  BY Zenon, <1>1, <1>6 DEF GuardStep, GuardCheck, GuardDone, GuardWoken, GuardTimeout, GuardCanceled, GuardAbort, Select
<1>7. CASE CoreStep
  BY Zenon, <1>1, <1>3, <1>7 DEF CoreStep, Inspect, Read, ReadEnd
<1>8. CASE Tick \/ ClientLeaves \/ UNCHANGED vars
  BY Zenon, <1>1, <1>8 DEF Tick, ClientLeaves, vars
<1> QED
  BY Zenon, <1>5, <1>6, <1>7, <1>8 DEF Next, Returned

\* The table at the end of streamBody lets through only what is whole.
LEMMA JoinIsWhole ==
    ASSUME TypeOK, FailureIsSeen, ReadJoin, outcome' = "completed"
    PROVE  CompletedIsLast' /\ CompletedIsWhole'
<1> USE DEF handler, fields, guard
<1>1. PICK failedHeader \in BOOLEAN, trailers \in BOOLEAN :
        /\ response' = [response EXCEPT !.failedHeader = failedHeader, !.trailers = trailers]
        /\ Record(TerminalStatus(StreamOutcome, failedHeader, trailers))
  BY Zenon DEF ReadJoin, JoinStream
<1>2. UNCHANGED <<readErr, mode, pending, terminal, failureRead, reason, gpc>> /\ gpc = "exited" /\ pc' = "done"
  BY Zenon, <1>1 DEF ReadJoin, JoinStream, Joined, Record
<1>3. TerminalStatus(StreamOutcome, failedHeader, trailers) = "completed"
  BY Zenon, <1>1 DEF Record
<1>4. ~trailers /\ response.status # "error" /\ StreamOutcome \notin {"failed", "upstreamError", "disconnected"}
  BY Zenon, <1>3 DEF TerminalStatus
<1>5. StreamOutcome = ObservedOutcome /\ ObservedOutcome = "complete"
      /\ (readErr # "eof" => reason = "tail" /\ ~HasPendingSSEData)
  BY Zenon, <1>4 DEF StreamOutcome, ObservedOutcome
<1>6. ~failedHeader
  BY Zenon, <1>3, <1>5 DEF TerminalStatus
<1>7. Finished # "error" /\ (Streaming => Finished = "completed")
  BY Zenon, <1>5 DEF ObservedOutcome
<1>8. ~failureRead
  BY Zenon, <1>7 DEF Finished, FailureIsSeen, TerminalAfter
<1>9. response'.status # "error" /\ ~response'.failedHeader /\ ~response'.trailers
  BY Zenon, <1>1, <1>4, <1>6 DEF TypeOK, Responses
<1>10. Finished' = Finished /\ Streaming' = Streaming /\ HasPendingSSEData' = HasPendingSSEData
  BY Zenon, <1>2 DEF Finished, TerminalAfter, Streaming, HasPendingSSEData
<1> QED
  BY Zenon, <1>2, <1>5, <1>7, <1>8, <1>9, <1>10 DEF CompletedIsLast, CompletedIsWhole

LEMMA CompletedKept ==
    ASSUME TypeOK, FailureIsSeen, CompletedIsLast, CompletedIsWhole, [Next]_vars
    PROVE  CompletedIsLast' /\ CompletedIsWhole'
<1>1. CASE outcome' # "completed"
  BY Zenon, <1>1 DEF CompletedIsLast, CompletedIsWhole
<1>2. CASE outcome = "completed"
  <2>1. UNCHANGED vars
    BY Zenon, <1>2, CompletedStays
  <2> QED
    BY Zenon, <2>1 DEF CompletedIsLast, CompletedIsWhole, vars, handler, fields, guard, Finished, TerminalAfter,
       Streaming, HasPendingSSEData
<1> QED
  BY Zenon, <1>1, <1>2, CompletedBy, JoinIsWhole

LEMMA JoinedKept == ASSUME TypeOK, WatcherIsJoined, [Next]_vars PROVE WatcherIsJoined'
<1> USE DEF handler, fields, guard
<1>1. CASE GuardStep \/ Tick
  BY Zenon, <1>1 DEF GuardStep, GuardCheck, GuardDone, GuardWoken, GuardTimeout, GuardCanceled, GuardAbort, Select, Tick,
     WatcherIsJoined
<1>2. CASE Forward
  BY Zenon, <1>2 DEF Forward, NewGuard, Record, WatcherIsJoined
<1>3. CASE InspectJoin \/ WriteJoin \/ ReadJoin
  BY ZenonT(60), <1>3 DEF InspectJoin, WriteJoin, ReadJoin, JoinStream, Joined, Record, WatcherIsJoined
<1>4. CASE Open
  BY Zenon, <1>4 DEF Open, WatcherIsJoined
<1>5. CASE HandlerStep
  BY Zenon, <1>3, <1>4, <1>5 DEF HandlerStep, InspectStop, EnableOutputDeadline, WakeEnable, Observe, WakeObserve, Write,
     WriteFails, StopStream, Inspect, ReadEnd, Stop, Wake, WatcherIsJoined
<1>6. CASE CoreStep
  BY Zenon, <1>2, <1>6 DEF CoreStep, Inspect, Read, ReadEnd, WatcherIsJoined
<1>7. CASE ClientLeaves \/ UNCHANGED vars
  BY Zenon, <1>7 DEF ClientLeaves, vars, WatcherIsJoined
<1> QED
  BY Zenon, <1>1, <1>5, <1>6, <1>7 DEF Next, Returned
-----------------------------------------------------------------------------
(* Theorems.                                                                *)

\* IInv is inductive.
THEOREM Invariance == Spec => []IInv
<1>1. IInv /\ [Next]_vars => IInv'
  BY Zenon, TypeStep, GuardKept, FailureKept, CompletedKept, JoinedKept DEF IInv
<1> QED
  BY <1>1, InitInv, PTL DEF Spec

\* streamBody, serveHTTPResponses: whatever the core sends, however it is cut and
\* whichever timer fires, a row says completed only for a response that was whole.
THEOREM Completed == Spec => []CompletedIsWhole
<1>1. IInv => CompletedIsWhole
  BY Zenon DEF IInv
<1> QED
  BY <1>1, Invariance, PTL

\* httpStreamGuard: the watcher never waits on a deadline that has been moved.
THEOREM WakeIsNeverLost == Spec => []GuardIsCurrent
<1>1. IInv => GuardIsCurrent
  BY Zenon DEF IInv
<1> QED
  BY <1>1, Invariance, PTL

\* httpStreamGuard.stop: no watcher outlives its response, whichever way the handler
\* returns, and none is left when the next one is made.
THEOREM NoWatcherLeaks == Spec => []WatcherIsJoined
<1>1. IInv => WatcherIsJoined
  BY Zenon DEF IInv
<1> QED
  BY <1>1, Invariance, PTL
=============================================================================
