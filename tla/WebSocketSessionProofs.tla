----------------------- MODULE WebSocketSessionProofs -----------------------
(***************************************************************************)
(* Proofs about WebSocketSession, for every value of its constants.        *)
(*                                                                         *)
(* The argument: an operation whose row was started is in exactly one      *)
(* place (active, the failure tail, the hands of the core pump or of the   *)
(* run loop) until it is finished, and is in none afterwards (Ownership).  *)
(* That is inductive only together with where the program counters may be  *)
(* while an operation is in hand, and with the fact that the final sweep   *)
(* runs after cancellation (ControlInv), and with the isolation of the     *)
(* failure tail (TailInv).                                                 *)
(***************************************************************************)
EXTENDS WebSocketSession, TLAPS

\* How long a leaf may take.
USE SMTT(60), ZenonT(60)

\* The requests in each of the four places.
ActiveReq == IF active = None THEN {} ELSE {active.req}
FailedReq == IF failed = None THEN {} ELSE {failed.op.req}
CoreReq == IF taken.core = None THEN {} ELSE {taken.core.req}
RunReq == IF taken.run = None THEN {} ELSE {taken.run.req}
InHand == ActiveReq \cup FailedReq \cup CoreReq \cup RunReq

\* Started and unfinished is the same as being in exactly one place.
Ownership ==
    /\ ActiveReq \cap (FailedReq \cup CoreReq \cup RunReq) = {}
    /\ FailedReq \cap (CoreReq \cup RunReq) = {}
    /\ CoreReq \cap RunReq = {}
    /\ \A r \in Requests : r \in InHand <=> rows[r].status # "absent" /\ finishes[r] = 0
    /\ \A r \in Requests : finishes[r] <= 1
    /\ \A r \in Requests : finishes[r] = 1 => rows[r].status # "absent"

\* Where the goroutines are while an operation is in hand, and what the final
\* sweep has established.
CoreHolds == pc.core \in {"finishPrevious", "finishTaken", "finishFooter", "finishFooterLost"}
               \/ (pc.core \in {"status", "write"} /\ coreLocal.old)
RunHolds == pc.run \in {"finishExpired", "finishFailedFirst", "finishActive", "finishFailed"}
SweptFailed == {"finishFailed", "wait", "returned"}
SweptActive == {"finishActive", "takeFailed"} \cup SweptFailed

ControlInv ==
    /\ taken.core # None => CoreHolds
    /\ taken.run # None => RunHolds
    /\ pc.run \in SweptActive \cup {"takeActive"} => ctxDone
    /\ pc.run \in SweptActive => active = None
    /\ pc.run \in SweptFailed => failed = None
    /\ pc.run = "returned" => pc.core = "done" /\ pc.client = "done"

TailInv ==
    /\ FailureTailIsolated
    /\ pc.core = "detach" => retired

\* Usage comes from the operation's own response.
OwnUsage(op) == op.usage \in ResponseIds => op.responseID \in {op.usage, NoId}
BoundUsage(op) == op.usage \in ResponseIds => op.responseID = op.usage

UsageInv ==
    /\ active # None => BoundUsage(active)
    /\ failed # None => BoundUsage(failed.op)
    /\ taken.core # None => OwnUsage(taken.core)
    /\ taken.run # None => BoundUsage(taken.run)
    /\ pc.core \in {"observeCore", "observeEvent"} => ~coreLocal.old
    /\ pc.core \in {"status", "observeCore", "observeEvent"} /\ ~coreLocal.old =>
          ~OfOtherResponse(coreLocal.event)

IInv == TypeOK /\ Ownership /\ ControlInv /\ TailInv /\ UsageInv
-----------------------------------------------------------------------------
(* Type correctness.                                                        *)

USE DEF At, Goto, locked, exits, net, timing, locals, store, peers

\* What the helpers on operations return.
LEMMA OperationTypes ==
    ASSUME NEW op \in Operations, NEW event, event.id \in Ids, NEW terminal \in BOOLEAN
    PROVE  /\ WithUsage(op, event) \in Operations
           /\ WithEvent(op, event, terminal) \in Operations
           /\ [op EXCEPT !.ttfb = TRUE] \in Operations
           /\ [op EXCEPT !.interruptRequested = TRUE] \in Operations
<1>2. WithUsage(op, event) \in Operations
  BY Zenon DEF WithUsage, Operations
<1>3. WithEvent(op, event, terminal) \in Operations
  <2>1. op.responseID \in Ids /\ op.terminalPending \in BOOLEAN
    BY Zenon DEF Operations
  <2>2. (op.terminalPending \/ terminal) \in BOOLEAN
    BY Zenon
  <2>3. (IF op.responseID = NoId THEN event.id ELSE op.responseID) \in Ids
    BY Zenon, <2>1
  <2> QED
    BY <1>2, <2>2, <2>3, ZenonT(60) DEF WithEvent, Operations
<1>4. [op EXCEPT !.ttfb = TRUE] \in Operations
  BY ZenonT(60) DEF Operations
<1>5. [op EXCEPT !.interruptRequested = TRUE] \in Operations
  BY ZenonT(60) DEF Operations
<1> QED
  BY Zenon, <1>2, <1>3, <1>4, <1>5

LEMMA EventIds ==
    ASSUME NEW e \in ServerEvents \cup OpaqueFrames \cup {NoEvent}
    PROVE  e.id \in Ids
<1>1. CASE e \in ServerEvents
  BY Zenon, <1>1 DEF ServerEvents
<1>2. CASE e \in OpaqueFrames
  BY Zenon, <1>2 DEF OpaqueFrames, Ids
<1>3. CASE e = NoEvent
  BY Zenon, <1>3 DEF NoEvent, Ids
<1> QED
  BY Zenon, <1>1, <1>2, <1>3

LEMMA DeliveryAdvice == CurrentDeliveryFailure \in Metadata
BY Zenon DEF CurrentDeliveryFailure, Metadata

\* The steps shared by the goroutines.
LEMMA StepType ==
    ASSUME NEW p, NEW here, NEW next, TypeOK, Step(p, here, next), pc' \in Pcs
    PROVE  TypeOK'
BY DEF TypeOK, LockedType, SharedType, LocalType, StoreType, Step

LEMMA NotifyType ==
    ASSUME NEW p, NEW here, NEW event \in DeadlineEvents, NEW next, TypeOK,
           NotifyDeadline(p, here, event, next), pc' \in Pcs
    PROVE  TypeOK'
<1>1. deadlines' \in Seq(DeadlineEvents)
  BY DEF TypeOK, SharedType, NotifyDeadline
<1> QED
  BY <1>1 DEF TypeOK, LockedType, SharedType, LocalType, StoreType, NotifyDeadline

LEMMA FinishType ==
    ASSUME NEW p \in {"core", "run"}, NEW here, NEW status \in Statuses, NEW next, TypeOK,
           FinishOperation(p, here, status, next), pc' \in Pcs
    PROVE  TypeOK'
<1>1. taken' \in [core: MaybeOperation, run: MaybeOperation]
  BY Zenon DEF TypeOK, LocalType, FinishOperation, MaybeOperation
<1>2. rows' \in [Requests -> Rows] /\ finishes' \in [Requests -> Nat]
  <2>1. CASE taken[p] = None
    BY Zenon, <2>1 DEF TypeOK, StoreType, FinishOperation
  <2>2. CASE taken[p] # None
    <3>1. taken[p] \in Operations
      BY Zenon, <2>2 DEF TypeOK, LocalType, MaybeOperation
    <3>2. taken[p].req \in Requests /\ taken[p].usage \in Ids \cup {None}
      BY Zenon, <3>1 DEF Operations
    <3>3. [status |-> status, usage |-> taken[p].usage] \in Rows
      BY Zenon, <3>2 DEF Rows
    <3> QED
      BY <2>2, <3>2, <3>3 DEF TypeOK, StoreType, FinishOperation
  <2> QED
    BY Zenon, <2>1, <2>2
<1> QED
  BY <1>1, <1>2 DEF TypeOK, LockedType, SharedType, LocalType, StoreType, FinishOperation

LEMMA RecordUpstreamType ==
    ASSUME NEW p, NEW here, NEW next, TypeOK, RecordUpstream(p, here, next), pc' \in Pcs
    PROVE  TypeOK'
<1>1. exitCause' \in {"unset", "client", "upstream"}
  BY Zenon DEF TypeOK, SharedType, RecordUpstream, RecordExitCause
<1> QED
  BY <1>1 DEF TypeOK, LockedType, SharedType, LocalType, StoreType, RecordUpstream

LEMMA ReportUpstreamType ==
    ASSUME NEW p, NEW meta \in Metadata, TypeOK, ReportUpstream(p, meta), pc' \in Pcs
    PROVE  TypeOK'
<1>1. results' \in Seq(PumpResults)
  BY DeliveryAdvice DEF TypeOK, SharedType, ReportUpstream, PumpResults, Statuses
<1> QED
  BY <1>1 DEF TypeOK, LockedType, SharedType, LocalType, StoreType, ReportUpstream

LEMMA ReportDisconnectedType ==
    ASSUME NEW p, TypeOK, ReportDisconnected(p), pc' \in Pcs
    PROVE  TypeOK'
<1>1. exitCause' \in {"unset", "client", "upstream"}
  BY Zenon DEF TypeOK, SharedType, ReportDisconnected, RecordExitCause
<1>2. results' \in Seq(PumpResults)
  BY DEF TypeOK, SharedType, ReportDisconnected, PumpResults, Statuses, Metadata
<1> QED
  BY <1>1, <1>2 DEF TypeOK, LockedType, SharedType, LocalType, StoreType, ReportDisconnected

LEMMA TakeFailedType ==
    ASSUME NEW here, NEW finish, NEW skip, TypeOK, TakeFailed(here, finish, skip), pc' \in Pcs
    PROVE  TypeOK'
<1>1. failed' \in TailStates
  BY Zenon DEF TakeFailed, TailStates
<1>2. taken' \in [core: MaybeOperation, run: MaybeOperation]
  BY Zenon DEF TypeOK, LockedType, LocalType, TakeFailed, TailStates, FailedOperations, MaybeOperation
<1> QED
  BY <1>1, <1>2 DEF TypeOK, LockedType, SharedType, LocalType, StoreType, TakeFailed

LEMMA CancelType ==
    ASSUME TypeOK, CancelSession, pc' \in Pcs
    PROVE  TypeOK'
<1>1. SharedType'
  BY Zenon DEF TypeOK, SharedType, CancelSession, CloseNow
<1>2. closeAdvice' \in Metadata \cup {"open", "fault", "policy"}
  BY Zenon DEF TypeOK, StoreType, CancelSession, SendClose, Metadata
<1> QED
  BY Zenon, <1>1, <1>2 DEF TypeOK, LockedType, LocalType, StoreType, CancelSession
\* The client pump.
LEMMA ClientTypes ==
    ASSUME TypeOK, ClientStep
    PROVE  TypeOK'
<1>1. CASE ClientReadError
  <2>1. pc' \in Pcs
    BY Zenon, <1>1 DEF ClientReadError, Step, TypeOK, LocalType, Pcs
  <2> QED
    BY Zenon, <1>1, <2>1, StepType DEF ClientReadError
<1>2. CASE ClientFirstFrame
  <2>1. pc' \in Pcs
    BY <1>2, ZenonT(60) DEF ClientFirstFrame, NotifyDeadline, TypeOK, LocalType, Pcs
  <2> QED
    BY Zenon, <1>2, <2>1, NotifyType DEF ClientFirstFrame, DeadlineEvents
<1>3. CASE ClientDispatch
  <2>1. pc' \in Pcs
    BY <1>3 DEF ClientDispatch, Step, TypeOK, LocalType, Pcs
  <2> QED
    BY Zenon, <1>3, <2>1, StepType DEF ClientDispatch
<1>4. CASE BeginRetired \/ BeginRefused
  <2>1. pc' \in Pcs
    BY <1>4 DEF BeginRetired, BeginRefused, Step, TypeOK, LocalType, Pcs
  <2> QED
    BY Zenon, <1>4, <2>1, StepType DEF BeginRetired, BeginRefused
<1>5. ASSUME NEW r \in Requests, BeginOperation(r)
      PROVE  TypeOK'
  <2>1. pc' \in Pcs
    BY Zenon, <1>5 DEF BeginOperation, TypeOK, LocalType, Pcs
  <2>2. NewOperation(r) \in Operations
    BY Zenon DEF NewOperation, Operations, Ids
  <2>3. active' \in MaybeOperation
    BY Zenon, <1>5, <2>2 DEF BeginOperation, TypeOK, LockedType, MaybeOperation
  <2>4. rows' \in [Requests -> Rows]
    BY <1>5 DEF BeginOperation, TypeOK, StoreType, Rows
  <2>5. clientReq' \in Requests \cup {None}
    BY Zenon, <1>5 DEF BeginOperation, TypeOK, LocalType
  <2>6. LockedType'
    <3>1. generation' \in Nat
      BY <1>5 DEF BeginOperation, TypeOK, LockedType
    <3>2. failedResponseObserved' = FALSE /\ UNCHANGED <<failed, retired>>
      BY Zenon, <1>5 DEF BeginOperation
    <3> QED
      BY <2>3, <3>1, <3>2, ZenonT(60) DEF TypeOK, LockedType
  <2>7. SharedType'
    BY Zenon, <1>5 DEF BeginOperation, TypeOK, SharedType
  <2>8. LocalType' /\ StoreType'
    BY Zenon, <1>5, <2>1, <2>4, <2>5 DEF BeginOperation, TypeOK, LocalType, StoreType
  <2> QED
    BY Zenon, <2>6, <2>7, <2>8 DEF TypeOK
<1>6. CASE ClientTurnStarted
  <2>1. pc' \in Pcs
    BY Zenon, <1>6 DEF ClientTurnStarted, NotifyDeadline, TypeOK, LocalType, Pcs
  <2> QED
    BY Zenon, <1>6, <2>1, NotifyType DEF ClientTurnStarted, DeadlineEvents
<1>7. CASE RequestInterrupt
  <2>1. pc' \in Pcs
    BY Zenon, <1>7 DEF RequestInterrupt, TypeOK, LocalType, Pcs
  <2>2. active' \in MaybeOperation
    BY <1>7, ZenonT(60) DEF RequestInterrupt, TypeOK, LockedType, MaybeOperation, Operations
  <2> QED
    BY <1>7, <2>1, <2>2 DEF RequestInterrupt, TypeOK, LockedType, SharedType, LocalType, StoreType
<1>8. CASE ClientWrite
  <2>1. pc' \in Pcs
    BY Zenon, <1>8 DEF ClientWrite, TypeOK, LocalType, Pcs
  <2>2. forwarded' \in SUBSET (Requests \cup {None})
    BY Zenon, <1>8 DEF ClientWrite, TypeOK, LocalType, StoreType
  <2>3. clientFrame.id \in Ids
    BY DEF TypeOK, LocalType, ClientEvents, NoClientEvent, Ids
  <2>4. interruptsSent' \in SUBSET Ids
    BY Zenon, <1>8, <2>3 DEF ClientWrite, TypeOK, StoreType
  <2> QED
    BY <1>8, <2>1, <2>2, <2>4 DEF ClientWrite, TypeOK, LockedType, SharedType, LocalType, StoreType
<1>9. CASE ClientWriteError
  <2>1. pc' \in Pcs
    BY Zenon, <1>9 DEF ClientWriteError, TypeOK, LocalType, Pcs
  <2>2. core' \in {"open", "core", "code", "closed"}
    BY Zenon, <1>9 DEF ClientWriteError, CloseNow, TypeOK, SharedType
  <2> QED
    BY <1>9, <2>1, <2>2 DEF ClientWriteError, TypeOK, LockedType, SharedType, LocalType, StoreType
<1>10. CASE ClientReject
  <2>1. pc' \in Pcs
    BY Zenon, <1>10 DEF ClientReject, TypeOK, LocalType, Pcs
  <2>2. exitCause' \in {"unset", "client", "upstream"}
    BY Zenon, <1>10 DEF ClientReject, RecordExitCause, TypeOK, SharedType
  <2>3. closeAdvice' \in Metadata \cup {"open", "fault", "policy"}
    BY Zenon, <1>10 DEF ClientReject, SendClose, TypeOK, StoreType
  <2> QED
    BY <1>10, <2>1, <2>2, <2>3 DEF ClientReject, TypeOK, LockedType, SharedType, LocalType, StoreType
<1>11. CASE ClientExit
  <2>1. pc' \in Pcs
    BY <1>11, ZenonT(60) DEF ClientExit, ReportDisconnected, RecordUpstream, ReportUpstream, TypeOK, LocalType, Pcs
  <2>2. "none" \in Metadata
    BY Zenon DEF Metadata
  <2> QED
    BY Zenon, <1>11, <2>1, <2>2, ReportDisconnectedType, RecordUpstreamType, ReportUpstreamType DEF ClientExit
<1> QED
  BY Zenon, <1>1, <1>2, <1>3, <1>4, <1>5, <1>6, <1>7, <1>8, <1>9, <1>10, <1>11 DEF ClientStep
\* The core pump.
LEMMA CoreLocalTypes ==
    ASSUME NEW local \in CoreLocals, NEW event \in ServerEvents \cup OpaqueFrames \cup {NoEvent},
           NEW b \in BOOLEAN, NEW status \in Statuses, NEW meta \in Metadata
    PROVE  /\ NoLocal \in CoreLocals
           /\ [NoLocal EXCEPT !.event = event] \in CoreLocals
           /\ [NoLocal EXCEPT !.meta = meta] \in CoreLocals
           /\ [local EXCEPT !.old = b] \in CoreLocals
           /\ [local EXCEPT !.terminal = b, !.status = status] \in CoreLocals
           /\ local.event \in ServerEvents \cup OpaqueFrames \cup {NoEvent}
           /\ local.terminal \in BOOLEAN /\ local.status \in Statuses /\ local.meta \in Metadata
<1>1. NoLocal \in CoreLocals
  BY Zenon DEF NoLocal, CoreLocals, Statuses, Metadata
<1> QED
  BY <1>1, ZenonT(60) DEF CoreLocals

LEMMA CoreReadTypes ==
    ASSUME TypeOK, NEW event \in CoreFrames, CoreRead(event)
    PROVE  TypeOK'
<1>1. pc' \in Pcs
  BY DEF CoreRead, TypeOK, LocalType, Pcs
<1>2. event \in ServerEvents \cup OpaqueFrames \cup {NoEvent}
  BY Zenon, ConstantsAssumption
<1>3. coreLocal' \in CoreLocals
  <2>1. NoLocal \in CoreLocals /\ [NoLocal EXCEPT !.event = event] \in CoreLocals
    <3>1. NoLocal \in CoreLocals
      BY Zenon DEF NoLocal, CoreLocals, Statuses, Metadata
    <3> QED
      BY Zenon, <1>2, <3>1 DEF CoreLocals
  <2>2. coreLocal' \in {coreLocal, NoLocal, [NoLocal EXCEPT !.event = event]}
    BY Zenon DEF CoreRead
  <2> QED
    BY Zenon, <2>1, <2>2 DEF TypeOK, LocalType
<1>4. reads' \in [client: Nat, core: Nat]
  BY DEF CoreRead, TypeOK, LocalType
<1>5. LockedType' /\ SharedType'
  BY Zenon DEF CoreRead, TypeOK, LockedType, SharedType
<1>6. LocalType'
  BY Zenon, <1>1, <1>3, <1>4 DEF CoreRead, TypeOK, LocalType
<1>7. StoreType'
  BY Zenon DEF CoreRead, TypeOK, StoreType
<1> QED
  BY Zenon, <1>5, <1>6, <1>7 DEF TypeOK

LEMMA CoreTypes ==
    ASSUME TypeOK, CoreStep
    PROVE  TypeOK'
<1> DEFINE event == coreLocal.event
<1>0. /\ coreLocal \in CoreLocals
      /\ event \in ServerEvents \cup OpaqueFrames \cup {NoEvent} /\ event.id \in Ids
      /\ coreLocal.terminal \in BOOLEAN
      /\ coreLocal.status \in Statuses /\ coreLocal.meta \in Metadata
  <2>1. coreLocal \in CoreLocals
    BY Zenon DEF TypeOK, LocalType
  <2> QED
    BY Zenon, <2>1, EventIds DEF CoreLocals
<1>1. CASE CoreReadError
  <2>1. pc' \in Pcs
    BY Zenon, <1>1 DEF CoreReadError, TypeOK, LocalType, Pcs
  <2>2. coreLocal' \in CoreLocals
    BY <1>0, <1>1, CoreLocalTypes, ZenonT(60) DEF CoreReadError, Metadata
  <2> QED
    BY <1>1, <2>1, <2>2 DEF CoreReadError, TypeOK, LockedType, SharedType, LocalType, StoreType
<1>2. CASE CoreFailedFooter
  <2>1. pc' \in Pcs
    BY Zenon, <1>2 DEF CoreFailedFooter, TypeOK, LocalType, Pcs
  <2>2. failed.op \in Operations
    BY Zenon, <1>2 DEF CoreFailedFooter, InFailureTail, TypeOK, LockedType, TailStates, FailedOperations
  <2>3. WithUsage(failed.op, event) \in MaybeOperation
    BY Zenon, <1>0, <2>2 DEF WithUsage, Operations, MaybeOperation
  <2>4. taken' \in [core: MaybeOperation, run: MaybeOperation]
    BY Zenon, <1>2, <2>3 DEF CoreFailedFooter, TypeOK, LocalType
  <2>5. coreLocal' \in CoreLocals
    BY <1>0, <1>2, ZenonT(60) DEF CoreFailedFooter, CoreLocals
  <2>6. LockedType'
    BY Zenon, <1>2 DEF CoreFailedFooter, TypeOK, LockedType, TailStates
  <2>7. SharedType' /\ StoreType'
    BY <1>2 DEF CoreFailedFooter, TypeOK, SharedType, StoreType
  <2>8. LocalType'
    BY Zenon, <1>2, <2>1, <2>4, <2>5 DEF CoreFailedFooter, TypeOK, LocalType
  <2> QED
    BY Zenon, <2>6, <2>7, <2>8 DEF TypeOK
<1>3. CASE CoreClassify
  <2>1. pc' \in Pcs
    BY Zenon, <1>3 DEF CoreClassify, TypeOK, LocalType, Pcs
  <2>2. coreLocal' \in CoreLocals
    BY <1>0, <1>3, ZenonT(60) DEF CoreClassify, CoreLocals, InFailureTail, OfOtherResponse
  <2> QED
    BY <1>3, <2>1, <2>2 DEF CoreClassify, TypeOK, LockedType, SharedType, LocalType, StoreType
<1>4. CASE CoreTerminalStatus
  <2>1. pc' \in Pcs
    BY Zenon, <1>4 DEF CoreTerminalStatus, TypeOK, LocalType, Pcs
  <2>2. coreLocal' \in CoreLocals
    <3> DEFINE b == event.type \in TerminalTypes
               status == IF event.type = "response.completed" \/ InterruptedActive(event)
                         THEN "completed" ELSE "upstream_error"
    <3>1. coreLocal' = [coreLocal EXCEPT !.terminal = b, !.status = status]
      BY Zenon, <1>4 DEF CoreTerminalStatus
    <3>2. b \in BOOLEAN /\ status \in Statuses
      BY DEF Statuses
    <3> HIDE DEF b, status
    <3> QED
      BY <1>0, <3>1, <3>2, ZenonT(60) DEF CoreLocals
  <2> QED
    BY <1>4, <2>1, <2>2 DEF CoreTerminalStatus, TypeOK, LockedType, SharedType, LocalType, StoreType
<1>5. CASE CoreObserveResponse
  <2>1. pc' \in Pcs
    BY Zenon, <1>5 DEF CoreObserveResponse, TypeOK, LocalType, Pcs
  <2>2. active' \in MaybeOperation
    BY <1>5, ZenonT(60) DEF CoreObserveResponse, TypeOK, LockedType, MaybeOperation, Operations
  <2> QED
    BY <1>5, <2>1, <2>2 DEF CoreObserveResponse, TypeOK, LockedType, SharedType, LocalType, StoreType
<1>6. CASE CoreObserveEvent
  <2>1. pc' \in Pcs
    BY Zenon, <1>6 DEF CoreObserveEvent, TypeOK, LocalType, Pcs
  <2>2. active' \in MaybeOperation
    <3>1. CASE active = None
      BY Zenon, <1>6, <3>1 DEF CoreObserveEvent, MaybeOperation
    <3>2. CASE active # None
      <4>1. active \in Operations
        BY Zenon, <3>2 DEF TypeOK, LockedType, MaybeOperation
      <4>2. WithEvent(active, event, coreLocal.terminal) \in Operations
        BY ZenonT(60), <1>0, <4>1, OperationTypes
      <4> QED
        BY Zenon, <1>6, <3>2, <4>2 DEF CoreObserveEvent, MaybeOperation
    <3> QED
      BY Zenon, <3>1, <3>2
  <2>3. retired' \in BOOLEAN
    BY Zenon, <1>6 DEF CoreObserveEvent, TypeOK, LockedType
  <2>4. LockedType'
    BY Zenon, <1>6, <2>2, <2>3 DEF CoreObserveEvent, TypeOK, LockedType
  <2> QED
    BY <1>6, <2>1, <2>4 DEF CoreObserveEvent, TypeOK, SharedType, LocalType, StoreType
<1>7. CASE CoreDetach
  <2>1. pc' \in Pcs
    BY Zenon, <1>7 DEF CoreDetach, TypeOK, LocalType, Pcs
  <2>2. LockedType'
    <3>1. CASE active = None
      BY Zenon, <1>7, <3>1 DEF CoreDetach, TypeOK, LockedType
    <3>2. CASE active # None
      <4>1. [op |-> active, generation |-> generation] \in TailStates
        BY Zenon, <3>2 DEF TypeOK, LockedType, MaybeOperation, FailedOperations, TailStates
      <4>2. failedResponseObserved' = TRUE /\ UNCHANGED <<generation, retired>>
        BY Zenon, <1>7, <3>2 DEF CoreDetach
      <4>3. active' \in MaybeOperation /\ failed' \in TailStates
        BY Zenon, <1>7, <3>2, <4>1 DEF CoreDetach, MaybeOperation
      <4> QED
        BY Zenon, <4>2, <4>3 DEF TypeOK, LockedType
    <3> QED
      BY Zenon, <3>1, <3>2
  <2>3. taken' \in [core: MaybeOperation, run: MaybeOperation]
    BY Zenon, <1>7 DEF CoreDetach, TypeOK, LockedType, LocalType, TailStates, FailedOperations, MaybeOperation
  <2> QED
    BY <1>7, <2>1, <2>2, <2>3 DEF CoreDetach, TypeOK, SharedType, LocalType, StoreType
<1>8. CASE CoreFinishPrevious \/ CoreFinishFooter \/ CoreFinishTaken
  <2>1. pc' \in Pcs
    <3>1. CASE CoreFinishPrevious
      BY Zenon, <3>1 DEF CoreFinishPrevious, FinishOperation, TypeOK, LocalType, Pcs
    <3>2. CASE CoreFinishFooter
      BY <3>2 DEF CoreFinishFooter, FinishOperation, TypeOK, LocalType, Pcs
    <3>3. CASE CoreFinishTaken
      BY Zenon, <3>3 DEF CoreFinishTaken, FinishOperation, TypeOK, LocalType, Pcs
    <3> QED
      BY Zenon, <1>8, <3>1, <3>2, <3>3
  <2>2. "upstream_error" \in Statuses
    BY Zenon DEF Statuses
  <2> QED
    BY Zenon, <1>0, <1>8, <2>1, <2>2, FinishType DEF CoreFinishPrevious, CoreFinishFooter, CoreFinishTaken
<1>9. CASE CoreNotifyTail \/ CoreNotifyDetached \/ CoreTurnFinished
  <2>1. pc' \in Pcs
    BY <1>9 DEF CoreNotifyTail, CoreNotifyDetached, CoreTurnFinished, NotifyDeadline,
                TypeOK, LocalType, Pcs
  <2> QED
    BY Zenon, <1>9, <2>1, NotifyType DEF CoreNotifyTail, CoreNotifyDetached, CoreTurnFinished, DeadlineEvents
<1>10. CASE CoreWrite
  <2>1. pc' \in Pcs
    BY ZenonT(60), <1>10 DEF CoreWrite, TypeOK, LocalType, Pcs
  <2>2. coreLocal' \in CoreLocals
    BY <1>0, <1>10, CoreLocalTypes, ZenonT(60) DEF CoreWrite, ForgetUnless, Statuses, Metadata
  <2>3. delivered' \in SUBSET Requests
    <3>1. active # None => active.req \in Requests
      BY Zenon DEF TypeOK, LockedType, MaybeOperation, Operations
    <3> QED
      BY <1>10, <3>1, ZenonT(60) DEF CoreWrite, TypeOK, StoreType
  <2>4. LockedType' /\ SharedType'
    BY Zenon, <1>10 DEF CoreWrite, TypeOK, LockedType, SharedType
  <2>5. LocalType'
    BY Zenon, <1>10, <2>1, <2>2 DEF CoreWrite, TypeOK, LocalType
  <2>6. StoreType'
    BY Zenon, <1>10, <2>3 DEF CoreWrite, TypeOK, StoreType
  <2> QED
    BY Zenon, <2>4, <2>5, <2>6 DEF TypeOK
<1>11. CASE CoreWriteError
  <2>1. pc' \in Pcs
    BY Zenon, <1>11 DEF CoreWriteError, TypeOK, LocalType, Pcs
  <2> QED
    BY <1>11, <2>1 DEF CoreWriteError, TypeOK, LockedType, SharedType, LocalType, StoreType
<1>12. CASE CoreTakeActive
  <2>1. pc' \in Pcs
    BY Zenon, <1>12 DEF CoreTakeActive, TypeOK, LocalType, Pcs
  <2>2. LockedType'
    BY Zenon, <1>12 DEF CoreTakeActive, TypeOK, LockedType, MaybeOperation
  <2>3. taken' \in [core: MaybeOperation, run: MaybeOperation]
    BY Zenon, <1>12 DEF CoreTakeActive, TypeOK, LockedType, LocalType
  <2>4. coreLocal' \in CoreLocals
    BY <1>0, <1>12, CoreLocalTypes, ZenonT(60) DEF CoreTakeActive, ForgetUnless, Statuses, Metadata
  <2>5. LocalType'
    BY Zenon, <1>12, <2>1, <2>3, <2>4 DEF CoreTakeActive, TypeOK, LocalType
  <2> QED
    BY <1>12, <2>2, <2>5 DEF CoreTakeActive, TypeOK, SharedType, StoreType
<1>13. CASE CoreExit
  <2>1. pc' \in Pcs
    BY <1>13 DEF CoreExit, ReportDisconnected, RecordUpstream, ReportUpstream, TypeOK, LocalType, Pcs
  <2> QED
    BY Zenon, <1>0, <1>13, <2>1, ReportDisconnectedType, RecordUpstreamType, ReportUpstreamType DEF CoreExit
<1> QED
  BY Zenon, <1>1, <1>2, <1>3, <1>4, <1>5, <1>6, <1>7, <1>8, <1>9, <1>10, <1>11, <1>12, <1>13 DEF CoreStep

\* The run loop.
LEMMA RunTypes ==
    ASSUME TypeOK, RunStep \/ RunTimer
    PROVE  TypeOK'
<1>0. runLocal \in PumpResults /\ runLocal.status \in Statuses /\ runLocal.meta \in Metadata
  BY Zenon DEF TypeOK, LocalType, PumpResults
<1>1. CASE RunDeadline
  <2>1. deadlines' \in Seq(DeadlineEvents)
    BY <1>1 DEF RunDeadline, TypeOK, SharedType
  <2>2. timerArmed' \in BOOLEAN /\ tailArmed' \in BOOLEAN
    BY <1>1, ZenonT(60) DEF RunDeadline, TypeOK, SharedType
  <2>3. SharedType'
    BY Zenon, <1>1, <2>1, <2>2 DEF RunDeadline, TypeOK, SharedType
  <2> QED
    BY Zenon, <1>1, <2>3 DEF RunDeadline, TypeOK, LockedType, LocalType, StoreType
<1>2. CASE RunTailExpires \/ RunTakeFailedFirst \/ RunTakeFailed
  <2>1. pc' \in Pcs
    BY <1>2 DEF RunTailExpires, RunTakeFailedFirst, RunTakeFailed, TakeFailed, TypeOK, LocalType, Pcs
  <2> QED
    BY Zenon, <1>2, <2>1, TakeFailedType DEF RunTailExpires, RunTakeFailedFirst, RunTakeFailed
<1>3. CASE RunFinishExpired \/ RunFinishFailedFirst \/ RunFinishFailed \/ RunFinishActive
  <2>1. pc' \in Pcs
    <3>1. CASE RunFinishExpired
      BY Zenon, <3>1 DEF RunFinishExpired, FinishOperation, TypeOK, LocalType, Pcs
    <3>2. CASE RunFinishFailedFirst
      BY Zenon, <3>2 DEF RunFinishFailedFirst, FinishOperation, TypeOK, LocalType, Pcs
    <3>3. CASE RunFinishFailed
      BY Zenon, <3>3 DEF RunFinishFailed, FinishOperation, TypeOK, LocalType, Pcs
    <3>4. CASE RunFinishActive
      BY Zenon, <3>4 DEF RunFinishActive, FinishOperation, TypeOK, LocalType, Pcs
    <3> QED
      BY Zenon, <1>3, <3>1, <3>2, <3>3, <3>4
  <2>2. "upstream_error" \in Statuses
    BY Zenon DEF Statuses
  <2> QED
    BY Zenon, <1>0, <1>3, <2>1, <2>2, FinishType
    DEF RunFinishExpired, RunFinishFailedFirst, RunFinishFailed, RunFinishActive
<1>4. CASE RunTailCause
  <2>1. pc' \in Pcs
    BY <1>4, ZenonT(60) DEF RunTailCause, RecordUpstream, TypeOK, LocalType, Pcs
  <2> QED
    BY Zenon, <1>4, <2>1, RecordUpstreamType DEF RunTailCause
<1>5. CASE RunTailResult
  <2>1. pc' \in Pcs
    BY <1>5, ZenonT(60) DEF RunTailResult, TypeOK, LocalType, Pcs
  <2>2. runLocal' \in PumpResults
    BY Zenon, <1>5, DeliveryAdvice DEF RunTailResult, PumpResults, Statuses
  <2> QED
    BY <1>5, <2>1, <2>2 DEF RunTailResult, TypeOK, LockedType, SharedType, LocalType, StoreType
<1>6. CASE RunResult
  <2>1. pc' \in Pcs
    BY Zenon, <1>6 DEF RunResult, TypeOK, LocalType, Pcs
  <2>2. runLocal' \in PumpResults /\ results' \in Seq(PumpResults)
    BY <1>6 DEF RunResult, TypeOK, SharedType
  <2> QED
    BY <1>6, <2>1, <2>2 DEF RunResult, TypeOK, LockedType, SharedType, LocalType, StoreType
<1>7. CASE RunFinishSession
  <2>1. pc' \in Pcs
    BY Zenon, <1>7 DEF RunFinishSession, TypeOK, LocalType, Pcs
  <2>2. runLocal' \in PumpResults
    BY Zenon, <1>0, <1>7 DEF RunFinishSession, PumpResults, Statuses
  <2> QED
    BY <1>7, <2>1, <2>2 DEF RunFinishSession, TypeOK, LockedType, SharedType, LocalType, StoreType
<1>8. CASE RunClosePublic
  <2>1. pc' \in Pcs
    BY Zenon, <1>8 DEF RunClosePublic, TypeOK, LocalType, Pcs
  <2>2. closeAdvice' \in Metadata \cup {"open", "fault", "policy"}
    BY Zenon, <1>0, <1>8, DeliveryAdvice DEF RunClosePublic, SendClose, TypeOK, StoreType
  <2>3. public' \in {"open", "closing", "closed"}
    BY Zenon, <1>8 DEF RunClosePublic, TypeOK, SharedType
  <2> QED
    BY <1>8, <2>1, <2>2, <2>3 DEF RunClosePublic, TypeOK, LockedType, SharedType, LocalType, StoreType
<1>9. CASE RunCancel
  <2>1. pc' \in Pcs
    BY Zenon, <1>9 DEF RunCancel, TypeOK, LocalType, Pcs
  <2> QED
    BY Zenon, <1>9, <2>1, CancelType DEF RunCancel
<1>10. CASE RunTakeActive
  <2>1. pc' \in Pcs
    BY Zenon, <1>10 DEF RunTakeActive, TypeOK, LocalType, Pcs
  <2>2. LockedType'
    BY Zenon, <1>10 DEF RunTakeActive, TypeOK, LockedType, MaybeOperation
  <2>3. taken' \in [core: MaybeOperation, run: MaybeOperation]
    BY Zenon, <1>10 DEF RunTakeActive, TypeOK, LockedType, LocalType
  <2> QED
    BY <1>10, <2>1, <2>2, <2>3 DEF RunTakeActive, TypeOK, SharedType, LocalType, StoreType
<1>11. CASE RunReturn
  <2>1. pc' \in Pcs
    BY Zenon, <1>11 DEF RunReturn, Step, TypeOK, LocalType, Pcs
  <2> QED
    BY Zenon, <1>11, <2>1, StepType DEF RunReturn
<1>12. CASE RunTimer
  <2>1. pc' \in Pcs
    BY <1>12, ZenonT(60) DEF RunTimer, TypeOK, LocalType, Pcs
  <2>2. runLocal' \in PumpResults
    BY Zenon, <1>12 DEF RunTimer, PumpResults, Statuses, Metadata
  <2>3. closeAdvice' \in Metadata \cup {"open", "fault", "policy"}
    BY Zenon, <1>12 DEF RunTimer, SendClose, TypeOK, StoreType
  <2>4. public' \in {"open", "closing", "closed"}
    BY Zenon, <1>12 DEF RunTimer, TypeOK, SharedType
  <2> QED
    BY <1>12, <2>1, <2>2, <2>3, <2>4 DEF RunTimer, TypeOK, LockedType, SharedType, LocalType, StoreType
<1> QED
  BY Zenon, <1>1, <1>2, <1>3, <1>4, <1>5, <1>6, <1>7, <1>8, <1>9, <1>10, <1>11, <1>12 DEF RunStep
\* The peers and the shutdown path.
LEMMA PeerTypes ==
    ASSUME TypeOK, PeerStep \/ Stop \/ StopCancel
    PROVE  TypeOK'
<1>1. ASSUME NEW frame \in ClientFrames, ClientRead(frame)
      PROVE  TypeOK'
  <2>1. pc' \in Pcs
    BY Zenon, <1>1 DEF ClientRead, TypeOK, LocalType, Pcs
  <2>2. clientFrame' \in ClientEvents
    BY Zenon, <1>1, ConstantsAssumption DEF ClientRead
  <2>3. reads' \in [client: Nat, core: Nat]
    BY <1>1 DEF ClientRead, TypeOK, LocalType
  <2> QED
    BY <1>1, <2>1, <2>2, <2>3 DEF ClientRead, TypeOK, LockedType, SharedType, LocalType, StoreType
<1>2. CASE PeerDisconnect
  BY <1>2 DEF PeerDisconnect, TypeOK, LockedType, SharedType, LocalType, StoreType
<1>3. ASSUME NEW how \in CoreCloses, CoreLost(how)
      PROVE  TypeOK'
  <2>1. how \in {"open", "core", "code", "closed"}
    BY Zenon, ConstantsAssumption
  <2> QED
    BY <1>3, <2>1 DEF CoreLost, TypeOK, LockedType, SharedType, LocalType, StoreType
<1>4. CASE Stop
  BY <1>4 DEF Stop, TypeOK, LockedType, SharedType, LocalType, StoreType
<1>5. CASE StopCancel
  BY Zenon, <1>5, CancelType DEF StopCancel, TypeOK, LocalType
<1> QED
  BY Zenon, <1>1, <1>2, <1>3, <1>4, <1>5, CoreReadTypes DEF PeerStep

LEMMA InitTypes == Init => TypeOK
<1> SUFFICES ASSUME Init PROVE TypeOK
  BY Zenon
<1>1. LockedType
  BY ZenonT(60) DEF Init, LockedType, MaybeOperation, TailStates
<1>2. SharedType
  <2>1. results \in Seq(PumpResults) /\ deadlines \in Seq(DeadlineEvents)
    BY DEF Init
  <2>2. stopping \in BOOLEAN /\ ctxDone \in BOOLEAN
    BY ZenonT(60) DEF Init
  <2>3. timerArmed \in BOOLEAN /\ tailArmed \in BOOLEAN
    BY ZenonT(60) DEF Init
  <2>4. /\ exitCause \in {"unset", "client", "upstream"}
        /\ public \in {"open", "closing", "closed"} /\ core \in {"open", "core", "code", "closed"}
    BY Zenon DEF Init
  <2> QED
    BY Zenon, <2>1, <2>2, <2>3, <2>4 DEF SharedType
<1>3. LocalType
  <2>1. pc \in Pcs
    BY Zenon DEF Init, Pcs
  <2>2. taken \in [core: MaybeOperation, run: MaybeOperation] /\ reads \in [client: Nat, core: Nat]
    BY Zenon DEF Init, MaybeOperation
  <2>3. coreLocal \in CoreLocals
    BY Zenon DEF Init, NoLocal, CoreLocals, Statuses, Metadata
  <2>4. runLocal \in PumpResults
    BY Zenon DEF Init, PumpResults, Statuses, Metadata
  <2>5. clientFrame \in ClientEvents \cup {NoClientEvent} /\ clientReq \in Requests \cup {None}
    BY Zenon DEF Init
  <2> QED
    BY Zenon, <2>1, <2>2, <2>3, <2>4, <2>5 DEF LocalType
<1>4. StoreType
  BY Zenon DEF Init, StoreType, Rows
<1> QED
  BY Zenon, <1>1, <1>2, <1>3, <1>4 DEF TypeOK

LEMMA StutterTypes ==
    ASSUME TypeOK, UNCHANGED vars
    PROVE  TypeOK'
BY DEF TypeOK, LockedType, SharedType, LocalType, StoreType, vars

LEMMA NextTypes == TypeOK /\ [Next]_vars => TypeOK'
BY Zenon, ClientTypes, CoreTypes, RunTypes, PeerTypes, StutterTypes DEF Next, Returned

\* What the client pump never touches; only a create or an interrupt reaches the
\* operation or the rows.
LEMMA ClientFrame ==
    ASSUME pc \in Pcs, ClientStep
    PROVE  /\ pc.client # "done" /\ pc'.core = pc.core /\ pc'.run = pc.run
           /\ UNCHANGED <<failed, retired, taken, coreLocal, ctxDone, finishes>>
           /\ \/ UNCHANGED <<active, generation, failedResponseObserved, rows>>
              \/ RequestInterrupt
              \/ \E r \in Requests : BeginOperation(r)
<1>1. pc.client # "done"
  BY ZenonT(60) DEF ClientStep, ClientReadError, ClientFirstFrame, ClientDispatch, BeginRetired,
     BeginRefused, BeginOperation, ClientTurnStarted, RequestInterrupt, ClientWrite,
     ClientWriteError, ClientReject, ClientExit, Step, NotifyDeadline, RecordUpstream,
     ReportUpstream, ReportDisconnected
<1>2. \E next : pc' = [pc EXCEPT !["client"] = next]
  BY ZenonT(60) DEF ClientStep, ClientReadError, ClientFirstFrame, ClientDispatch, BeginRetired,
     BeginRefused, BeginOperation, ClientTurnStarted, RequestInterrupt, ClientWrite,
     ClientWriteError, ClientReject, ClientExit, Step, NotifyDeadline, RecordUpstream,
     ReportUpstream, ReportDisconnected
<1>3. pc'.core = pc.core /\ pc'.run = pc.run
  BY Zenon, <1>2 DEF Pcs
<1>4. UNCHANGED <<failed, retired, taken, coreLocal, ctxDone, finishes>>
  BY ZenonT(60) DEF ClientStep, ClientReadError, ClientFirstFrame, ClientDispatch, BeginRetired,
     BeginRefused, BeginOperation, ClientTurnStarted, RequestInterrupt, ClientWrite,
     ClientWriteError, ClientReject, ClientExit, Step, NotifyDeadline, RecordUpstream,
     ReportUpstream, ReportDisconnected
<1>5. \/ UNCHANGED <<active, generation, failedResponseObserved, rows>>
      \/ RequestInterrupt
      \/ \E r \in Requests : BeginOperation(r)
  BY ZenonT(60) DEF ClientStep, ClientReadError, ClientFirstFrame, ClientDispatch, BeginRetired,
     BeginRefused, ClientTurnStarted, ClientWrite, ClientWriteError, ClientReject, ClientExit,
     Step, NotifyDeadline, RecordUpstream, ReportUpstream, ReportDisconnected
<1> QED
  BY Zenon, <1>1, <1>3, <1>4, <1>5

\* Every reachable state of a session is well typed: the goroutines never store an
\* operation, result, frame verdict or close advice outside the declared types.
THEOREM TypeCorrect == Spec => []TypeOK
BY InitTypes, NextTypes, PTL DEF Spec
\* Retirement is an action property of TypeOK alone: retired is only ever set, and
\* only BeginOperation, which a retired stream refuses, starts a row.
LEMMA StartedByBegin ==
    ASSUME TypeOK, [Next]_vars, retired
    PROVE  /\ retired'
           /\ \A r \in Requests : rows[r].status = "absent" => rows'[r].status = "absent"
<1>1. CASE ClientStep
  BY <1>1, ZenonT(60) DEF ClientStep, ClientReadError, ClientFirstFrame, ClientDispatch, BeginRetired,
     BeginRefused, BeginOperation, ClientTurnStarted, RequestInterrupt, ClientWrite,
     ClientWriteError, ClientReject, ClientExit, Step, NotifyDeadline, RecordUpstream,
     ReportUpstream, ReportDisconnected
<1> DEFINE RowsKept == \A r \in Requests : rows[r].status = "absent" => rows'[r].status = "absent"
<1>2. ASSUME NEW q \in {"core", "run"}, NEW here, NEW status, NEW next,
             FinishOperation(q, here, status, next)
      PROVE  retired' /\ RowsKept
  <2>1. CASE taken[q] = None
    BY Zenon, <1>2, <2>1 DEF FinishOperation
  <2>2. CASE taken[q] # None
    <3> DEFINE s == taken[q].req
    <3>1. retired' /\ rows' \in {rows, [rows EXCEPT ![s] = [status |-> status, usage |-> taken[q].usage]]}
      BY Zenon, <1>2, <2>2 DEF FinishOperation
    <3>2. rows' = rows \/ rows[s].status = "in_progress"
      BY Zenon, <1>2, <2>2 DEF FinishOperation
    <3>3. rows \in [Requests -> Rows]
      BY Zenon DEF TypeOK, StoreType
    <3> HIDE DEF s
    <3> QED
      BY Zenon, <3>1, <3>2, <3>3
  <2> QED
    BY Zenon, <2>1, <2>2
<1>3. CASE CoreStep
  <2>1. CASE CoreFinishPrevious \/ CoreFinishFooter \/ CoreFinishTaken
    BY Zenon, <1>2, <2>1 DEF CoreFinishPrevious, CoreFinishFooter, CoreFinishTaken
  <2>2. CASE ~(CoreFinishPrevious \/ CoreFinishFooter \/ CoreFinishTaken)
    BY <1>3, <2>2, ZenonT(60) DEF CoreStep, CoreReadError, CoreFailedFooter, CoreClassify, CoreTerminalStatus,
       CoreObserveResponse, CoreObserveEvent, CoreDetach, CoreNotifyTail, CoreNotifyDetached,
       CoreWrite, CoreWriteError, CoreTakeActive, CoreTurnFinished, CoreExit, NotifyDeadline,
       RecordUpstream, ReportUpstream, ReportDisconnected
  <2> QED
    BY Zenon, <2>1, <2>2
<1>4. CASE RunStep \/ RunTimer
  <2>1. CASE RunFinishExpired \/ RunFinishFailedFirst \/ RunFinishFailed \/ RunFinishActive
    BY Zenon, <1>2, <2>1 DEF RunFinishExpired, RunFinishFailedFirst, RunFinishFailed, RunFinishActive
  <2>2. CASE ~(RunFinishExpired \/ RunFinishFailedFirst \/ RunFinishFailed \/ RunFinishActive)
    BY <1>4, <2>2, ZenonT(60) DEF RunStep, RunTimer, RunDeadline, RunTailExpires, RunTailCause, RunTailResult,
       RunResult, RunFinishSession, RunTakeFailedFirst, RunClosePublic, RunCancel, RunTakeActive,
       RunTakeFailed, RunReturn, TakeFailed, RecordUpstream, CancelSession, Step
  <2> QED
    BY Zenon, <2>1, <2>2
<1>5. CASE PeerStep \/ Stop \/ StopCancel \/ Returned \/ UNCHANGED vars
  BY <1>5, ZenonT(60) DEF PeerStep, ClientRead, CoreRead, PeerDisconnect, CoreLost, Stop, StopCancel,
     CancelSession, Returned, vars
<1> QED
  BY Zenon, <1>1, <1>3, <1>4, <1>5 DEF Next

\* Once observeServerEvent has retired the stream it stays retired, through the end
\* of the failure tail too, and beginOperation starts no row on it.
THEOREM RetirementTheorem == Spec => RetirementIsFinal
<1>1. TypeOK /\ [Next]_vars =>
        [retired => /\ retired'
                    /\ \A r \in Requests :
                          rows[r].status = "absent" => rows'[r].status = "absent"]_vars
  BY Zenon, StartedByBegin
<1> QED
  BY <1>1, TypeCorrect, PTL DEF Spec, RetirementIsFinal
-----------------------------------------------------------------------------
(* Ownership of operations.                                                 *)

\* The steps by which an operation changes hands.
LEMMA OwnershipKept ==
    ASSUME Ownership, ActiveReq' = ActiveReq, FailedReq' = FailedReq, CoreReq' = CoreReq,
           RunReq' = RunReq, UNCHANGED store
    PROVE  Ownership'
BY Zenon DEF Ownership, InHand

LEMMA OwnershipMoved ==
    ASSUME Ownership, UNCHANGED store, InHand' = InHand,
           (ActiveReq \cap (FailedReq \cup CoreReq \cup RunReq) = {})',
           (FailedReq \cap (CoreReq \cup RunReq) = {})', (CoreReq \cap RunReq = {})'
    PROVE  Ownership'
BY Zenon DEF Ownership

LEMMA BeginOwnership ==
    ASSUME TypeOK, Ownership, NEW r \in Requests, BeginOperation(r)
    PROVE  Ownership'
<1>1. FailedReq' = FailedReq /\ CoreReq' = CoreReq /\ RunReq' = RunReq
  BY Zenon DEF BeginOperation, FailedReq, CoreReq, RunReq
<1>2. CASE UNCHANGED <<rows, active>>
  BY Zenon, <1>1, <1>2, OwnershipKept DEF BeginOperation, ActiveReq
<1>3. CASE ~UNCHANGED <<rows, active>>
  <2>1. rows' = [rows EXCEPT ![r].status = "in_progress"] /\ active' = NewOperation(r)
    BY Zenon, <1>3 DEF BeginOperation
  <2>2. rows[r].status = "absent" /\ UNCHANGED finishes /\ ActiveReq = {}
    BY Zenon DEF BeginOperation, ActiveReq
  <2>3. ActiveReq' = {r}
    <3>1. NewOperation(r) \in Operations /\ NewOperation(r).req = r
      BY Zenon DEF NewOperation, Operations, Ids
    <3> QED
      BY Zenon, <2>1, <3>1, ConstantsAssumption DEF ActiveReq
  <2>4. rows \in [Requests -> Rows] /\ finishes \in [Requests -> Nat]
    BY Zenon DEF TypeOK, StoreType
  <2>5. finishes[r] = 0 /\ r \notin InHand
    BY <2>2, <2>4 DEF Ownership
  <2>6. \A s \in Requests : rows'[s].status = IF s = r THEN "in_progress" ELSE rows[s].status
    BY Zenon, <2>1, <2>4 DEF Rows
  <2> QED
    BY <1>1, <2>2, <2>3, <2>4, <2>5, <2>6 DEF Ownership, InHand
<1> QED
  BY Zenon, <1>2, <1>3

LEMMA FinishOwnership ==
    ASSUME TypeOK, Ownership, NEW p \in {"core", "run"}, NEW here, NEW status \in Statuses, NEW next,
           FinishOperation(p, here, status, next)
    PROVE  Ownership'
<1>1. ActiveReq' = ActiveReq /\ FailedReq' = FailedReq
  BY Zenon DEF FinishOperation, ActiveReq, FailedReq
<1>2. taken \in [core: MaybeOperation, run: MaybeOperation]
  BY Zenon DEF TypeOK, LocalType
<1>3. CASE taken[p] = None
  <2>1. UNCHANGED <<taken, store>>
    BY Zenon, <1>2, <1>3 DEF FinishOperation
  <2> QED
    BY Zenon, <1>1, <2>1, OwnershipKept DEF CoreReq, RunReq
<1>4. CASE taken[p] # None
  <2> DEFINE r == taken[p].req
             row == [status |-> status, usage |-> taken[p].usage]
  <2>1. r \in Requests
    BY Zenon, <1>2, <1>4 DEF MaybeOperation, Operations
  <2>2. rows \in [Requests -> Rows] /\ finishes \in [Requests -> Nat]
    BY Zenon DEF TypeOK, StoreType
  <2>3. /\ finishes' = [finishes EXCEPT ![r] = @ + 1]
        /\ rows' = rows \/ rows' = [rows EXCEPT ![r] = row]
        /\ taken' = [taken EXCEPT ![p] = None]
    BY Zenon, <1>4 DEF FinishOperation
  <2>4. status # "absent"
    BY Zenon DEF Statuses
  <2>5. \A s \in Requests : rows'[s].status = rows[s].status \/ (s = r /\ rows'[s].status = status)
    <3> HIDE DEF r
    <3>1. CASE rows' = rows
      BY Zenon, <3>1
    <3>2. CASE rows' = [rows EXCEPT ![r] = row]
      BY Zenon, <2>1, <2>2, <3>2
    <3> QED
      BY ZenonT(60), <2>3, <3>1, <3>2
  <2>6. r \in InHand
    BY Zenon, <1>4 DEF InHand, CoreReq, RunReq
  <2>7. rows[r].status # "absent" /\ finishes[r] = 0
    BY <2>1, <2>6, ZenonT(60) DEF Ownership
  <2>8. CASE p = "core"
    <3>1. CoreReq = {r} /\ CoreReq' = {} /\ RunReq' = RunReq
      BY Zenon, <1>2, <1>4, <2>3, <2>8 DEF CoreReq, RunReq
    <3> HIDE DEF r, row
    <3> QED
      BY <1>1, <2>1, <2>2, <2>3, <2>4, <2>5, <2>7, <3>1 DEF Ownership, InHand
  <2>9. CASE p = "run"
    <3>1. RunReq = {r} /\ RunReq' = {} /\ CoreReq' = CoreReq
      BY Zenon, <1>2, <1>4, <2>3, <2>9 DEF CoreReq, RunReq
    <3> HIDE DEF r, row
    <3> QED
      BY <1>1, <2>1, <2>2, <2>3, <2>4, <2>5, <2>7, <3>1 DEF Ownership, InHand
  <2> QED
    BY Zenon, <2>8, <2>9
<1> QED
  BY Zenon, <1>3, <1>4

LEMMA TakeFailedOwnership ==
    ASSUME TypeOK, Ownership, NEW here, NEW finish, NEW skip, TakeFailed(here, finish, skip),
           taken.run = None
    PROVE  Ownership'
<1>1. taken \in [core: MaybeOperation, run: MaybeOperation]
  BY Zenon DEF TypeOK, LocalType
<1>2. ActiveReq' = ActiveReq /\ CoreReq' = CoreReq /\ FailedReq' = {}
  BY Zenon, <1>1 DEF TakeFailed, ActiveReq, CoreReq, FailedReq
<1>3. RunReq = {} /\ RunReq' = FailedReq
  <2>1. CASE failed = None
    BY Zenon, <1>1, <2>1 DEF TakeFailed, RunReq, FailedReq
  <2>2. CASE failed # None
    <3>1. failed.op \in Operations
      BY Zenon, <2>2 DEF TypeOK, LockedType, TailStates, FailedOperations
    <3>2. taken'.run = failed.op /\ failed.op # None
      BY Zenon, <1>1, <2>2, <3>1, ConstantsAssumption DEF TakeFailed
    <3> QED
      BY Zenon, <2>2, <3>2 DEF RunReq, FailedReq
  <2> QED
    BY Zenon, <2>1, <2>2
<1>4. UNCHANGED store
  BY Zenon DEF TakeFailed
<1> QED
  BY Zenon, <1>2, <1>3, <1>4, OwnershipMoved DEF Ownership, InHand
LEMMA CoreOwnership ==
    ASSUME TypeOK, Ownership, ControlInv, CoreStep
    PROVE  Ownership'
<1>0. taken \in [core: MaybeOperation, run: MaybeOperation]
  BY Zenon DEF TypeOK, LocalType
<1>1. CASE CoreFailedFooter
  <2>1. taken.core = None /\ CoreReq = {}
    BY Zenon, <1>1 DEF CoreFailedFooter, ControlInv, CoreHolds, CoreReq
  <2>2. failed # None /\ failed.op \in Operations
    BY Zenon, <1>1 DEF CoreFailedFooter, InFailureTail, TypeOK, LockedType, TailStates, FailedOperations
  <2>3. WithUsage(failed.op, coreLocal.event) # None
        /\ WithUsage(failed.op, coreLocal.event).req = failed.op.req
    <3> DEFINE op == failed.op
    <3>1. coreLocal.event.id \in Ids
      <4>1. coreLocal.event \in ServerEvents \cup OpaqueFrames \cup {NoEvent}
        BY Zenon DEF TypeOK, LocalType, CoreLocals
      <4> QED
        BY Zenon, <4>1, EventIds
    <3>2. op \in Operations
      BY Zenon, <2>2
    <3> HIDE DEF op
    <3>3. WithUsage(op, coreLocal.event) \in Operations
          /\ WithUsage(op, coreLocal.event).req = op.req
      BY Zenon, <3>1, <3>2 DEF WithUsage, Operations
    <3> QED
      BY Zenon, <3>3, ConstantsAssumption DEF op
  <2>4. CoreReq' = FailedReq /\ FailedReq' = {}
    BY Zenon, <1>0, <1>1, <2>2, <2>3 DEF CoreFailedFooter, CoreReq, FailedReq
  <2>5. ActiveReq' = ActiveReq /\ RunReq' = RunReq /\ UNCHANGED store
    BY Zenon, <1>0, <1>1 DEF CoreFailedFooter, ActiveReq, RunReq
  <2> QED
    BY <2>1, <2>4, <2>5, OwnershipMoved, ZenonT(60) DEF Ownership, InHand
<1>2. CASE CoreDetach
  <2>1. taken.core = None /\ CoreReq = {}
    BY Zenon, <1>2 DEF CoreDetach, ControlInv, CoreHolds, CoreReq
  <2>2. RunReq' = RunReq /\ UNCHANGED store
    BY Zenon, <1>0, <1>2 DEF CoreDetach, RunReq
  <2>3. CASE active = None
    BY Zenon, <1>2, <2>2, <2>3, OwnershipKept DEF CoreDetach, ActiveReq, FailedReq, CoreReq
  <2>4. CASE active # None
    <3>1. active \in Operations
      BY Zenon, <2>4 DEF TypeOK, LockedType, MaybeOperation
    <3>2. [op |-> active, generation |-> generation] \in FailedOperations
      BY Zenon, <3>1 DEF TypeOK, LockedType, FailedOperations
    <3>3. FailedReq' = ActiveReq /\ ActiveReq' = {}
      <4>1. failed' # None /\ failed'.op = active
        BY <1>2, <2>4, <3>2, ConstantsAssumption DEF CoreDetach
      <4>2. active' = None
        BY Zenon, <1>2, <2>4 DEF CoreDetach
      <4> QED
        BY Zenon, <2>4, <4>1, <4>2 DEF FailedReq, ActiveReq
    <3>4. CoreReq' = FailedReq
      <4>1. taken'.core = IF failed = None THEN None ELSE failed.op
        BY Zenon, <1>0, <1>2, <2>4 DEF CoreDetach
      <4>2. failed # None => failed.op # None
        BY Zenon, ConstantsAssumption DEF TypeOK, LockedType, TailStates, FailedOperations
      <4> QED
        BY Zenon, <4>1, <4>2 DEF CoreReq, FailedReq
    <3> QED
      BY Zenon, <2>1, <2>2, <3>3, <3>4, OwnershipMoved DEF Ownership, InHand
  <2> QED
    BY Zenon, <2>3, <2>4
<1>3. CASE CoreTakeActive
  <2>1. taken.core = None /\ CoreReq = {}
    BY Zenon, <1>3 DEF CoreTakeActive, ControlInv, CoreHolds, CoreReq
  <2>2. /\ CoreReq' = ActiveReq /\ ActiveReq' = {}
        /\ RunReq' = RunReq /\ FailedReq' = FailedReq /\ UNCHANGED store
    BY Zenon, <1>0, <1>3 DEF CoreTakeActive, CoreReq, ActiveReq, RunReq, FailedReq
  <2> QED
    BY <2>1, <2>2, OwnershipMoved, ZenonT(60) DEF Ownership, InHand
<1>4. CASE CoreFinishPrevious \/ CoreFinishFooter \/ CoreFinishTaken
  <2>1. "upstream_error" \in Statuses /\ coreLocal.status \in Statuses
    BY Zenon DEF Statuses, TypeOK, LocalType, CoreLocals
  <2> QED
    BY Zenon, <1>4, <2>1, FinishOwnership DEF CoreFinishPrevious, CoreFinishFooter, CoreFinishTaken
<1>5. CASE CoreObserveResponse \/ CoreObserveEvent
  <2>1. ActiveReq' = ActiveReq
    <3>1. CASE active = None
      BY Zenon, <1>5, <3>1 DEF CoreObserveResponse, CoreObserveEvent, ActiveReq
    <3>2. CASE active # None
      <4>1. active \in Operations
        BY Zenon, <3>2 DEF TypeOK, LockedType, MaybeOperation
      <4>2. active'.req = active.req
        BY <1>5, <3>2, <4>1, ZenonT(60) DEF CoreObserveResponse, CoreObserveEvent, WithEvent, WithUsage, Operations
      <4>3. active' \in Operations
        <5>1. TypeOK'
          BY Zenon, CoreTypes
        <5>2. active' # None
          <6>1. CASE CoreObserveResponse
            <7>1. [active EXCEPT !.ttfb = TRUE] \in Operations
              BY <4>1, ZenonT(60) DEF Operations
            <7> QED
              BY <3>2, <6>1, <7>1, ConstantsAssumption, ZenonT(60) DEF CoreObserveResponse
          <6>2. CASE CoreObserveEvent
            <7>1. coreLocal.event \in ServerEvents \cup OpaqueFrames \cup {NoEvent}
                  /\ coreLocal.terminal \in BOOLEAN
              BY Zenon DEF TypeOK, LocalType, CoreLocals
            <7>2. coreLocal.event.id \in Ids /\ active.req \in Requests
              BY Zenon, <4>1, <7>1, EventIds DEF Operations
            <7>3. WithEvent(active, coreLocal.event, coreLocal.terminal) \in Operations
              BY <4>1, <7>1, <7>2, OperationTypes, ZenonT(60)
            <7> QED
              BY Zenon, <3>2, <6>2, <7>3, ConstantsAssumption DEF CoreObserveEvent
          <6> QED
            BY Zenon, <1>5, <6>1, <6>2
        <5> QED
          BY Zenon, <5>1, <5>2 DEF TypeOK, LockedType, MaybeOperation
      <4> QED
        BY Zenon, <3>2, <4>2, <4>3, ConstantsAssumption DEF ActiveReq
    <3> QED
      BY Zenon, <3>1, <3>2
  <2>2. FailedReq' = FailedReq /\ CoreReq' = CoreReq /\ RunReq' = RunReq /\ UNCHANGED store
    BY Zenon, <1>5 DEF CoreObserveResponse, CoreObserveEvent, FailedReq, CoreReq, RunReq
  <2> QED
    BY Zenon, <2>1, <2>2, OwnershipKept
<1>6. CASE \/ CoreReadError \/ CoreClassify \/ CoreTerminalStatus \/ CoreNotifyTail
           \/ CoreNotifyDetached \/ CoreWrite \/ CoreWriteError \/ CoreTurnFinished \/ CoreExit
  <2>1. UNCHANGED <<active, failed, taken, store>>
    BY <1>6, ZenonT(60) DEF CoreReadError, CoreClassify, CoreTerminalStatus, CoreNotifyTail,
       CoreNotifyDetached, CoreWrite, CoreWriteError, CoreTurnFinished, CoreExit, NotifyDeadline,
       RecordUpstream, ReportUpstream, ReportDisconnected
  <2> QED
    BY Zenon, <2>1, OwnershipKept DEF ActiveReq, FailedReq, CoreReq, RunReq
<1> QED
  BY Zenon, <1>1, <1>2, <1>3, <1>4, <1>5, <1>6 DEF CoreStep

LEMMA RunOwnership ==
    ASSUME TypeOK, Ownership, ControlInv, RunStep \/ RunTimer
    PROVE  Ownership'
<1>0. taken \in [core: MaybeOperation, run: MaybeOperation]
  BY Zenon DEF TypeOK, LocalType
<1>1. CASE RunTailExpires \/ RunTakeFailedFirst \/ RunTakeFailed
  <2>1. taken.run = None
    BY Zenon, <1>1 DEF RunTailExpires, RunTakeFailedFirst, RunTakeFailed, TakeFailed, ControlInv, RunHolds
  <2> QED
    BY Zenon, <1>1, <2>1, TakeFailedOwnership DEF RunTailExpires, RunTakeFailedFirst, RunTakeFailed
<1>2. CASE RunTakeActive
  <2>1. taken.run = None /\ RunReq = {}
    BY Zenon, <1>2 DEF RunTakeActive, ControlInv, RunHolds, RunReq
  <2>2. /\ RunReq' = ActiveReq /\ ActiveReq' = {}
        /\ CoreReq' = CoreReq /\ FailedReq' = FailedReq /\ UNCHANGED store
    BY Zenon, <1>0, <1>2 DEF RunTakeActive, CoreReq, ActiveReq, RunReq, FailedReq
  <2> QED
    BY Zenon, <2>1, <2>2, OwnershipMoved DEF Ownership, InHand
<1>3. CASE RunFinishExpired \/ RunFinishFailedFirst \/ RunFinishFailed \/ RunFinishActive
  <2>1. "upstream_error" \in Statuses /\ runLocal.status \in Statuses
    BY Zenon DEF Statuses, TypeOK, LocalType, PumpResults
  <2> QED
    BY Zenon, <1>3, <2>1, FinishOwnership
    DEF RunFinishExpired, RunFinishFailedFirst, RunFinishFailed, RunFinishActive
<1>4. CASE \/ RunDeadline \/ RunTailCause \/ RunTailResult \/ RunResult \/ RunFinishSession
           \/ RunClosePublic \/ RunCancel \/ RunReturn \/ RunTimer
  <2>1. UNCHANGED <<active, failed, taken, store>>
    BY Zenon, <1>4 DEF RunDeadline, RunTailCause, RunTailResult, RunResult, RunFinishSession,
       RunClosePublic, RunCancel, RunReturn, RunTimer, RecordUpstream, CancelSession, Step
  <2> QED
    BY Zenon, <2>1, OwnershipKept DEF ActiveReq, FailedReq, CoreReq, RunReq
<1> QED
  BY Zenon, <1>1, <1>2, <1>3, <1>4 DEF RunStep
LEMMA ClientOwnership ==
    ASSUME TypeOK, Ownership, ClientStep
    PROVE  Ownership'
<1>1. CASE \E r \in Requests : BeginOperation(r)
  BY Zenon, <1>1, BeginOwnership
<1>2. CASE RequestInterrupt
  <2>1. ActiveReq' = ActiveReq
    <3>1. CASE active' = active
      BY Zenon, <3>1 DEF ActiveReq
    <3>2. CASE active' # active
      <4>1. active # None /\ active' = [active EXCEPT !.interruptRequested = TRUE]
        BY Zenon, <1>2, <3>2 DEF RequestInterrupt
      <4>2. active \in Operations
        BY Zenon, <4>1 DEF TypeOK, LockedType, MaybeOperation
      <4>3. active' \in Operations /\ active'.req = active.req
        BY <4>1, <4>2, ZenonT(60) DEF Operations
      <4> QED
        BY <4>1, <4>3, ConstantsAssumption, ZenonT(60) DEF ActiveReq
    <3> QED
      BY Zenon, <3>1, <3>2
  <2>2. FailedReq' = FailedReq /\ CoreReq' = CoreReq /\ RunReq' = RunReq /\ UNCHANGED store
    BY Zenon, <1>2 DEF RequestInterrupt, FailedReq, CoreReq, RunReq
  <2> QED
    BY Zenon, <2>1, <2>2, OwnershipKept
<1>3. CASE \/ ClientReadError \/ ClientFirstFrame \/ ClientDispatch \/ BeginRetired \/ BeginRefused
           \/ ClientTurnStarted \/ ClientWrite \/ ClientWriteError \/ ClientReject \/ ClientExit
  <2>1. UNCHANGED <<active, failed, taken, store>>
    BY <1>3, ZenonT(60) DEF ClientReadError, ClientFirstFrame, ClientDispatch, BeginRetired, BeginRefused,
       ClientTurnStarted, ClientWrite, ClientWriteError, ClientReject, ClientExit, Step,
       NotifyDeadline, RecordUpstream, ReportUpstream, ReportDisconnected
  <2> QED
    BY Zenon, <2>1, OwnershipKept DEF ActiveReq, FailedReq, CoreReq, RunReq
<1> QED
  BY Zenon, <1>1, <1>2, <1>3 DEF ClientStep

LEMMA OtherOwnership ==
    ASSUME Ownership, PeerStep \/ Stop \/ StopCancel \/ UNCHANGED vars
    PROVE  Ownership'
<1>1. UNCHANGED <<active, failed, taken, store>>
  BY Zenon DEF PeerStep, ClientRead, CoreRead, PeerDisconnect, CoreLost, Stop, StopCancel,
     CancelSession, vars
<1> QED
  BY Zenon, <1>1, OwnershipKept DEF ActiveReq, FailedReq, CoreReq, RunReq
-----------------------------------------------------------------------------
(* Program counters, the final sweep and the failure tail.                  *)

USE DEF CoreHolds, RunHolds, SweptFailed, SweptActive

LEMMA ClientControl ==
    ASSUME TypeOK, ControlInv, ClientStep
    PROVE  ControlInv'
<1>0. pc \in Pcs
  BY Zenon DEF TypeOK, LocalType
<1>1. active = None /\ ctxDone => active' = None
  BY <1>0, ClientFrame, ZenonT(60) DEF BeginOperation, RequestInterrupt
<1> QED
  BY Zenon, <1>0, <1>1, ClientFrame DEF ControlInv

LEMMA CoreControl ==
    ASSUME TypeOK, ControlInv, CoreStep
    PROVE  ControlInv'
<1>0. pc \in Pcs /\ taken \in [core: MaybeOperation, run: MaybeOperation] /\ coreLocal \in CoreLocals
  BY Zenon DEF TypeOK, LocalType
<1>1. pc.core # "done" /\ pc'.client = pc.client /\ pc'.run = pc.run
  <2>1. pc.core # "done"
    BY ZenonT(60) DEF CoreStep, CoreReadError, CoreFailedFooter, CoreClassify, CoreTerminalStatus,
       CoreObserveResponse, CoreObserveEvent, CoreDetach, CoreFinishPrevious, CoreNotifyTail,
       CoreNotifyDetached, CoreWrite, CoreWriteError, CoreFinishFooter, CoreTakeActive,
       CoreFinishTaken, CoreTurnFinished, CoreExit, FinishOperation, NotifyDeadline,
       RecordUpstream, ReportUpstream, ReportDisconnected
  <2>2. \E next : pc' = [pc EXCEPT !["core"] = next]
    BY ZenonT(60) DEF CoreStep, CoreReadError, CoreFailedFooter, CoreClassify, CoreTerminalStatus,
       CoreObserveResponse, CoreObserveEvent, CoreDetach, CoreFinishPrevious, CoreNotifyTail,
       CoreNotifyDetached, CoreWrite, CoreWriteError, CoreFinishFooter, CoreTakeActive,
       CoreFinishTaken, CoreTurnFinished, CoreExit, FinishOperation, NotifyDeadline,
       RecordUpstream, ReportUpstream, ReportDisconnected
  <2> QED
    BY Zenon, <1>0, <2>1, <2>2 DEF Pcs
<1>2. taken'.run = taken.run /\ UNCHANGED ctxDone
  <2>1. CASE CoreFailedFooter \/ CoreDetach \/ CoreTakeActive
    BY Zenon, <1>0, <2>1 DEF CoreFailedFooter, CoreDetach, CoreTakeActive
  <2>2. CASE CoreFinishPrevious \/ CoreFinishFooter \/ CoreFinishTaken
    BY <1>0, <2>2, ZenonT(60) DEF CoreFinishPrevious, CoreFinishFooter, CoreFinishTaken, FinishOperation
  <2>3. CASE \/ CoreReadError \/ CoreClassify \/ CoreTerminalStatus \/ CoreObserveResponse
             \/ CoreObserveEvent \/ CoreNotifyTail \/ CoreNotifyDetached \/ CoreWrite
             \/ CoreWriteError \/ CoreTurnFinished \/ CoreExit
    BY <2>3, ZenonT(60) DEF CoreReadError, CoreClassify, CoreTerminalStatus, CoreObserveResponse,
       CoreObserveEvent, CoreNotifyTail, CoreNotifyDetached, CoreWrite, CoreWriteError,
       CoreTurnFinished, CoreExit, NotifyDeadline, RecordUpstream, ReportUpstream,
       ReportDisconnected
  <2> QED
    BY Zenon, <2>1, <2>2, <2>3 DEF CoreStep
<1>3. /\ active = None => active' = None
      /\ active = None /\ failed = None => failed' = None
  BY <1>0, ZenonT(60) DEF CoreStep, CoreReadError, CoreFailedFooter, CoreClassify, CoreTerminalStatus,
     CoreObserveResponse, CoreObserveEvent, CoreDetach, CoreFinishPrevious, CoreNotifyTail,
     CoreNotifyDetached, CoreWrite, CoreWriteError, CoreFinishFooter, CoreTakeActive,
     CoreFinishTaken, CoreTurnFinished, CoreExit, FinishOperation, NotifyDeadline,
     RecordUpstream, ReportUpstream, ReportDisconnected
<1>4. taken'.core # None => CoreHolds'
  <2>1. CASE CoreFailedFooter
    BY Zenon, <1>0, <2>1 DEF CoreFailedFooter, Pcs, CoreLocals
  <2>2. CASE CoreDetach \/ CoreTakeActive
    BY Zenon, <1>0, <2>2 DEF CoreDetach, CoreTakeActive, Pcs
  <2>3. CASE CoreFinishPrevious \/ CoreFinishFooter \/ CoreFinishTaken
    BY <1>0, <2>3, ZenonT(60) DEF CoreFinishPrevious, CoreFinishFooter, CoreFinishTaken, FinishOperation
  <2>4. CASE CoreTerminalStatus
    BY Zenon, <1>0, <2>4 DEF CoreTerminalStatus, ControlInv, Pcs, CoreLocals
  <2>5. CASE CoreWrite \/ CoreWriteError
    BY <1>0, <2>5, ZenonT(60) DEF CoreWrite, CoreWriteError, Pcs
  <2>6. CASE \/ CoreReadError \/ CoreClassify \/ CoreObserveResponse \/ CoreObserveEvent
             \/ CoreNotifyTail \/ CoreNotifyDetached \/ CoreTurnFinished \/ CoreExit
    BY Zenon, <2>6 DEF CoreReadError, CoreClassify, CoreObserveResponse, CoreObserveEvent,
       CoreNotifyTail, CoreNotifyDetached, CoreTurnFinished, CoreExit, NotifyDeadline,
       RecordUpstream, ReportUpstream, ReportDisconnected, ControlInv
  <2> QED
    BY Zenon, <2>1, <2>2, <2>3, <2>4, <2>5, <2>6 DEF CoreStep
<1> QED
  BY Zenon, <1>1, <1>2, <1>3, <1>4 DEF ControlInv
LEMMA RunControl ==
    ASSUME TypeOK, ControlInv, RunStep \/ RunTimer
    PROVE  ControlInv'
<1>0. pc \in Pcs /\ taken \in [core: MaybeOperation, run: MaybeOperation]
  BY Zenon DEF TypeOK, LocalType
<1>1. CASE RunTailExpires \/ RunTakeFailedFirst \/ RunTakeFailed
  <2>1. /\ pc'.core = pc.core /\ taken'.core = taken.core /\ UNCHANGED <<coreLocal, active, ctxDone>>
        /\ failed' = None /\ pc'.run # "returned"
    BY Zenon, <1>0, <1>1 DEF RunTailExpires, RunTakeFailedFirst, RunTakeFailed, TakeFailed, Pcs
  <2>2. taken'.run # None => RunHolds'
    <3>1. CASE failed = None
      BY Zenon, <1>0, <1>1, <3>1 DEF RunTailExpires, RunTakeFailedFirst, RunTakeFailed, TakeFailed
    <3>2. CASE failed # None
      BY Zenon, <1>0, <1>1, <3>2 DEF RunTailExpires, RunTakeFailedFirst, RunTakeFailed, TakeFailed, Pcs
    <3> QED
      BY Zenon, <3>1, <3>2
  <2>3. pc'.run \in SweptActive => pc.run \in SweptActive
    BY <1>0, <1>1 DEF RunTailExpires, RunTakeFailedFirst, RunTakeFailed, TakeFailed, Pcs
  <2>4. pc'.run # "takeActive"
    BY Zenon, <1>0, <1>1 DEF RunTailExpires, RunTakeFailedFirst, RunTakeFailed, TakeFailed, Pcs
  <2> QED
    BY <2>1, <2>2, <2>3, <2>4, ZenonT(60) DEF ControlInv
<1>2. CASE RunTakeActive
  BY Zenon, <1>0, <1>2 DEF RunTakeActive, ControlInv, Pcs
<1>3. CASE RunFinishExpired \/ RunFinishFailedFirst \/ RunFinishFailed \/ RunFinishActive
  <2>1. /\ pc'.core = pc.core /\ taken'.core = taken.core /\ taken'.run = None
        /\ UNCHANGED <<coreLocal, active, failed, ctxDone>>
    BY <1>0, <1>3, ZenonT(60) DEF RunFinishExpired, RunFinishFailedFirst, RunFinishFailed, RunFinishActive,
       FinishOperation, Pcs
  <2>2. /\ pc'.run \in SweptActive => pc.run \in SweptActive
        /\ pc'.run \in SweptFailed => pc.run \in SweptFailed
        /\ pc'.run \notin {"takeActive", "returned"}
    BY <1>0, <1>3, ZenonT(60) DEF RunFinishExpired, RunFinishFailedFirst, RunFinishFailed, RunFinishActive,
       FinishOperation, Pcs
  <2> QED
    BY <2>1, <2>2, ZenonT(60) DEF ControlInv
<1>4. CASE RunCancel
  BY <1>0, <1>4, ZenonT(60) DEF RunCancel, CancelSession, ControlInv, Pcs
<1>5. CASE RunReturn
  BY <1>0, <1>5, ZenonT(60) DEF RunReturn, Step, ControlInv, Pcs
<1>6. CASE \/ RunDeadline \/ RunTailCause \/ RunTailResult \/ RunResult \/ RunFinishSession
           \/ RunClosePublic \/ RunTimer
  <2>1. /\ pc'.core = pc.core /\ pc'.client = pc.client
        /\ UNCHANGED <<taken, coreLocal, active, failed, ctxDone>>
    BY <1>0, <1>6 DEF RunDeadline, RunTailCause, RunTailResult, RunResult, RunFinishSession,
       RunClosePublic, RunTimer, RecordUpstream, Pcs
  <2>2. /\ pc.run \in {"select", "tailCause", "tailResult", "finishSession", "closePublic"}
        /\ pc'.run \in {"select", "tailResult", "finishSession", "takeFailedFirst", "cancel"}
    BY Zenon, <1>0, <1>6 DEF RunDeadline, RunTailCause, RunTailResult, RunResult, RunFinishSession,
       RunClosePublic, RunTimer, RecordUpstream, Pcs
  <2> QED
    BY <2>1, <2>2, ZenonT(60) DEF ControlInv
<1> QED
  BY Zenon, <1>1, <1>2, <1>3, <1>4, <1>5, <1>6 DEF RunStep

LEMMA OtherControl ==
    ASSUME TypeOK, ControlInv, PeerStep \/ Stop \/ StopCancel \/ UNCHANGED vars
    PROVE  ControlInv'
<1>0. pc \in Pcs
  BY Zenon DEF TypeOK, LocalType
<1>1. ASSUME NEW event \in CoreFrames, CoreRead(event)
      PROVE  ControlInv'
  <2>1. /\ pc.core = "read" /\ pc'.run = pc.run /\ pc'.client = pc.client
        /\ UNCHANGED <<taken, active, failed, ctxDone>>
    BY Zenon, <1>0, <1>1 DEF CoreRead, Pcs
  <2> QED
    BY <2>1, ZenonT(60) DEF ControlInv
<1>2. ASSUME NEW frame \in ClientFrames, ClientRead(frame)
      PROVE  ControlInv'
  BY Zenon, <1>0, <1>2 DEF ClientRead, ControlInv, Pcs
<1>3. CASE PeerDisconnect \/ (\E how \in CoreCloses : CoreLost(how)) \/ Stop \/ UNCHANGED vars
  BY <1>3, ZenonT(60) DEF PeerDisconnect, CoreLost, Stop, vars, ControlInv
<1>4. CASE StopCancel
  BY <1>4, ZenonT(60) DEF StopCancel, CancelSession, ControlInv
<1> QED
  BY Zenon, <1>1, <1>2, <1>3, <1>4 DEF PeerStep
\* The isolation of the failure tail.
LEMMA ErrorRetires ==
    ASSUME TypeOK, coreLocal.event.footer
    PROVE  coreLocal.event.type = "error"
<1>1. coreLocal.event \in ServerEvents \cup OpaqueFrames \cup {NoEvent}
  BY Zenon DEF TypeOK, LocalType, CoreLocals
<1>2. CASE coreLocal.event \in ServerEvents
  BY Zenon, <1>2 DEF ServerEvents
<1>3. CASE coreLocal.event \in OpaqueFrames
  BY <1>3, ZenonT(60) DEF OpaqueFrames
<1>4. CASE coreLocal.event = NoEvent
  BY <1>4 DEF NoEvent
<1> QED
  BY Zenon, <1>1, <1>2, <1>3, <1>4

LEMMA ClientTail ==
    ASSUME TypeOK, TailInv, ClientStep
    PROVE  TailInv'
<1>0. pc \in Pcs
  BY Zenon DEF TypeOK, LocalType
<1>1. retired /\ active = None => UNCHANGED <<active, generation, failedResponseObserved>>
  BY <1>0, ClientFrame, ZenonT(60) DEF BeginOperation, RequestInterrupt
<1> QED
  BY ZenonT(60), <1>0, <1>1, ClientFrame DEF TailInv, FailureTailIsolated

LEMMA CoreTail ==
    ASSUME TypeOK, TailInv, CoreStep
    PROVE  TailInv'
<1>0. pc \in Pcs
  BY Zenon DEF TypeOK, LocalType
<1>1. CASE CoreFailedFooter
  BY Zenon, <1>0, <1>1 DEF CoreFailedFooter, TailInv, FailureTailIsolated, Pcs
<1>2. CASE CoreObserveEvent
  <2>1. UNCHANGED <<failed, generation, failedResponseObserved>>
        /\ (active = None => active' = None) /\ (retired => retired')
    BY <1>2, ZenonT(60) DEF CoreObserveEvent
  <2>2. pc'.core = "detach" => retired'
    BY <1>0, <1>2, ErrorRetires, ZenonT(60) DEF CoreObserveEvent, Retires, Pcs
  <2> QED
    BY Zenon, <2>1, <2>2 DEF TailInv, FailureTailIsolated
<1>3. CASE CoreDetach
  <2>1. pc'.core # "detach" /\ retired /\ UNCHANGED <<retired, generation>>
    BY Zenon, <1>0, <1>3 DEF CoreDetach, TailInv, Pcs
  <2>2. CASE active = None
    BY <1>3, <2>1, <2>2 DEF CoreDetach, TailInv, FailureTailIsolated
  <2>3. CASE active # None
    BY <1>3, <2>1, <2>3 DEF CoreDetach, TailInv, FailureTailIsolated
  <2> QED
    BY Zenon, <2>2, <2>3
<1>4. CASE CoreObserveResponse \/ CoreTakeActive
  BY Zenon, <1>0, <1>4 DEF CoreObserveResponse, CoreTakeActive, TailInv, FailureTailIsolated, Pcs
<1>5. CASE \/ CoreReadError \/ CoreClassify \/ CoreTerminalStatus \/ CoreFinishPrevious
           \/ CoreNotifyTail \/ CoreNotifyDetached \/ CoreWrite \/ CoreWriteError
           \/ CoreFinishFooter \/ CoreFinishTaken \/ CoreTurnFinished \/ CoreExit
  <2>1. UNCHANGED locked
    BY <1>5, ZenonT(60) DEF CoreReadError, CoreClassify, CoreTerminalStatus, CoreFinishPrevious,
       CoreNotifyTail, CoreNotifyDetached, CoreWrite, CoreWriteError, CoreFinishFooter,
       CoreFinishTaken, CoreTurnFinished, CoreExit, FinishOperation, NotifyDeadline,
       RecordUpstream, ReportUpstream, ReportDisconnected
  <2>2. \E next : next # "detach" /\ pc' = [pc EXCEPT !["core"] = next]
    BY <1>5, ZenonT(60) DEF CoreReadError, CoreClassify, CoreTerminalStatus, CoreFinishPrevious,
       CoreNotifyTail, CoreNotifyDetached, CoreWrite, CoreWriteError, CoreFinishFooter,
       CoreFinishTaken, CoreTurnFinished, CoreExit, FinishOperation, NotifyDeadline,
       RecordUpstream, ReportUpstream, ReportDisconnected
  <2>3. pc'.core # "detach"
    BY Zenon, <1>0, <2>2 DEF Pcs
  <2> QED
    BY Zenon, <2>1, <2>3 DEF TailInv, FailureTailIsolated
<1> QED
  BY Zenon, <1>1, <1>2, <1>3, <1>4, <1>5 DEF CoreStep

LEMMA OtherTail ==
    ASSUME TypeOK, TailInv, RunStep \/ RunTimer \/ PeerStep \/ Stop \/ StopCancel \/ UNCHANGED vars
    PROVE  TailInv'
<1>0. pc \in Pcs
  BY Zenon DEF TypeOK, LocalType
<1>1. CASE RunStep \/ RunTimer
  <2>1. /\ UNCHANGED <<retired, generation, failedResponseObserved>>
        /\ active' \in {active, None} /\ failed' \in {failed, None}
    BY <1>1, ZenonT(60) DEF RunStep, RunTimer, RunDeadline, RunTailExpires, RunFinishExpired, RunTailCause,
       RunTailResult, RunResult, RunFinishSession, RunTakeFailedFirst, RunFinishFailedFirst,
       RunClosePublic, RunCancel, RunTakeActive, RunFinishActive, RunTakeFailed,
       RunFinishFailed, RunReturn, TakeFailed, FinishOperation, RecordUpstream, CancelSession, Step
  <2>2. \E next : pc' = [pc EXCEPT !["run"] = next] \/ pc' = pc
    BY <1>1, ZenonT(60) DEF RunStep, RunTimer, RunDeadline, RunTailExpires, RunFinishExpired, RunTailCause,
       RunTailResult, RunResult, RunFinishSession, RunTakeFailedFirst, RunFinishFailedFirst,
       RunClosePublic, RunCancel, RunTakeActive, RunFinishActive, RunTakeFailed,
       RunFinishFailed, RunReturn, TakeFailed, FinishOperation, RecordUpstream, CancelSession, Step
  <2>3. pc'.core = pc.core
    BY Zenon, <1>0, <2>2 DEF Pcs
  <2> QED
    BY Zenon, <2>1, <2>3 DEF TailInv, FailureTailIsolated
<1>2. ASSUME NEW event \in CoreFrames, CoreRead(event)
      PROVE  TailInv'
  BY Zenon, <1>0, <1>2 DEF CoreRead, TailInv, FailureTailIsolated, Pcs
<1>3. ASSUME NEW frame \in ClientFrames, ClientRead(frame)
      PROVE  TailInv'
  BY Zenon, <1>0, <1>3 DEF ClientRead, TailInv, FailureTailIsolated, Pcs
<1>4. CASE PeerDisconnect \/ (\E how \in CoreCloses : CoreLost(how)) \/ Stop \/ StopCancel
           \/ UNCHANGED vars
  BY <1>4, ZenonT(60) DEF PeerDisconnect, CoreLost, Stop, StopCancel, CancelSession, vars, TailInv,
     FailureTailIsolated
<1> QED
  BY Zenon, <1>1, <1>2, <1>3, <1>4 DEF PeerStep
-----------------------------------------------------------------------------
(* Usage stays with the response it was reported for.                       *)

\* What an event of the operation's own response leaves on it.
LEMMA EventUsage ==
    ASSUME NEW op \in Operations, NEW event, event.id \in Ids, NEW terminal, BoundUsage(op),
           ~(op.responseID # NoId /\ event.id # NoId /\ op.responseID # event.id)
    PROVE  BoundUsage(WithEvent(op, event, terminal))
<1> DEFINE new == WithEvent(op, event, terminal)
<1>1. new.responseID = IF op.responseID = NoId THEN event.id ELSE op.responseID
  BY Zenon DEF WithEvent, WithUsage, Operations
<1>2. new.usage = IF event.usage THEN event.id ELSE op.usage
  BY Zenon DEF WithEvent, WithUsage, Operations
<1> HIDE DEF new
<1>3. ASSUME new.usage \in ResponseIds
      PROVE  new.responseID = new.usage
  <2>1. CASE event.usage
    BY Zenon, <1>1, <1>2, <1>3, <2>1, ConstantsAssumption
  <2>2. CASE ~event.usage
    BY Zenon, <1>1, <1>2, <1>3, <2>2, ConstantsAssumption DEF BoundUsage
  <2> QED
    BY Zenon, <2>1, <2>2
<1>4. BoundUsage(new)
  BY Zenon, <1>3 DEF BoundUsage
<1> QED
  BY Zenon, <1>4 DEF new

LEMMA FooterUsage ==
    ASSUME TypeOK, UsageInv, CoreFailedFooter
    PROVE  OwnUsage(WithUsage(failed.op, coreLocal.event))
<1> DEFINE op == failed.op
           event == coreLocal.event
<1>1. op \in Operations /\ BoundUsage(op)
  BY Zenon DEF CoreFailedFooter, InFailureTail, TypeOK, LockedType, TailStates, FailedOperations, UsageInv
<1>2. op.responseID = NoId \/ event.id = op.responseID
  BY Zenon DEF CoreFailedFooter, InFailureTail
<1> HIDE DEF op, event
<1>3. WithUsage(op, event).responseID = op.responseID
  BY Zenon, <1>1 DEF WithUsage, Operations
<1>4. WithUsage(op, event).usage = IF event.usage THEN event.id ELSE op.usage
  BY Zenon, <1>1 DEF WithUsage, Operations
<1>5. OwnUsage(WithUsage(op, event))
  BY Zenon, <1>1, <1>2, <1>3, <1>4 DEF OwnUsage, BoundUsage
<1> QED
  BY Zenon, <1>5 DEF op, event

\* A step that leaves the active operation's response and usage alone keeps UsageInv.
LEMMA UsageKept ==
    ASSUME UsageInv, UNCHANGED <<failed, taken, coreLocal>>, pc'.core = pc.core,
           \/ active' = None
           \/ active' = active
           \/ /\ active # None
              /\ active'.usage = active.usage /\ active'.responseID = active.responseID
    PROVE  UsageInv'
BY ZenonT(60) DEF UsageInv, BoundUsage, OwnUsage, OfOtherResponse

LEMMA ClientUsage ==
    ASSUME TypeOK, UsageInv, ClientStep
    PROVE  UsageInv'
<1>0. pc \in Pcs
  BY Zenon DEF TypeOK, LocalType
<1>2. pc'.core = pc.core
  BY Zenon, <1>0, ClientFrame
<1>3. UNCHANGED <<failed, taken, coreLocal>>
  BY Zenon, <1>0, ClientFrame
<1>4. ASSUME NEW r \in Requests, BeginOperation(r)
      PROVE  UsageInv'
  <2>1. CASE active' = active
    BY Zenon, <1>2, <1>3, <2>1, UsageKept
  <2>2. CASE active' # active
    <3>1. active' = NewOperation(r)
      BY Zenon, <1>4, <2>2 DEF BeginOperation
    <3>2. active'.usage = None /\ active'.responseID = NoId
      BY Zenon, <3>1 DEF NewOperation
    <3>3. BoundUsage(active)' /\ ~OfOtherResponse(coreLocal.event)'
      BY Zenon, <3>2, ConstantsAssumption DEF BoundUsage, OfOtherResponse, Ids
    <3> QED
      BY Zenon, <1>2, <1>3, <3>3 DEF UsageInv, BoundUsage, OwnUsage
  <2> QED
    BY Zenon, <2>1, <2>2
<1>5. CASE RequestInterrupt
  <2>1. CASE active' = active
    BY Zenon, <1>2, <1>3, <2>1, UsageKept
  <2>2. CASE active' # active
    <3>1. active # None /\ active' = [active EXCEPT !.interruptRequested = TRUE]
      BY Zenon, <1>5, <2>2 DEF RequestInterrupt
    <3>2. active \in Operations
      BY Zenon, <3>1 DEF TypeOK, LockedType, MaybeOperation
    <3>3. active'.usage = active.usage /\ active'.responseID = active.responseID
      BY Zenon, <3>1, <3>2 DEF Operations
    <3> QED
      BY Zenon, <1>2, <1>3, <3>1, <3>3, UsageKept
  <2> QED
    BY Zenon, <2>1, <2>2
<1>6. CASE \/ ClientReadError \/ ClientFirstFrame \/ ClientDispatch \/ BeginRetired \/ BeginRefused
           \/ ClientTurnStarted \/ ClientWrite \/ ClientWriteError \/ ClientReject \/ ClientExit
  <2>1. UNCHANGED active
    BY <1>6, ZenonT(60) DEF ClientReadError, ClientFirstFrame, ClientDispatch, BeginRetired, BeginRefused,
       ClientTurnStarted, ClientWrite, ClientWriteError, ClientReject, ClientExit, Step,
       NotifyDeadline, RecordUpstream, ReportUpstream, ReportDisconnected
  <2> QED
    BY Zenon, <1>2, <1>3, <2>1, UsageKept
<1> QED
  BY Zenon, <1>4, <1>5, <1>6 DEF ClientStep
LEMMA CoreUsage ==
    ASSUME TypeOK, UsageInv, CoreStep
    PROVE  UsageInv'
<1>0. /\ pc \in Pcs /\ coreLocal \in CoreLocals
      /\ taken \in [core: MaybeOperation, run: MaybeOperation]
  BY Zenon DEF TypeOK, LocalType
<1> USE DEF OwnUsage, BoundUsage
<1>1. CASE CoreFailedFooter
  <2>1. OwnUsage(WithUsage(failed.op, coreLocal.event))
    BY Zenon, <1>1, FooterUsage
  <2>2. taken'.core = WithUsage(failed.op, coreLocal.event) /\ taken'.run = taken.run
    BY Zenon, <1>0, <1>1 DEF CoreFailedFooter
  <2>3. pc'.core = "status" /\ coreLocal'.old /\ failed' = None /\ UNCHANGED active
    BY Zenon, <1>0, <1>1 DEF CoreFailedFooter, Pcs, CoreLocals
  <2> QED
    BY <2>1, <2>2, <2>3, ZenonT(60) DEF UsageInv
<1>2. CASE CoreClassify
  <2>1. pc'.core = "status" /\ UNCHANGED <<active, failed, taken>>
    BY Zenon, <1>0, <1>2 DEF CoreClassify, Pcs
  <2>2. coreLocal'.event = coreLocal.event
        /\ (OfOtherResponse(coreLocal.event) => coreLocal'.old)
    BY <1>0, <1>2, ZenonT(60) DEF CoreClassify, CoreLocals
  <2> QED
    BY Zenon, <2>1, <2>2 DEF UsageInv, OfOtherResponse
<1>3. CASE CoreTerminalStatus
  <2>1. UNCHANGED <<active, failed, taken>> /\ pc.core = "status"
        /\ pc'.core = IF coreLocal.old THEN "write" ELSE "observeCore"
    BY Zenon, <1>0, <1>3 DEF CoreTerminalStatus, Pcs
  <2>2. coreLocal'.event = coreLocal.event /\ coreLocal'.old = coreLocal.old
    BY Zenon, <1>0, <1>3 DEF CoreTerminalStatus, CoreLocals
  <2> QED
    BY Zenon, <2>1, <2>2 DEF UsageInv, OfOtherResponse
<1>4. CASE CoreObserveResponse
  <2>1. UNCHANGED <<failed, taken, coreLocal>>
        /\ (pc.core = "observeCore" \/ pc'.core = "recordUpstream")
    BY Zenon, <1>0, <1>4 DEF CoreObserveResponse, Pcs
  <2>2. CASE active = None
    <3>1. active' = None
      BY Zenon, <1>4, <2>2 DEF CoreObserveResponse
    <3> QED
      BY <2>1, <3>1, ZenonT(60) DEF UsageInv, OfOtherResponse
  <2>3. CASE active # None
    <3>1. active \in Operations
      BY Zenon, <2>3 DEF TypeOK, LockedType, MaybeOperation
    <3>2. active'.usage = active.usage /\ active'.responseID = active.responseID
      BY Zenon, <1>4, <2>3, <3>1 DEF CoreObserveResponse, Operations
    <3> QED
      BY <2>1, <2>3, <3>2, ZenonT(60) DEF UsageInv, OfOtherResponse
  <2> QED
    BY Zenon, <2>2, <2>3
<1>5. CASE CoreObserveEvent
  <2>1. UNCHANGED <<failed, taken, coreLocal>> /\ pc.core = "observeEvent"
        /\ pc'.core \in {"detach", "write"}
    BY <1>0, <1>5, ZenonT(60) DEF CoreObserveEvent, Pcs
  <2>2. active' # None => BoundUsage(active')
    <3>1. SUFFICES ASSUME active # None
                   PROVE  BoundUsage(WithEvent(active, coreLocal.event, coreLocal.terminal))
      BY <1>5, ZenonT(60) DEF CoreObserveEvent
    <3>2. active \in Operations
      BY Zenon, <3>1 DEF TypeOK, LockedType, MaybeOperation
    <3>3. coreLocal.event.id \in Ids
      BY Zenon, <1>0, EventIds DEF CoreLocals
    <3>4. BoundUsage(active) /\ ~OfOtherResponse(coreLocal.event)
      BY Zenon, <2>1, <3>1 DEF UsageInv
    <3> QED
      BY <3>1, <3>2, <3>3, <3>4, EventUsage DEF OfOtherResponse
  <2> QED
    BY <2>1, <2>2, ZenonT(60) DEF UsageInv
<1>6. CASE CoreDetach
  <2>1. pc'.core = "finishPrevious" /\ UNCHANGED coreLocal
    BY Zenon, <1>0, <1>6 DEF CoreDetach, Pcs
  <2>2. CASE active = None
    BY Zenon, <1>6, <2>1, <2>2 DEF CoreDetach, UsageInv
  <2>3. CASE active # None
    <3>1. /\ taken'.core = IF failed = None THEN None ELSE failed.op
          /\ taken'.run = taken.run
      BY Zenon, <1>0, <1>6, <2>3 DEF CoreDetach
    <3>2. failed'.op = active /\ active' = None
      BY <1>6, <2>3 DEF CoreDetach
    <3> QED
      BY Zenon, <2>1, <2>3, <3>1, <3>2 DEF UsageInv
  <2> QED
    BY Zenon, <2>2, <2>3
<1>7. CASE CoreTakeActive
  <2>1. /\ taken'.core = active /\ taken'.run = taken.run /\ active' = None /\ UNCHANGED failed
        /\ pc'.core \in {"read", "finishTaken"}
    BY Zenon, <1>0, <1>7 DEF CoreTakeActive, Pcs
  <2> QED
    BY Zenon, <2>1 DEF UsageInv
<1>8. CASE CoreFinishPrevious \/ CoreFinishFooter \/ CoreFinishTaken
  <2>1. /\ taken'.core = None /\ taken'.run = taken.run /\ UNCHANGED <<active, failed>>
        /\ pc'.core \in {"notifyTail", "recordUpstream", "reportClient", "notifyFinished"}
    BY <1>0, <1>8, ZenonT(60) DEF CoreFinishPrevious, CoreFinishFooter, CoreFinishTaken, FinishOperation, Pcs
  <2> QED
    BY Zenon, <2>1 DEF UsageInv
<1>9. CASE \/ CoreReadError \/ CoreNotifyTail \/ CoreNotifyDetached \/ CoreWrite
           \/ CoreWriteError \/ CoreTurnFinished \/ CoreExit
  <2>1. UNCHANGED <<active, failed, taken>>
    BY Zenon, <1>9 DEF CoreReadError, CoreNotifyTail, CoreNotifyDetached, CoreWrite, CoreWriteError,
       CoreTurnFinished, CoreExit, NotifyDeadline, RecordUpstream, ReportUpstream,
       ReportDisconnected
  <2>2. \E next : /\ next \notin {"status", "observeCore", "observeEvent"}
                  /\ pc' = [pc EXCEPT !["core"] = next]
    BY <1>9, ZenonT(60) DEF CoreReadError, CoreNotifyTail, CoreNotifyDetached, CoreWrite, CoreWriteError,
       CoreTurnFinished, CoreExit, NotifyDeadline, RecordUpstream, ReportUpstream,
       ReportDisconnected
  <2>3. pc'.core \notin {"status", "observeCore", "observeEvent"}
    BY Zenon, <1>0, <2>2 DEF Pcs
  <2> QED
    BY <2>1, <2>3, ZenonT(60) DEF UsageInv
<1> QED
  BY Zenon, <1>1, <1>2, <1>3, <1>4, <1>5, <1>6, <1>7, <1>8, <1>9 DEF CoreStep

LEMMA OtherUsage ==
    ASSUME TypeOK, UsageInv,
           RunStep \/ RunTimer \/ PeerStep \/ Stop \/ StopCancel \/ UNCHANGED vars
    PROVE  UsageInv'
<1>0. /\ pc \in Pcs /\ taken \in [core: MaybeOperation, run: MaybeOperation]
  BY Zenon DEF TypeOK, LocalType
<1> USE DEF OwnUsage, BoundUsage
<1>1. CASE RunTailExpires \/ RunTakeFailedFirst \/ RunTakeFailed
  <2>1. /\ pc'.core = pc.core /\ failed' = None /\ UNCHANGED <<active, coreLocal>>
        /\ taken'.core = taken.core
        /\ taken'.run = IF failed = None THEN None ELSE failed.op
    BY Zenon, <1>0, <1>1 DEF RunTailExpires, RunTakeFailedFirst, RunTakeFailed, TakeFailed, Pcs
  <2> QED
    BY <2>1, ZenonT(60) DEF UsageInv, OfOtherResponse
<1>2. CASE RunTakeActive
  <2>1. /\ pc'.core = pc.core /\ active' = None /\ UNCHANGED <<failed, coreLocal>>
        /\ taken'.core = taken.core /\ taken'.run = active
    BY Zenon, <1>0, <1>2 DEF RunTakeActive, Pcs
  <2> QED
    BY <2>1, ZenonT(60) DEF UsageInv, OfOtherResponse
<1>3. CASE RunFinishExpired \/ RunFinishFailedFirst \/ RunFinishFailed \/ RunFinishActive
  <2>1. /\ pc'.core = pc.core /\ UNCHANGED <<active, failed, coreLocal>>
        /\ taken'.core = taken.core /\ taken'.run = None
    BY <1>0, <1>3, ZenonT(60) DEF RunFinishExpired, RunFinishFailedFirst, RunFinishFailed, RunFinishActive,
       FinishOperation, Pcs
  <2> QED
    BY <2>1, ZenonT(60) DEF UsageInv, OfOtherResponse
<1>4. CASE \/ RunDeadline \/ RunTailCause \/ RunTailResult \/ RunResult \/ RunFinishSession
           \/ RunClosePublic \/ RunCancel \/ RunReturn \/ RunTimer
  <2>1. pc'.core = pc.core /\ UNCHANGED <<active, failed, taken, coreLocal>>
    BY <1>0, <1>4, ZenonT(60) DEF RunDeadline, RunTailCause, RunTailResult, RunResult, RunFinishSession,
       RunClosePublic, RunCancel, RunReturn, RunTimer, RecordUpstream, CancelSession, Step, Pcs
  <2> QED
    BY Zenon, <2>1, UsageKept
<1>5. ASSUME NEW event \in CoreFrames, CoreRead(event)
      PROVE  UsageInv'
  <2>1. UNCHANGED <<active, failed, taken>>
        /\ pc'.core \in {"read", "recordUpstream", "observeMalformed", "classify"}
    BY Zenon, <1>0, <1>5 DEF CoreRead, Pcs
  <2> QED
    BY Zenon, <2>1 DEF UsageInv
<1>6. CASE \/ (\E frame \in ClientFrames : ClientRead(frame)) \/ PeerDisconnect
           \/ (\E how \in CoreCloses : CoreLost(how)) \/ Stop \/ StopCancel \/ UNCHANGED vars
  <2>1. pc'.core = pc.core /\ UNCHANGED <<active, failed, taken, coreLocal>>
    BY Zenon, <1>0, <1>6 DEF ClientRead, PeerDisconnect, CoreLost, Stop, StopCancel, CancelSession, vars, Pcs
  <2> QED
    BY Zenon, <2>1, UsageKept
<1> QED
  BY Zenon, <1>1, <1>2, <1>3, <1>4, <1>5, <1>6 DEF RunStep, PeerStep
-----------------------------------------------------------------------------
(* The invariant and what follows from it.                                  *)

LEMMA InitInv == Init => IInv
<1> SUFFICES ASSUME Init PROVE IInv
  BY Zenon
<1>1. ActiveReq = {} /\ FailedReq = {} /\ CoreReq = {} /\ RunReq = {}
  BY Zenon DEF Init, ActiveReq, FailedReq, CoreReq, RunReq
<1>2. Ownership
  <2>1. \A r \in Requests : rows[r].status = "absent" /\ finishes[r] = 0
    BY Zenon DEF Init
  <2>2. InHand = {}
    BY Zenon, <1>1 DEF InHand
  <2> QED
    BY <1>1, <2>1, <2>2 DEF Ownership
<1>3. ControlInv /\ TailInv
  BY ZenonT(60) DEF Init, ControlInv, TailInv, FailureTailIsolated
<1>4. UsageInv
  BY ZenonT(60) DEF Init, UsageInv
<1> QED
  BY Zenon, <1>2, <1>3, <1>4, InitTypes DEF IInv

LEMMA NextInv == IInv /\ [Next]_vars => IInv'
<1> SUFFICES ASSUME IInv, [Next]_vars PROVE IInv'
  BY Zenon
<1>0. TypeOK'
  BY Zenon, NextTypes DEF IInv
<1>1. CASE ClientStep
  BY Zenon, <1>0, <1>1, ClientOwnership, ClientControl, ClientTail, ClientUsage DEF IInv
<1>2. CASE CoreStep
  BY Zenon, <1>0, <1>2, CoreOwnership, CoreControl, CoreTail, CoreUsage DEF IInv
<1>3. CASE RunStep \/ RunTimer
  BY Zenon, <1>0, <1>3, RunOwnership, RunControl, OtherTail, OtherUsage DEF IInv
<1>4. CASE PeerStep \/ Stop \/ StopCancel \/ UNCHANGED vars
  BY Zenon, <1>0, <1>4, OtherOwnership, OtherControl, OtherTail, OtherUsage DEF IInv
<1> QED
  BY Zenon, <1>1, <1>2, <1>3, <1>4 DEF Next, Returned

THEOREM Inductive == Spec => []IInv
BY InitInv, NextInv, PTL DEF Spec

\* takeActive, takeFailedOperation, failedServerEvent and detachFailedOperation hand
\* an operation to exactly one finisher: finishOperation runs at most once for it.
\* When run returns nothing is in anyone's hands, so every operation whose row was
\* started has been finished: the pumps cannot slip one past the final sweep.
THEOREM Accounted == Spec => []AccountedOnce
<1>1. ASSUME IInv
      PROVE  \A r \in Requests : finishes[r] <= 1
  BY Zenon, <1>1 DEF IInv, Ownership
<1>2. ASSUME IInv, pc.run = "returned", NEW r \in Requests, rows[r].status # "absent"
      PROVE  finishes[r] = 1
  <2>1. active = None /\ failed = None /\ taken.core = None /\ taken.run = None
    BY Zenon, <1>2 DEF IInv, ControlInv
  <2>2. r \notin InHand
    BY Zenon, <2>1 DEF InHand, ActiveReq, FailedReq, CoreReq, RunReq
  <2>3. finishes[r] \in Nat /\ finishes[r] # 0 /\ finishes[r] <= 1
    BY Zenon, <1>2, <2>2 DEF IInv, Ownership, TypeOK, StoreType
  <2> QED
    BY <2>3
<1>3. IInv => AccountedOnce
  BY Zenon, <1>1, <1>2 DEF AccountedOnce
<1> QED
  BY <1>3, Inductive, PTL

\* A failed operation waiting for its footer is alone on a retired stream.
THEOREM TailIsolated == Spec => []FailureTailIsolated
<1>1. IInv => FailureTailIsolated
  BY Zenon DEF IInv, TailInv
<1> QED
  BY <1>1, Inductive, PTL

\* observeServerEvent and failedServerEvent never book the usage of one response on
\* the operation of another.
THEOREM UsageTheorem == Spec => []UsageOfOwnResponse
<1>1. IInv => UsageOfOwnResponse
  BY Zenon DEF IInv, UsageInv, UsageOfOwnResponse, Held, BoundUsage, OwnUsage
<1> QED
  BY <1>1, Inductive, PTL
-----------------------------------------------------------------------------
(* What a completed row says.                                               *)

\* Where the core pump is while it handles an event it has read.
OnEvent == {"classify", "status", "observeCore", "observeEvent", "detach", "finishPrevious",
            "notifyTail", "notifyDetached", "write", "complete"}

\* The run loop from the moment it knows why the session ends, and how it can end.
Ending == {"finishSession", "takeFailedFirst", "finishFailedFirst", "closePublic", "cancel",
           "takeActive", "finishActive"}
Failures == [status: {"upstream_error", "client_disconnected"}, meta: Metadata]

EndingInv ==
    /\ results \in Seq(Failures)
    /\ pc.run \in Ending => runLocal \in Failures

\* While an event is handled no turn can begin under it: the active operation is the
\* forwarded one the event was read for, or is gone for good.
DeliveryInv ==
    /\ pc.core \in OnEvent => IF active = None THEN retired \/ ctxDone ELSE active.req \in forwarded
    /\ pc.core = "complete" /\ active # None => active.req \in delivered
    /\ pc.core = "finishTaken" /\ taken.core # None => taken.core.req \in delivered \cap forwarded
    /\ CompletedWasDelivered

LEMMA HistoriesGrow ==
    ASSUME [Next]_vars
    PROVE  forwarded \subseteq forwarded' /\ delivered \subseteq delivered' /\ (ctxDone => ctxDone')
<1>1. CASE ClientWrite \/ CoreWrite
  <2>1. CASE ClientWrite
    BY Zenon, <2>1 DEF ClientWrite
  <2>2. CASE CoreWrite
    BY Zenon, <2>2 DEF CoreWrite
  <2> QED
    BY Zenon, <1>1, <2>1, <2>2
<1>2. CASE RunCancel \/ StopCancel
  BY Zenon, <1>2 DEF RunCancel, StopCancel, CancelSession
<1>3. CASE ClientStep /\ ~ClientWrite
  <2>1. UNCHANGED <<forwarded, delivered, ctxDone>>
    BY <1>3, ZenonT(60) DEF ClientStep, ClientReadError, ClientFirstFrame, ClientDispatch, BeginRetired,
       BeginRefused, BeginOperation, ClientTurnStarted, RequestInterrupt, ClientWriteError,
       ClientReject, ClientExit, Step, NotifyDeadline, RecordUpstream, ReportUpstream,
       ReportDisconnected
  <2> QED
    BY Zenon, <2>1
<1>4. CASE CoreStep /\ ~CoreWrite
  <2>1. UNCHANGED <<forwarded, delivered, ctxDone>>
    BY <1>4, ZenonT(60) DEF CoreStep, CoreReadError, CoreFailedFooter, CoreClassify, CoreTerminalStatus,
       CoreObserveResponse, CoreObserveEvent, CoreDetach, CoreNotifyTail, CoreNotifyDetached,
       CoreWriteError, CoreTakeActive, CoreTurnFinished, CoreExit, NotifyDeadline, RecordUpstream,
       ReportUpstream, ReportDisconnected, CoreFinishPrevious, CoreFinishFooter, CoreFinishTaken,
       FinishOperation
  <2> QED
    BY Zenon, <2>1
<1>5. CASE (RunStep /\ ~RunCancel) \/ RunTimer
  <2>1. UNCHANGED <<forwarded, delivered, ctxDone>>
    BY <1>5, ZenonT(60) DEF RunStep, RunTimer, RunDeadline, RunTailExpires, RunTailCause, RunTailResult,
       RunResult, RunFinishSession, RunTakeFailedFirst, RunClosePublic, RunTakeActive,
       RunTakeFailed, RunReturn, TakeFailed, RecordUpstream, Step, RunFinishExpired,
       RunFinishFailedFirst, RunFinishFailed, RunFinishActive, FinishOperation
  <2> QED
    BY Zenon, <2>1
<1>6. CASE PeerStep \/ Stop \/ UNCHANGED vars
  <2>1. UNCHANGED <<forwarded, delivered, ctxDone>>
    BY <1>6, ZenonT(60) DEF PeerStep, ClientRead, CoreRead, PeerDisconnect, CoreLost, Stop, vars
  <2> QED
    BY Zenon, <2>1
<1> QED
  BY Zenon, <1>1, <1>2, <1>3, <1>4, <1>5, <1>6 DEF Next, Returned

\* The pumps report failures only, and the run loop keeps what it is told or less.
LEMMA EndingKept ==
    ASSUME TypeOK, EndingInv, [Next]_vars
    PROVE  EndingInv'
<1>0. pc \in Pcs
  BY Zenon DEF TypeOK, LocalType
<1>1. CASE ClientExit \/ CoreExit
  <2>1. pc'.run = pc.run /\ UNCHANGED runLocal
    <3>1. \E p \in {"client", "core"} : \E next : pc' = [pc EXCEPT ![p] = next]
      BY ZenonT(60), <1>1 DEF ClientExit, CoreExit, RecordUpstream, ReportUpstream, ReportDisconnected
    <3>2. UNCHANGED runLocal
      BY ZenonT(60), <1>1 DEF ClientExit, CoreExit, RecordUpstream, ReportUpstream, ReportDisconnected
    <3> QED
      BY Zenon, <1>0, <3>1, <3>2 DEF Pcs
  <2>2. coreLocal.meta \in Metadata
    BY Zenon DEF TypeOK, LocalType, CoreLocals
  <2>3. results' = results \/ \E f \in Failures : results' = Append(results, f)
    <3>1. ASSUME NEW p, NEW meta \in Metadata, ReportUpstream(p, meta)
          PROVE  \E f \in Failures : results' = Append(results, f)
      <4> DEFINE f == [status |-> "upstream_error",
                       meta |-> IF meta = "none" THEN CurrentDeliveryFailure ELSE meta]
      <4>1. f \in Failures
        BY Zenon, DeliveryAdvice DEF Failures
      <4> QED
        BY Zenon, <3>1, <4>1 DEF ReportUpstream
    <3>2. ASSUME NEW p, ReportDisconnected(p)
          PROVE  \E f \in Failures : results' = Append(results, f)
      <4> DEFINE f == [status |-> "client_disconnected", meta |-> "none"]
      <4>1. f \in Failures
        BY Zenon DEF Failures, Metadata
      <4> QED
        BY Zenon, <3>2, <4>1 DEF ReportDisconnected
    <3>3. ASSUME NEW p, NEW here, NEW next, RecordUpstream(p, here, next)
          PROVE  results' = results
      BY Zenon, <3>3 DEF RecordUpstream
    <3>4. "none" \in Metadata
      BY Zenon DEF Metadata
    <3> QED
      BY Zenon, <1>1, <2>2, <3>1, <3>2, <3>3, <3>4 DEF ClientExit, CoreExit
  <2>4. results' \in Seq(Failures)
    BY <2>3 DEF EndingInv
  <2> QED
    BY Zenon, <2>1, <2>4 DEF EndingInv
<1>2. CASE RunResult
  <2>1. results' = Tail(results) /\ runLocal' = Head(results) /\ results # <<>>
    BY Zenon, <1>2 DEF RunResult
  <2>2. results \in Seq(Failures)
    BY Zenon DEF EndingInv
  <2> QED
    BY <2>1, <2>2 DEF EndingInv
<1>3. CASE RunTailResult
  <2>1. runLocal' \in Failures /\ UNCHANGED results
    BY Zenon, <1>3, DeliveryAdvice DEF RunTailResult, Failures
  <2> QED
    BY Zenon, <2>1 DEF EndingInv
<1>4. CASE RunTimer
  <2>1. runLocal' \in Failures /\ UNCHANGED results
    BY Zenon, <1>4 DEF RunTimer, Failures, Metadata
  <2> QED
    BY Zenon, <2>1 DEF EndingInv
<1>5. CASE RunFinishSession
  <2>1. UNCHANGED results /\ runLocal \in Failures
    BY Zenon, <1>5 DEF RunFinishSession, EndingInv, Ending
  <2>2. runLocal' \in Failures
    <3>1. \E status \in {"upstream_error", "client_disconnected"} :
             runLocal' = [runLocal EXCEPT !.status = status]
      <4>1. runLocal.status \in {"upstream_error", "client_disconnected"}
        BY Zenon, <2>1 DEF Failures
      <4> QED
        BY Zenon, <1>5, <4>1 DEF RunFinishSession
    <3> QED
      BY Zenon, <2>1, <3>1 DEF Failures
  <2> QED
    BY Zenon, <2>1, <2>2 DEF EndingInv
<1>6. CASE \/ RunDeadline \/ RunTailExpires \/ RunFinishExpired \/ RunTailCause \/ RunTakeFailedFirst
           \/ RunFinishFailedFirst \/ RunClosePublic \/ RunCancel \/ RunTakeActive
           \/ RunFinishActive \/ RunTakeFailed \/ RunFinishFailed \/ RunReturn
  <2>1. UNCHANGED <<results, runLocal>>
    BY <1>6, ZenonT(60) DEF RunDeadline, RunTailExpires, RunFinishExpired, RunTailCause, RunTakeFailedFirst,
       RunFinishFailedFirst, RunClosePublic, RunCancel, RunTakeActive, RunFinishActive,
       RunTakeFailed, RunFinishFailed, RunReturn, TakeFailed, FinishOperation, RecordUpstream,
       CancelSession, Step
  <2>2. pc'.run \in Ending => pc.run \in Ending
    <3>1. CASE RunDeadline \/ RunTailExpires \/ RunFinishExpired \/ RunTailCause
      BY <1>0, <3>1, ZenonT(60) DEF RunDeadline, RunTailExpires, RunFinishExpired, RunTailCause, TakeFailed,
         FinishOperation, RecordUpstream, Ending, Pcs
    <3>2. CASE \/ RunTakeFailedFirst \/ RunFinishFailedFirst \/ RunClosePublic \/ RunCancel
               \/ RunTakeActive
      BY <3>2, ZenonT(60) DEF RunTakeFailedFirst, RunFinishFailedFirst, RunClosePublic, RunCancel,
         RunTakeActive, TakeFailed, FinishOperation, Ending
    <3>3. CASE RunFinishActive \/ RunTakeFailed \/ RunFinishFailed \/ RunReturn
      BY <1>0, <3>3, ZenonT(60) DEF RunFinishActive, RunTakeFailed, RunFinishFailed, RunReturn, TakeFailed,
         FinishOperation, Step, Ending, Pcs
    <3> QED
      BY Zenon, <1>6, <3>1, <3>2, <3>3
  <2> QED
    BY Zenon, <2>1, <2>2 DEF EndingInv
<1>7. CASE ClientStep /\ ~ClientExit
  <2>1. pc'.run = pc.run
    BY Zenon, <1>0, <1>7, ClientFrame
  <2>2. UNCHANGED <<results, runLocal>>
    BY <1>7, ZenonT(60) DEF ClientStep, ClientReadError, ClientFirstFrame, ClientDispatch, BeginRetired,
       BeginRefused, BeginOperation, ClientTurnStarted, RequestInterrupt, ClientWrite,
       ClientWriteError, ClientReject, Step, NotifyDeadline
  <2> QED
    BY Zenon, <2>1, <2>2 DEF EndingInv
<1>8. CASE CoreStep /\ ~CoreExit
  <2>1. \E next : pc' = [pc EXCEPT !["core"] = next]
    BY <1>8, ZenonT(60) DEF CoreStep, CoreReadError, CoreFailedFooter, CoreClassify, CoreTerminalStatus,
       CoreObserveResponse, CoreObserveEvent, CoreDetach, CoreNotifyTail, CoreNotifyDetached,
       CoreWrite, CoreWriteError, CoreTakeActive, CoreTurnFinished, NotifyDeadline,
       CoreFinishPrevious, CoreFinishFooter, CoreFinishTaken, FinishOperation
  <2>2. pc'.run = pc.run
    BY Zenon, <1>0, <2>1 DEF Pcs
  <2>3. UNCHANGED <<results, runLocal>>
    BY <1>8, ZenonT(60) DEF CoreStep, CoreReadError, CoreFailedFooter, CoreClassify, CoreTerminalStatus,
       CoreObserveResponse, CoreObserveEvent, CoreDetach, CoreNotifyTail, CoreNotifyDetached,
       CoreWrite, CoreWriteError, CoreTakeActive, CoreTurnFinished, NotifyDeadline,
       CoreFinishPrevious, CoreFinishFooter, CoreFinishTaken, FinishOperation
  <2> QED
    BY Zenon, <2>2, <2>3 DEF EndingInv
<1>9. CASE PeerStep \/ Stop \/ StopCancel \/ UNCHANGED vars
  <2>1. pc'.run = pc.run /\ UNCHANGED <<results, runLocal>>
    <3>1. pc' = pc \/ \E p \in {"client", "core"} : \E next : pc' = [pc EXCEPT ![p] = next]
      BY ZenonT(60), <1>9 DEF PeerStep, ClientRead, CoreRead, PeerDisconnect, CoreLost, Stop, StopCancel,
         CancelSession, vars
    <3>2. UNCHANGED <<results, runLocal>>
      BY ZenonT(60), <1>9 DEF PeerStep, ClientRead, CoreRead, PeerDisconnect, CoreLost, Stop, StopCancel,
         CancelSession, vars
    <3> QED
      BY Zenon, <1>0, <3>1, <3>2 DEF Pcs
  <2> QED
    BY Zenon, <2>1 DEF EndingInv
<1> QED
  BY Zenon, <1>1, <1>2, <1>3, <1>4, <1>5, <1>6, <1>7, <1>8, <1>9 DEF Next, RunStep, Returned

\* A step that completes no row and moves the core pump to no point where it must know more.
LEMMA DeliveryMoved ==
    ASSUME DeliveryInv, forwarded \subseteq forwarded', delivered \subseteq delivered',
           retired => retired', ctxDone => ctxDone',
           \/ UNCHANGED active
           \/ active' = None /\ (retired' \/ ctxDone')
           \/ active # None /\ active' # None /\ active'.req = active.req,
           \/ pc'.core = pc.core /\ taken'.core = taken.core
           \/ pc'.core \notin OnEvent \cup {"finishTaken"}
           \/ pc.core \in OnEvent /\ pc'.core \in OnEvent \ {"complete"},
           \A r \in Requests : rows'[r].status = "completed" => rows[r].status = "completed"
    PROVE  DeliveryInv'
<1>1. (pc.core \in OnEvent => IF active = None THEN retired \/ ctxDone ELSE active.req \in forwarded)'
  <2> SUFFICES ASSUME pc'.core \in OnEvent
               PROVE  IF active' = None THEN retired' \/ ctxDone' ELSE active'.req \in forwarded'
    BY Zenon
  <2>1. pc.core \in OnEvent
    BY Zenon
  <2>2. IF active = None THEN retired \/ ctxDone ELSE active.req \in forwarded
    BY Zenon, <2>1 DEF DeliveryInv
  <2> QED
    BY ZenonT(60), <2>2
<1>2. (pc.core = "complete" /\ active # None => active.req \in delivered)'
  <2> SUFFICES ASSUME pc'.core = "complete", active' # None
               PROVE  active'.req \in delivered'
    BY Zenon
  <2>1. pc.core = "complete" /\ active # None /\ active'.req = active.req
    BY ZenonT(60) DEF OnEvent
  <2> QED
    BY Zenon, <2>1 DEF DeliveryInv
<1>3. (pc.core = "finishTaken" /\ taken.core # None => taken.core.req \in delivered \cap forwarded)'
  <2> SUFFICES ASSUME pc'.core = "finishTaken", taken'.core # None
               PROVE  taken'.core.req \in delivered' \cap forwarded'
    BY Zenon
  <2>1. pc.core = "finishTaken" /\ taken'.core = taken.core
    BY ZenonT(60) DEF OnEvent
  <2> QED
    BY Zenon, <2>1 DEF DeliveryInv
<1>4. CompletedWasDelivered'
  BY Zenon DEF DeliveryInv, CompletedWasDelivered
<1> QED
  BY Zenon, <1>1, <1>2, <1>3, <1>4 DEF DeliveryInv

\* finishOperation completes the row of the operation it was given, and no other.
LEMMA CompletedByFinish ==
    ASSUME TypeOK, NEW p \in {"core", "run"}, NEW here, NEW status, NEW next,
           FinishOperation(p, here, status, next), NEW r \in Requests,
           rows'[r].status = "completed", rows[r].status # "completed"
    PROVE  status = "completed" /\ taken[p] # None /\ taken[p].req = r
<1>1. taken[p] # None
  BY Zenon DEF FinishOperation
<1> DEFINE s == taken[p].req
           row == [status |-> status, usage |-> taken[p].usage]
<1>2. rows' = [rows EXCEPT ![s] = row]
  BY Zenon, <1>1 DEF FinishOperation
<1>3. rows \in [Requests -> Rows] /\ row.status = status
  BY Zenon DEF TypeOK, StoreType
<1> HIDE DEF s, row
<1>4. s = r /\ row.status = "completed"
  BY Zenon, <1>2, <1>3
<1> QED
  BY Zenon, <1>1, <1>3, <1>4 DEF s

LEMMA FailureCompletesNothing ==
    ASSUME TypeOK, NEW p \in {"core", "run"}, NEW here, NEW status, NEW next,
           FinishOperation(p, here, status, next), status # "completed"
    PROVE  \A r \in Requests : rows'[r].status = "completed" => rows[r].status = "completed"
BY Zenon, CompletedByFinish

LEMMA ClientDelivery ==
    ASSUME TypeOK, DeliveryInv, ClientStep
    PROVE  DeliveryInv'
<1>0. pc \in Pcs
  BY Zenon DEF TypeOK, LocalType
<1>1. pc'.core = pc.core /\ UNCHANGED <<taken, retired, ctxDone>>
  BY Zenon, <1>0, ClientFrame
<1>2. forwarded \subseteq forwarded' /\ delivered \subseteq delivered'
  BY Zenon, HistoriesGrow DEF Next
<1>3. ASSUME NEW r \in Requests, BeginOperation(r)
      PROVE  DeliveryInv'
  <2>1. \A s \in Requests : rows'[s].status = "completed" => rows[s].status = "completed"
    <3>1. rows \in [Requests -> Rows]
      BY Zenon DEF TypeOK, StoreType
    <3>2. rows' = rows \/ rows' = [rows EXCEPT ![r].status = "in_progress"]
      BY Zenon, <1>3 DEF BeginOperation
    <3>3. CASE rows' = [rows EXCEPT ![r].status = "in_progress"]
      <4>1. \A s \in Requests : rows'[s].status = IF s = r THEN "in_progress" ELSE rows[s].status
        BY Zenon, <3>1, <3>3 DEF Rows
      <4> QED
        BY Zenon, <4>1
    <3> QED
      BY Zenon, <3>2, <3>3
  <2>2. pc.core \notin OnEvent
    BY Zenon, <1>3 DEF BeginOperation, DeliveryInv
  <2>3. CompletedWasDelivered'
    BY Zenon, <1>2, <2>1 DEF DeliveryInv, CompletedWasDelivered
  <2>4. pc'.core # "complete"
    BY Zenon, <1>1, <2>2 DEF OnEvent
  <2> QED
    BY Zenon, <1>1, <1>2, <2>2, <2>3, <2>4 DEF DeliveryInv
<1>4. CASE RequestInterrupt
  <2>1. UNCHANGED rows
    BY Zenon, <1>4 DEF RequestInterrupt
  <2>2. UNCHANGED active \/ (active # None /\ active' # None /\ active'.req = active.req)
    <3>1. CASE active' # active
      <4>1. active # None /\ active' = [active EXCEPT !.interruptRequested = TRUE]
        BY Zenon, <1>4, <3>1 DEF RequestInterrupt
      <4>2. active \in Operations
        BY Zenon, <4>1 DEF TypeOK, LockedType, MaybeOperation
      <4>3. active' \in Operations /\ active'.req = active.req
        BY ZenonT(60), <4>1, <4>2 DEF Operations
      <4> QED
        BY Zenon, <4>1, <4>3, ConstantsAssumption
    <3> QED
      BY Zenon, <3>1
  <2> QED
    BY Zenon, <1>1, <1>2, <2>1, <2>2, DeliveryMoved
<1>5. CASE UNCHANGED <<active, rows>>
  BY Zenon, <1>1, <1>2, <1>5, DeliveryMoved
<1> QED
  BY Zenon, <1>0, <1>3, <1>4, <1>5, ClientFrame

LEMMA CoreDelivery ==
    ASSUME TypeOK, TailInv, DeliveryInv, CoreStep
    PROVE  DeliveryInv'
<1>0. pc \in Pcs /\ taken \in [core: MaybeOperation, run: MaybeOperation]
  BY Zenon DEF TypeOK, LocalType
<1>1. /\ forwarded \subseteq forwarded' /\ delivered \subseteq delivered'
      /\ (ctxDone => ctxDone') /\ (retired => retired')
  BY Zenon, HistoriesGrow, StartedByBegin DEF Next
<1>2. CASE CoreFailedFooter \/ CoreClassify \/ CoreTerminalStatus
  <2>1. UNCHANGED <<active, rows>> /\ pc.core \in {"classify", "status"}
        /\ pc'.core \in {"status", "write", "observeCore"}
    BY ZenonT(60), <1>0, <1>2 DEF CoreFailedFooter, CoreClassify, CoreTerminalStatus, Pcs
  <2>2. pc.core \in OnEvent /\ pc'.core \in OnEvent \ {"complete"}
    BY Zenon, <2>1 DEF OnEvent
  <2> QED
    BY Zenon, <1>1, <2>1, <2>2, DeliveryMoved
<1>3. CASE CoreObserveResponse \/ CoreObserveEvent
  <2>1. UNCHANGED rows
    BY Zenon, <1>3 DEF CoreObserveResponse, CoreObserveEvent
  <2>2. \/ pc.core \in OnEvent /\ pc'.core \in OnEvent \ {"complete"}
        \/ pc'.core = "recordUpstream"
    BY ZenonT(60), <1>0, <1>3 DEF CoreObserveResponse, CoreObserveEvent, Pcs, OnEvent
  <2>3. UNCHANGED active \/ (active # None /\ active' # None /\ active'.req = active.req)
    <3>1. CASE active = None
      BY Zenon, <1>3, <3>1 DEF CoreObserveResponse, CoreObserveEvent
    <3>2. CASE active # None
      <4>1. active \in Operations
        BY Zenon, <3>2 DEF TypeOK, LockedType, MaybeOperation
      <4>2. active'.req = active.req
        BY ZenonT(60), <1>3, <3>2, <4>1
           DEF CoreObserveResponse, CoreObserveEvent, WithEvent, WithUsage, Operations
      <4>3. active' \in Operations
        <5>1. coreLocal.event.id \in Ids /\ coreLocal.terminal \in BOOLEAN
          BY Zenon, EventIds DEF TypeOK, LocalType, CoreLocals
        <5>2. /\ [active EXCEPT !.ttfb = TRUE] \in Operations
              /\ WithEvent(active, coreLocal.event, coreLocal.terminal) \in Operations
          BY ZenonT(60), <4>1, <5>1, OperationTypes
        <5> QED
          BY Zenon, <1>3, <3>2, <5>2 DEF CoreObserveResponse, CoreObserveEvent
      <4> QED
        BY Zenon, <3>2, <4>2, <4>3, ConstantsAssumption
    <3> QED
      BY Zenon, <3>1, <3>2
  <2>4. "recordUpstream" \notin OnEvent \cup {"finishTaken"}
    BY Zenon DEF OnEvent
  <2> QED
    BY Zenon, <1>1, <2>1, <2>2, <2>3, <2>4, DeliveryMoved
<1>4. CASE CoreDetach
  <2>1. pc.core = "detach" /\ pc'.core = "finishPrevious" /\ UNCHANGED rows
    BY Zenon, <1>0, <1>4 DEF CoreDetach, Pcs
  <2>2. retired /\ (active' = active \/ active' = None)
    BY Zenon, <1>4, <2>1 DEF CoreDetach, TailInv
  <2>3. pc.core \in OnEvent /\ pc'.core \in OnEvent \ {"complete"}
    BY Zenon, <2>1 DEF OnEvent
  <2> QED
    BY Zenon, <1>1, <2>1, <2>2, <2>3, DeliveryMoved
<1>5. CASE CoreFinishPrevious \/ CoreFinishFooter
  <2>1. UNCHANGED active
    BY Zenon, <1>5 DEF CoreFinishPrevious, CoreFinishFooter, FinishOperation
  <2>2. \/ pc.core = "finishPrevious" /\ pc'.core = "notifyTail"
        \/ pc'.core \in {"recordUpstream", "reportClient"}
    BY ZenonT(60), <1>0, <1>5 DEF CoreFinishPrevious, CoreFinishFooter, FinishOperation, Pcs
  <2>3. \/ pc.core \in OnEvent /\ pc'.core \in OnEvent \ {"complete"}
        \/ pc'.core \notin OnEvent \cup {"finishTaken"}
    BY ZenonT(60), <2>2 DEF OnEvent
  <2>4. \A r \in Requests : rows'[r].status = "completed" => rows[r].status = "completed"
    BY ZenonT(60), <1>5, FailureCompletesNothing DEF CoreFinishPrevious, CoreFinishFooter
  <2> QED
    BY Zenon, <1>1, <2>1, <2>3, <2>4, DeliveryMoved
<1>6. CASE CoreNotifyTail \/ CoreNotifyDetached
  <2>1. UNCHANGED <<active, rows>> /\ pc.core \in {"notifyTail", "notifyDetached"}
        /\ pc'.core \in {"notifyDetached", "write"}
    BY ZenonT(60), <1>0, <1>6 DEF CoreNotifyTail, CoreNotifyDetached, NotifyDeadline, Pcs
  <2>2. pc.core \in OnEvent /\ pc'.core \in OnEvent \ {"complete"}
    BY Zenon, <2>1 DEF OnEvent
  <2> QED
    BY Zenon, <1>1, <2>1, <2>2, DeliveryMoved
<1>7. CASE CoreWrite
  <2>1. UNCHANGED <<active, rows, taken>> /\ pc.core = "write"
        /\ pc'.core \in {"finishFooter", "complete", "read"}
        /\ (pc'.core = "complete" => EndsTurn)
    BY ZenonT(60), <1>0, <1>7 DEF CoreWrite, Pcs
  <2>2. CASE pc'.core # "complete"
    <3>1. pc'.core \notin OnEvent \cup {"finishTaken"}
      BY Zenon, <2>1, <2>2 DEF OnEvent
    <3> QED
      BY Zenon, <1>1, <2>1, <3>1, DeliveryMoved
  <2>3. CASE pc'.core = "complete"
    <3>1. active' # None => active'.req \in delivered'
      BY Zenon, <1>7, <2>1, <2>3 DEF CoreWrite
    <3>2. IF active = None THEN retired \/ ctxDone ELSE active.req \in forwarded
      BY Zenon, <2>1 DEF DeliveryInv, OnEvent
    <3>3. CompletedWasDelivered'
      BY Zenon, <1>1, <2>1 DEF DeliveryInv, CompletedWasDelivered
    <3>4. IF active' = None THEN retired' \/ ctxDone' ELSE active'.req \in forwarded'
      BY Zenon, <1>1, <2>1, <3>2
    <3> QED
      BY Zenon, <2>3, <3>1, <3>3, <3>4 DEF DeliveryInv
  <2> QED
    BY Zenon, <2>2, <2>3
<1>8. CASE CoreTakeActive
  <2>1. /\ pc.core = "complete" /\ pc'.core \in {"read", "finishTaken"} /\ UNCHANGED rows
        /\ taken'.core = active /\ active' = None
    BY Zenon, <1>0, <1>8 DEF CoreTakeActive, Pcs
  <2>2. active # None => active.req \in delivered /\ active.req \in forwarded
    BY Zenon, <2>1 DEF DeliveryInv, OnEvent
  <2>3. taken'.core # None => taken'.core.req \in delivered' \cap forwarded'
    BY Zenon, <1>1, <2>1, <2>2
  <2>4. CompletedWasDelivered'
    BY Zenon, <1>1, <2>1 DEF DeliveryInv, CompletedWasDelivered
  <2>5. pc'.core \notin OnEvent
    BY Zenon, <2>1 DEF OnEvent
  <2> QED
    BY Zenon, <2>1, <2>3, <2>4, <2>5 DEF DeliveryInv
<1>9. CASE CoreFinishTaken
  <2>1. pc.core = "finishTaken" /\ pc'.core = "notifyFinished" /\ UNCHANGED active
    BY Zenon, <1>0, <1>9 DEF CoreFinishTaken, FinishOperation, Pcs
  <2>2. ASSUME NEW r \in Requests, rows'[r].status = "completed"
        PROVE  r \in delivered' \cap forwarded'
    <3>1. CASE rows[r].status = "completed"
      BY Zenon, <1>1, <3>1 DEF DeliveryInv, CompletedWasDelivered
    <3>2. CASE rows[r].status # "completed"
      <4>1. taken["core"] # None /\ taken["core"].req = r
        BY Zenon, <1>9, <2>2, <3>2, CompletedByFinish DEF CoreFinishTaken
      <4> QED
        BY Zenon, <1>1, <2>1, <4>1 DEF DeliveryInv
    <3> QED
      BY Zenon, <3>1, <3>2
  <2>3. pc'.core \notin OnEvent \cup {"finishTaken", "complete"}
    BY Zenon, <2>1 DEF OnEvent
  <2> QED
    BY Zenon, <2>2, <2>3 DEF DeliveryInv, CompletedWasDelivered
<1>10. CASE CoreReadError \/ CoreWriteError \/ CoreTurnFinished \/ CoreExit
  <2>1. UNCHANGED <<active, rows>>
    BY Zenon, <1>10 DEF CoreReadError, CoreWriteError, CoreTurnFinished, CoreExit, NotifyDeadline,
       RecordUpstream, ReportUpstream, ReportDisconnected
  <2>2. \E next : /\ next \in {"recordUpstream", "finishFooterLost", "reportClient", "read",
                              "reportUpstream", "done"}
                  /\ pc' = [pc EXCEPT !["core"] = next]
    BY ZenonT(60), <1>10 DEF CoreReadError, CoreWriteError, CoreTurnFinished, CoreExit, NotifyDeadline,
       RecordUpstream, ReportUpstream, ReportDisconnected
  <2>3. pc'.core \in {"recordUpstream", "finishFooterLost", "reportClient", "read",
                      "reportUpstream", "done"}
    BY Zenon, <1>0, <2>2 DEF Pcs
  <2>4. pc'.core \notin OnEvent \cup {"finishTaken"}
    BY ZenonT(60), <2>3 DEF OnEvent
  <2> QED
    BY Zenon, <1>1, <2>1, <2>4, DeliveryMoved
<1> QED
  BY Zenon, <1>2, <1>3, <1>4, <1>5, <1>6, <1>7, <1>8, <1>9, <1>10 DEF CoreStep

LEMMA RunDelivery ==
    ASSUME TypeOK, ControlInv, EndingInv, DeliveryInv, RunStep \/ RunTimer
    PROVE  DeliveryInv'
<1>0. pc \in Pcs /\ taken \in [core: MaybeOperation, run: MaybeOperation]
  BY Zenon DEF TypeOK, LocalType
<1>1. /\ forwarded \subseteq forwarded' /\ delivered \subseteq delivered'
      /\ (ctxDone => ctxDone') /\ (retired => retired')
  BY Zenon, HistoriesGrow, StartedByBegin DEF Next
<1>2. CASE RunTakeActive
  <2>1. pc'.core = pc.core /\ taken'.core = taken.core /\ active' = None /\ UNCHANGED rows /\ ctxDone
    BY Zenon, <1>0, <1>2 DEF RunTakeActive, ControlInv, Pcs
  <2> QED
    BY Zenon, <1>1, <2>1, DeliveryMoved
<1>3. CASE RunFinishExpired \/ RunFinishFailedFirst \/ RunFinishFailed \/ RunFinishActive
  <2>1. pc'.core = pc.core /\ taken'.core = taken.core /\ UNCHANGED active
    BY ZenonT(60), <1>0, <1>3 DEF RunFinishExpired, RunFinishFailedFirst, RunFinishFailed, RunFinishActive,
       FinishOperation, Pcs
  <2>2. RunFinishActive => runLocal.status # "completed"
    BY Zenon DEF RunFinishActive, FinishOperation, EndingInv, Ending, Failures
  <2>3. \A r \in Requests : rows'[r].status = "completed" => rows[r].status = "completed"
    BY ZenonT(60), <1>3, <2>2, FailureCompletesNothing
       DEF RunFinishExpired, RunFinishFailedFirst, RunFinishFailed, RunFinishActive
  <2> QED
    BY Zenon, <1>1, <2>1, <2>3, DeliveryMoved
<1>4. CASE \/ RunDeadline \/ RunTailExpires \/ RunTailCause \/ RunTailResult \/ RunResult
           \/ RunFinishSession \/ RunTakeFailedFirst \/ RunClosePublic \/ RunCancel \/ RunTakeFailed
           \/ RunReturn \/ RunTimer
  <2>1. pc'.core = pc.core /\ taken'.core = taken.core /\ UNCHANGED <<active, rows>>
    BY ZenonT(60), <1>0, <1>4 DEF RunDeadline, RunTailExpires, RunTailCause, RunTailResult, RunResult,
       RunFinishSession, RunTakeFailedFirst, RunClosePublic, RunCancel, RunTakeFailed, RunReturn,
       RunTimer, TakeFailed, RecordUpstream, CancelSession, Step, Pcs
  <2> QED
    BY Zenon, <1>1, <2>1, DeliveryMoved
<1> QED
  BY Zenon, <1>2, <1>3, <1>4 DEF RunStep

\* Response events belong to a forwarded turn or to the tail of a failed one.
LEMMA OtherDelivery ==
    ASSUME "strayEvents" \notin Faults, TypeOK, TailInv, DeliveryInv,
           PeerStep \/ Stop \/ StopCancel \/ UNCHANGED vars
    PROVE  DeliveryInv'
<1>0. pc \in Pcs
  BY Zenon DEF TypeOK, LocalType
<1>1. /\ forwarded \subseteq forwarded' /\ delivered \subseteq delivered'
      /\ (ctxDone => ctxDone') /\ (retired => retired')
  BY Zenon, HistoriesGrow, StartedByBegin DEF Next
<1>2. ASSUME NEW event \in CoreFrames, CoreRead(event)
      PROVE  DeliveryInv'
  <2>1. UNCHANGED <<active, failed, rows, taken, forwarded, retired>>
        /\ pc'.core \in {"read", "recordUpstream", "observeMalformed", "classify"}
        /\ (pc'.core = "classify" => event.type \in ServerTypes)
    BY Zenon, <1>0, <1>2 DEF CoreRead, Pcs
  <2>2. CASE pc'.core # "classify"
    <3>1. pc'.core \notin OnEvent \cup {"finishTaken"}
      BY ZenonT(60), <2>1, <2>2 DEF OnEvent
    <3> QED
      BY Zenon, <1>1, <2>1, <3>1, DeliveryMoved
  <2>3. CASE pc'.core = "classify"
    <3>1. event \in ServerEvents
      <4>1. event \notin OpaqueFrames
        BY ZenonT(60), <2>1, <2>3 DEF OpaqueFrames, ServerTypes
      <4> QED
        BY Zenon, <4>1, ConstantsAssumption
    <3>2. failed # None \/ (active # None /\ active.req \in forwarded)
      BY Zenon, <1>2, <3>1 DEF CoreRead, CoreMaySend
    <3>3. IF active = None THEN retired ELSE active.req \in forwarded
      BY Zenon, <3>2 DEF TailInv, FailureTailIsolated
    <3>4. CompletedWasDelivered'
      BY Zenon, <1>1, <2>1 DEF DeliveryInv, CompletedWasDelivered
    <3> QED
      BY Zenon, <2>1, <2>3, <3>3, <3>4 DEF DeliveryInv
  <2> QED
    BY Zenon, <2>2, <2>3
<1>3. CASE \/ (\E frame \in ClientFrames : ClientRead(frame)) \/ PeerDisconnect
           \/ (\E how \in CoreCloses : CoreLost(how)) \/ Stop \/ StopCancel \/ UNCHANGED vars
  <2>1. pc'.core = pc.core /\ UNCHANGED <<active, rows, taken>>
    BY Zenon, <1>0, <1>3 DEF ClientRead, PeerDisconnect, CoreLost, Stop, StopCancel, CancelSession, vars, Pcs
  <2> QED
    BY Zenon, <1>1, <2>1, DeliveryMoved
<1> QED
  BY Zenon, <1>2, <1>3 DEF PeerStep

\* completeActive writes "completed" on a row only after the turn's create went out to
\* the core and its terminal event to the client, whatever the goroutines do between the
\* event and the finish, as long as the core sends response events only within a
\* forwarded turn or the tail of a failed one.
THEOREM Delivered == "strayEvents" \notin Faults => (Spec => []CompletedWasDelivered)
<1> SUFFICES ASSUME "strayEvents" \notin Faults
             PROVE  Spec => []CompletedWasDelivered
  OBVIOUS
<1> DEFINE D == EndingInv /\ DeliveryInv
<1>1. Init => D
  <2> SUFFICES ASSUME Init PROVE D
    OBVIOUS
  <2>1. EndingInv
    BY DEF Init, EndingInv, Ending
  <2>2. DeliveryInv
    BY ZenonT(60) DEF Init, DeliveryInv, CompletedWasDelivered, OnEvent
  <2> QED
    BY Zenon, <2>1, <2>2
<1>2. IInv /\ D /\ [Next]_vars => D'
  <2> SUFFICES ASSUME IInv, D, [Next]_vars PROVE D'
    OBVIOUS
  <2>1. EndingInv'
    BY Zenon, EndingKept DEF IInv
  <2>2. DeliveryInv'
    BY Zenon, ClientDelivery, CoreDelivery, RunDelivery, OtherDelivery DEF IInv, Next, Returned
  <2> QED
    BY Zenon, <2>1, <2>2
<1>3. D => CompletedWasDelivered
  BY Zenon DEF DeliveryInv
<1> HIDE DEF D
<1> QED
  BY <1>1, <1>2, <1>3, Inductive, PTL DEF Spec
=============================================================================
