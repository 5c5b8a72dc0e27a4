---------------------------- MODULE ServerProofs ----------------------------
(***************************************************************************)
(* Server, for every number of requests, keys and slots: the counters are  *)
(* exact, a reported drain is final, and a graceful shutdown closes the    *)
(* store after its last user.                                              *)
(***************************************************************************)
EXTENDS Server, FiniteSetTheorems, TLAPS

\* How long a leaf may take.
USE SMTT(60), ZenonT(60)

\* The key a handler owns a slot of, and what Accept and register leave behind.
HandlerInv ==
    \A c \in Conns :
        /\ stage[c] \in HoldingStages \cup {"acquire"} => keyOf[c] \in Keys
        /\ c \in hijacked => stage[c] \in {"register", "run", "unregister", "release"}
        /\ c \in sessions <=> stage[c] \in {"run", "unregister"}

\* What each stage of the shutdown path has established.
ShutdownInv ==
    /\ drained => closing /\ sessions = {}
    /\ graceful /\ serve \in {"served", "final", "closed"} => Waited
    /\ \A w \in Callers : graceful /\ caller[w] = "done" => drained
    /\ serve = "closed" => caller["final"] = "done"
    /\ ~storeOpen => serve = "closed"

IInv == TypeOK /\ SlotsMatchHolders /\ HandlerInv /\ ShutdownInv
-----------------------------------------------------------------------------

LEMMA InitInv == Init => IInv
<1> SUFFICES ASSUME Init PROVE IInv
  BY Zenon
<1>1. TypeOK
  <2>1. 0 \in 0..Limit /\ 0 \in 0..(Limit - 1)
    BY ConstantsAssumption
  <2> QED
    BY ZenonT(60), <2>1 DEF Init, TypeOK, Stages, Callers
<1>2. SlotsMatchHolders
  <2>1. \A k \in Keys : Holders(k) = {} /\ Guardians(k) = {}
    BY Zenon DEF Init, Holders, Guardians, HoldingStages
  <2> QED
    BY Zenon, <2>1, FS_EmptySet DEF Init, SlotsMatchHolders, Guardians
<1>3. HandlerInv
  BY Zenon DEF Init, HandlerInv, HoldingStages
<1>4. ShutdownInv
  BY Zenon DEF Init, ShutdownInv
<1> QED
  BY Zenon, <1>1, <1>2, <1>3, <1>4 DEF IInv


\* A move that changes no key and no slot keeps the counters.
LEMMA SlotsKept ==
    ASSUME SlotsMatchHolders, UNCHANGED <<perKey, guardian>>,
           \A c \in Conns : \/ UNCHANGED <<keyOf[c], isGuardian[c]>>
                               /\ (stage'[c] \in HoldingStages <=> stage[c] \in HoldingStages)
                            \/ stage[c] \notin HoldingStages /\ stage'[c] \notin HoldingStages
    PROVE  SlotsMatchHolders'
<1>1. \A k \in Keys : Holders(k)' = Holders(k) /\ Guardians(k)' = Guardians(k)
  BY Zenon DEF Holders, Guardians
<1> QED
  BY Zenon, <1>1 DEF SlotsMatchHolders

LEMMA FiniteHolders ==
    ASSUME NEW k
    PROVE  IsFiniteSet(Holders(k)) /\ IsFiniteSet(Guardians(k))
<1>1. Holders(k) \in SUBSET Conns /\ Guardians(k) \in SUBSET Conns
  BY Zenon DEF Holders, Guardians
<1> QED
  BY Zenon, <1>1, FS_Subset, ConstantsAssumption

-----------------------------------------------------------------------------
(* Types.                                                                   *)

USE DEF HttpStages, HoldingStages, Stages, Callers

LEMMA MoveType ==
    ASSUME TypeOK, NEW c \in Conns, NEW here, NEW next \in Stages, Move(c, here, next)
    PROVE  stage' \in [Conns -> Stages]
BY Zenon DEF TypeOK, Move

LEMMA NextTypes == TypeOK /\ [Next]_vars => TypeOK'
<1> SUFFICES ASSUME TypeOK, [Next]_vars PROVE TypeOK'
  BY Zenon
<1>0. Limit \in Nat \ {0}
  BY Zenon, ConstantsAssumption
<1>1. ASSUME NEW c \in Conns, Arrive(c) \/ HttpAuthenticate(c) \/ HttpForward(c) \/ HttpFinish(c)
             \/ Dial(c) \/ DialError(c) \/ SessionReturns(c)
      PROVE  TypeOK'
  BY <1>1 DEF Arrive, HttpAuthenticate, HttpForward, HttpFinish, Dial, DialError,
     SessionReturns, Move, TypeOK, manager, shutdown
<1>2. ASSUME NEW c \in Conns, WsAuthenticates(c)
      PROVE  TypeOK'
  BY <1>2 DEF WsAuthenticates, WsAuthenticate, Move, TypeOK, manager, shutdown
<1>3. ASSUME NEW c \in Conns, Acquire(c)
      PROVE  TypeOK'
  <2>1. CASE Move(c, "acquire", "done") /\ ~MayAcquire(keyOf[c], isGuardian[c])
    BY ZenonT(60), <1>3, <2>1 DEF Acquire, Forget, Move, TypeOK, shutdown
  <2>2. CASE Move(c, "acquire", "dial") /\ MayAcquire(keyOf[c], isGuardian[c])
    BY <1>0, <1>3, <2>2 DEF Acquire, MayAcquire, Move, TypeOK, shutdown
  <2> QED
    BY Zenon, <1>3, <2>1, <2>2 DEF Acquire
<1>4. ASSUME NEW c \in Conns, Accept(c) \/ Register(c) \/ Unregister(c)
      PROVE  TypeOK'
  BY <1>4 DEF Accept, Register, Unregister, Move, TypeOK, manager, shutdown
<1>5. ASSUME NEW c \in Conns, Release(c)
      PROVE  TypeOK'
  <2>1. \A m \in Nat : \A n \in 0..m : OneLess(n) \in 0..m
    BY DEF OneLess
  <2>2. perKey' \in [Keys -> 0..Limit]
    BY ZenonT(60), <1>0, <1>5, <2>1 DEF Release, TypeOK
  <2>3. guardian' \in [Keys -> 0..(Limit - 1)]
    <3>1. Limit - 1 \in Nat
      BY <1>0
    <3>2. guardian' = guardian \/ guardian' = [guardian EXCEPT ![keyOf[c]] = OneLess(@)]
      BY ZenonT(60), <1>5 DEF Release, TypeOK
    <3> QED
      BY <2>1, <3>1, <3>2 DEF TypeOK
  <2> QED
    BY Zenon, <1>5, <2>2, <2>3 DEF Release, Forget, Move, TypeOK
<1>6. CASE Shutdown \/ ListenerFails \/ ServeReturns \/ FinalShutdown \/ CloseStore
  BY ZenonT(60), <1>6 DEF Shutdown, ListenerFails, ServeReturns, FinalShutdown, CloseStore, TypeOK,
     handlers, manager
<1>7. ASSUME NEW w \in Callers, BeginShutdown(w) \/ StopDone(w) \/ DrainDone(w)
      PROVE  TypeOK'
  BY ZenonT(60), <1>7 DEF BeginShutdown, StopDone, DrainDone, TypeOK, handlers, manager
<1>8. ASSUME NEW w \in Callers, NEW c \in Conns, StopSession(w, c)
      PROVE  TypeOK'
  BY Zenon, <1>8 DEF StopSession, TypeOK, handlers, manager
<1>9. CASE UNCHANGED vars
  BY Zenon, <1>9 DEF vars, handlers, manager, shutdown, TypeOK
<1> QED
  BY Zenon, <1>1, <1>2, <1>3, <1>4, <1>5, <1>6, <1>7, <1>8, <1>9
     DEF Next, HandlerStep, ShutdownStep, Exited
-----------------------------------------------------------------------------
(* Slots.                                                                   *)

LEMMA AcquireSlots ==
    ASSUME TypeOK, SlotsMatchHolders, HandlerInv, NEW c \in Conns, Acquire(c),
           NEW k, k = keyOf[c]
    PROVE  SlotsMatchHolders'
<1>1. CASE Move(c, "acquire", "done") /\ ~MayAcquire(k, isGuardian[c])
  <2>1. UNCHANGED <<perKey, guardian>>
    BY Zenon, <1>1 DEF Acquire, Move
  <2> QED
    BY Zenon, <1>1, <2>1, SlotsKept DEF Acquire, Move, Forget, TypeOK
<1>2. CASE Move(c, "acquire", "dial") /\ MayAcquire(k, isGuardian[c])
  <2>1. k \in Keys /\ c \notin Holders(k)
    BY Zenon, <1>2 DEF Move, HandlerInv, Holders
  <2>2. /\ perKey' = [perKey EXCEPT ![k] = @ + 1]
        /\ guardian' = [guardian EXCEPT ![k] = IF isGuardian[c] THEN @ + 1 ELSE @]
        /\ UNCHANGED <<keyOf, isGuardian>> /\ stage[c] = "acquire"
        /\ stage' = [stage EXCEPT ![c] = "dial"]
    BY Zenon, <1>2 DEF Acquire, Move, TypeOK
  <2>3. Holders(k)' = Holders(k) \cup {c}
    BY Zenon, <2>1, <2>2 DEF Holders, TypeOK
  <2>4. Guardians(k)' = IF isGuardian[c] THEN Guardians(k) \cup {c} ELSE Guardians(k)
    BY Zenon, <2>1, <2>2, <2>3 DEF Guardians, TypeOK
  <2>5. \A j \in Keys \ {k} : Holders(j)' = Holders(j) /\ Guardians(j)' = Guardians(j)
    BY Zenon, <2>2 DEF Holders, Guardians, TypeOK
  <2>6. Cardinality(Holders(k))' = Cardinality(Holders(k)) + 1
    BY ZenonT(60), <2>1, <2>3, FS_AddElement, FiniteHolders
  <2>7. Cardinality(Guardians(k))' = Cardinality(Guardians(k)) + IF isGuardian[c] THEN 1 ELSE 0
    <3>1. c \notin Guardians(k)
      BY Zenon, <2>1 DEF Guardians
    <3>2. Cardinality(Guardians(k)) \in Nat
      BY Zenon, FiniteHolders, FS_CardinalityType
    <3>3. CASE isGuardian[c]
      BY ZenonT(60), <2>4, <3>1, <3>3, FS_AddElement, FiniteHolders
    <3>4. CASE ~isGuardian[c]
      BY <2>4, <3>2, <3>4
    <3> QED
      BY Zenon, <3>3, <3>4
  <2>8. Cardinality(Guardians(k)) \in Nat
    BY Zenon, FiniteHolders, FS_CardinalityType
  <2>9. ASSUME NEW j \in Keys
        PROVE  perKey'[j] = Cardinality(Holders(j))' /\ guardian'[j] = Cardinality(Guardians(j))'
    <3>1. perKey[j] = Cardinality(Holders(j)) /\ guardian[j] = Cardinality(Guardians(j))
      BY Zenon DEF SlotsMatchHolders
    <3>2. CASE j # k
      BY Zenon, <2>1, <2>2, <2>5, <3>1, <3>2 DEF TypeOK
    <3>3. CASE j = k /\ isGuardian[c]
      BY Zenon, <2>1, <2>2, <2>6, <2>7, <3>1, <3>3 DEF TypeOK
    <3>4. CASE j = k /\ ~isGuardian[c]
      BY <2>1, <2>2, <2>6, <2>7, <2>8, <3>1, <3>4 DEF TypeOK
    <3> QED
      BY Zenon, <3>2, <3>3, <3>4
  <2> QED
    BY Zenon, <2>9 DEF SlotsMatchHolders
<1> QED
  BY Zenon, <1>1, <1>2 DEF Acquire

LEMMA ReleaseSlots ==
    ASSUME TypeOK, SlotsMatchHolders, HandlerInv, NEW c \in Conns, Release(c),
           NEW k, k = keyOf[c]
    PROVE  SlotsMatchHolders'
<1>1. k \in Keys /\ c \in Holders(k)
  BY Zenon DEF Release, Move, HandlerInv, Holders
<1>2. /\ perKey' = [perKey EXCEPT ![k] = OneLess(@)]
      /\ guardian' = [guardian EXCEPT ![k] = IF isGuardian[c] THEN OneLess(@) ELSE @]
      /\ keyOf' = [keyOf EXCEPT ![c] = NoKey] /\ isGuardian' = [isGuardian EXCEPT ![c] = FALSE]
      /\ stage' = [stage EXCEPT ![c] = "done"]
  BY Zenon DEF Release, Move, Forget
<1>3. Holders(k)' = Holders(k) \ {c}
  BY Zenon, <1>1, <1>2 DEF Holders, TypeOK
<1>4. Guardians(k)' = Guardians(k) \ {c}
  BY <1>1, <1>2, <1>3 DEF Guardians, TypeOK
<1>5. \A j \in Keys \ {k} : Holders(j)' = Holders(j) /\ Guardians(j)' = Guardians(j)
  BY Zenon, <1>2 DEF Holders, Guardians, TypeOK
<1>6. Cardinality(Holders(k))' = Cardinality(Holders(k)) - 1
  BY ZenonT(60), <1>1, <1>3, FS_RemoveElement, FiniteHolders
<1>7. Cardinality(Guardians(k))' = Cardinality(Guardians(k)) - IF isGuardian[c] THEN 1 ELSE 0
  <2>1. c \in Guardians(k) <=> isGuardian[c]
    BY Zenon, <1>1 DEF Guardians
  <2>2. Cardinality(Guardians(k)) \in Nat
    BY Zenon, FiniteHolders, FS_CardinalityType
  <2>3. CASE isGuardian[c]
    BY ZenonT(60), <1>4, <2>1, <2>3, FS_RemoveElement, FiniteHolders
  <2>4. CASE ~isGuardian[c]
    <3>1. Guardians(k)' = Guardians(k)
      BY Zenon, <1>4, <2>1, <2>4
    <3> QED
      BY <2>2, <2>4, <3>1
  <2> QED
    BY Zenon, <2>3, <2>4
<1>8. Cardinality(Holders(k)) \in Nat \ {0}
  BY Zenon, <1>1, FiniteHolders, FS_CardinalityType, FS_EmptySet
<1>9. Cardinality(Guardians(k)) \in Nat /\ (isGuardian[c] => Cardinality(Guardians(k)) # 0)
  <2>1. isGuardian[c] => Guardians(k) # {}
    BY Zenon, <1>1 DEF Guardians
  <2> QED
    BY Zenon, <2>1, FiniteHolders, FS_CardinalityType, FS_EmptySet
<1>10. ASSUME NEW j \in Keys
       PROVE  perKey'[j] = Cardinality(Holders(j))' /\ guardian'[j] = Cardinality(Guardians(j))'
  <2>1. perKey[j] = Cardinality(Holders(j)) /\ guardian[j] = Cardinality(Guardians(j))
    BY Zenon DEF SlotsMatchHolders
  <2>2. CASE j # k
    BY Zenon, <1>1, <1>2, <1>5, <2>1, <2>2 DEF TypeOK
  <2>3. CASE j = k /\ isGuardian[c]
    BY <1>1, <1>2, <1>6, <1>7, <1>8, <1>9, <2>1, <2>3 DEF TypeOK, OneLess
  <2>4. CASE j = k /\ ~isGuardian[c]
    BY <1>1, <1>2, <1>6, <1>7, <1>8, <1>9, <2>1, <2>4 DEF TypeOK, OneLess
  <2> QED
    BY Zenon, <2>2, <2>3, <2>4
<1> QED
  BY Zenon, <1>10 DEF SlotsMatchHolders

LEMMA NextSlots ==
    ASSUME TypeOK, SlotsMatchHolders, HandlerInv, [Next]_vars
    PROVE  SlotsMatchHolders'
<1>1. ASSUME NEW c \in Conns, Arrive(c) \/ HttpAuthenticate(c) \/ HttpForward(c) \/ HttpFinish(c)
             \/ Dial(c) \/ DialError(c) \/ SessionReturns(c)
      PROVE  SlotsMatchHolders'
  BY <1>1, SlotsKept DEF Arrive, HttpAuthenticate, HttpForward, HttpFinish, Dial, DialError,
     SessionReturns, Move, TypeOK, manager
<1>2. ASSUME NEW c \in Conns, WsAuthenticates(c)
      PROVE  SlotsMatchHolders'
  <2>1. /\ UNCHANGED <<perKey, guardian>> /\ stage[c] = "wsAuth" /\ stage'[c] \in {"acquire", "done"}
        /\ \A d \in Conns \ {c} : UNCHANGED <<stage[d], keyOf[d], isGuardian[d]>>
    BY Zenon, <1>2 DEF WsAuthenticates, WsAuthenticate, Move, TypeOK, manager
  <2> QED
    BY Zenon, <2>1, SlotsKept
<1>3. ASSUME NEW c \in Conns, Accept(c) \/ Register(c) \/ Unregister(c)
      PROVE  SlotsMatchHolders'
  BY Zenon, <1>3, SlotsKept DEF Accept, Register, Unregister, Move, TypeOK, manager
<1>4. CASE \/ Shutdown \/ ListenerFails \/ ShutdownStep \/ UNCHANGED vars
  <2>1. UNCHANGED <<perKey, guardian, stage, keyOf, isGuardian>>
    BY Zenon, <1>4 DEF Shutdown, ListenerFails, ShutdownStep, ServeReturns, FinalShutdown, CloseStore,
       BeginShutdown, StopDone, DrainDone, StopSession, vars, handlers, manager
  <2> QED
    BY Zenon, <2>1, SlotsKept
<1> QED
  BY Zenon, <1>1, <1>2, <1>3, <1>4, AcquireSlots, ReleaseSlots DEF Next, HandlerStep, Exited

-----------------------------------------------------------------------------
(* Handlers and the shutdown path.                                          *)

LEMMA NextHandlers ==
    ASSUME TypeOK, HandlerInv, [Next]_vars
    PROVE  HandlerInv'
<1>1. ASSUME NEW c \in Conns, Arrive(c) \/ HttpAuthenticate(c) \/ HttpForward(c) \/ HttpFinish(c)
             \/ Dial(c) \/ DialError(c) \/ SessionReturns(c)
      PROVE  HandlerInv'
  BY <1>1 DEF Arrive, HttpAuthenticate, HttpForward, HttpFinish, Dial, DialError,
     SessionReturns, Move, TypeOK, HandlerInv, manager
<1>2. ASSUME NEW c \in Conns, WsAuthenticates(c)
      PROVE  HandlerInv'
  BY <1>2 DEF WsAuthenticates, WsAuthenticate, Move, TypeOK, HandlerInv, manager
<1>3. ASSUME NEW c \in Conns, Acquire(c)
      PROVE  HandlerInv'
  BY <1>3 DEF Acquire, Forget, Move, TypeOK, HandlerInv
<1>4. ASSUME NEW c \in Conns, Accept(c)
      PROVE  HandlerInv'
  BY <1>4 DEF Accept, Move, TypeOK, HandlerInv, manager
<1>5. ASSUME NEW c \in Conns, Register(c) \/ Unregister(c)
      PROVE  HandlerInv'
  BY <1>5 DEF Register, Unregister, Move, TypeOK, HandlerInv
<1>6. ASSUME NEW c \in Conns, Release(c)
      PROVE  HandlerInv'
  BY Zenon, <1>6 DEF Release, Forget, Move, TypeOK, HandlerInv
<1>7. CASE \/ Shutdown \/ ListenerFails \/ ShutdownStep \/ UNCHANGED vars
  <2>1. UNCHANGED <<sessions, hijacked, stage, keyOf>>
    BY Zenon, <1>7 DEF Shutdown, ListenerFails, ShutdownStep, ServeReturns, FinalShutdown, CloseStore,
       BeginShutdown, StopDone, DrainDone, StopSession, vars, handlers, manager
  <2> QED
    BY Zenon, <2>1 DEF HandlerInv
<1> QED
  BY Zenon, <1>1, <1>2, <1>3, <1>4, <1>5, <1>6, <1>7 DEF Next, HandlerStep, Exited

\* Once Serve has waited, a handler that is still running has been hijacked, and
\* the steps left to it keep it so.
LEMMA WaitedKept ==
    ASSUME TypeOK, HandlerInv, Waited, serve \notin {"serving", "draining"},
           NEW c \in Conns, Arrive(c) \/ HandlerStep(c) \/ SessionReturns(c)
    PROVE  Waited'
<1>1. c \in hijacked /\ stage[c] \in {"register", "run", "unregister", "release"}
  <2>1. stage[c] \notin {"idle", "done"}
    BY Zenon DEF Arrive, HandlerStep, SessionReturns, HttpAuthenticate, HttpForward, HttpFinish,
       WsAuthenticates, WsAuthenticate, Acquire, Dial, DialError, Accept, Register, Unregister,
       Release, Move
  <2> QED
    BY Zenon, <2>1 DEF Waited, HandlerInv
<1>2. Register(c) \/ SessionReturns(c) \/ Unregister(c) \/ Release(c)
  BY Zenon, <1>1 DEF Arrive, HandlerStep, HttpAuthenticate, HttpForward, HttpFinish, WsAuthenticates,
     WsAuthenticate, Acquire, Dial, DialError, Accept, Move
<1> QED
  BY Zenon, <1>1, <1>2 DEF Register, SessionReturns, Unregister, Release, Forget, Move, Waited, TypeOK

LEMMA NextShutdown ==
    ASSUME TypeOK, HandlerInv, ShutdownInv, [Next]_vars
    PROVE  ShutdownInv'
<1>1. ASSUME NEW c \in Conns, Arrive(c) \/ HandlerStep(c) \/ SessionReturns(c)
      PROVE  ShutdownInv'
  <2>1. UNCHANGED <<caller, serve, storeOpen, graceful, closing>>
    BY Zenon, <1>1 DEF Arrive, HandlerStep, SessionReturns, HttpAuthenticate, HttpForward, HttpFinish,
       WsAuthenticates, WsAuthenticate, Acquire, Dial, DialError, Accept, Register, Unregister,
       Release, manager, shutdown
  <2>2. (drained => drained') /\ (drained' => closing /\ sessions' = {})
    <3>1. CASE Register(c)
      BY Zenon, <3>1 DEF Register, ShutdownInv
    <3>2. CASE Unregister(c)
      BY ZenonT(60), <3>2 DEF Unregister, ShutdownInv
    <3>3. CASE ~Register(c) /\ ~Unregister(c)
      BY <1>1, <3>3 DEF Arrive, HandlerStep, SessionReturns, HttpAuthenticate, HttpForward,
         HttpFinish, WsAuthenticates, WsAuthenticate, Acquire, Dial, DialError, Accept, Release,
         manager, ShutdownInv
    <3> QED
      BY Zenon, <3>1, <3>2, <3>3
  <2>3. graceful /\ serve \in {"served", "final", "closed"} => Waited'
    BY Zenon, <1>1, WaitedKept DEF ShutdownInv
  <2> QED
    BY Zenon, <2>1, <2>2, <2>3 DEF ShutdownInv
<1>2. CASE Shutdown \/ ListenerFails \/ ServeReturns \/ FinalShutdown \/ CloseStore
  <2>1. UNCHANGED <<drained, closing, sessions>> /\ (Waited' <=> Waited)
    BY Zenon, <1>2 DEF Shutdown, ListenerFails, ServeReturns, FinalShutdown, CloseStore, handlers,
       manager, Waited
  <2> QED
    BY <1>2, <2>1 DEF Shutdown, ListenerFails, ServeReturns, FinalShutdown, CloseStore,
       ShutdownInv, TypeOK
<1>3. ASSUME NEW w \in Callers, BeginShutdown(w) \/ StopDone(w) \/ DrainDone(w)
             \/ \E c \in Conns : StopSession(w, c)
      PROVE  ShutdownInv'
  <2>1. Waited' <=> Waited
    BY Zenon, <1>3 DEF BeginShutdown, StopDone, DrainDone, StopSession, handlers, Waited
  <2> QED
    BY <1>3, <2>1 DEF BeginShutdown, StopDone, DrainDone, StopSession, manager, ShutdownInv, TypeOK
<1>4. CASE UNCHANGED vars
  BY Zenon, <1>4 DEF vars, handlers, manager, shutdown, ShutdownInv, Waited
<1> QED
  BY Zenon, <1>1, <1>2, <1>3, <1>4 DEF Next, ShutdownStep, Exited
-----------------------------------------------------------------------------
(* The theorems.                                                            *)

\* The counters stay in range for every limit.
THEOREM TypeCorrect == Spec => []TypeOK
<1>1. Init => TypeOK
  BY Zenon, InitInv DEF IInv
<1> QED
  BY <1>1, NextTypes, PTL DEF Spec

\* IInv is inductive: the counters are exact because a handler's key is fixed while
\* it holds a slot; the drain is final because register refuses once closing is
\* set; the store is safe because the wait and the drain cover disjoint handlers.
THEOREM Inductive == Spec => []IInv
<1>1. IInv /\ [Next]_vars => IInv'
  BY Zenon, NextTypes, NextSlots, NextHandlers, NextShutdown DEF IInv
<1> QED
  BY <1>1, InitInv, PTL DEF Spec

\* acquireRole and releaseRole balance on every path out of serveWebSocket.
THEOREM SlotsTheorem == Spec => []SlotsMatchHolders
<1>1. IInv => SlotsMatchHolders
  BY Zenon DEF IInv
<1> QED
  BY <1>1, Inductive, PTL

\* acquireRole keeps a slot of every key out of the guardians' reach.
THEOREM GuardianTheorem == Spec => []GuardiansLeaveRoom
<1>1. IInv => GuardiansLeaveRoom
  <2> SUFFICES ASSUME IInv, NEW k \in Keys, ~closing, Holders(k) = Guardians(k)
               PROVE  MayAcquire(k, FALSE)
    BY ZenonT(60) DEF GuardiansLeaveRoom
  <2>1. perKey[k] = guardian[k]
    BY Zenon DEF IInv, SlotsMatchHolders
  <2>2. guardian[k] \in 0..(Limit - 1)
    BY Zenon DEF IInv, TypeOK
  <2> QED
    BY <2>1, <2>2, ConstantsAssumption DEF MayAcquire
<1> QED
  BY <1>1, Inductive, PTL

\* register and shutdown decide under one mutex: a drain that was reported holds.
THEOREM DrainTheorem == Spec => []DrainedMeansEmpty
<1>1. IInv => DrainedMeansEmpty
  BY Zenon DEF IInv, HandlerInv, ShutdownInv, DrainedMeansEmpty
<1> QED
  BY <1>1, Inductive, PTL

\* runServe's deferred store.Close comes after the last handler that could use it,
\* when no shutdown deadline has passed.
THEOREM StoreTheorem == Spec => []StoreOutlivesUse
<1>1. IInv => StoreOutlivesUse
  <2> SUFFICES ASSUME IInv, ~storeOpen, graceful, NEW c \in Conns
               PROVE  stage[c] \notin StoreStages
    BY Zenon DEF StoreOutlivesUse
  <2>1. drained /\ Waited
    BY Zenon DEF IInv, ShutdownInv
  <2>2. stage[c] # "run"
    BY Zenon, <2>1 DEF IInv, HandlerInv, ShutdownInv
  <2>3. stage[c] \in {"idle", "done", "register", "run", "unregister", "release"}
    BY Zenon, <2>1 DEF IInv, HandlerInv, Waited
  <2> QED
    BY Zenon, <2>2, <2>3 DEF StoreStages
<1> QED
  BY <1>1, Inductive, PTL
=============================================================================
