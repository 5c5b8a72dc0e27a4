------------------------------- MODULE Server -------------------------------
(***************************************************************************)
(* The coordinator's public server: the life of one HTTP or WebSocket      *)
(* request in httpapi/handler.go and httpapi/websocket_handler.go, the     *)
(* WebSocket manager that limits and drains sessions, and the shutdown     *)
(* path of cli/serve.go and httpapi/listener.go that closes the store.     *)
(*                                                                         *)
(* One action is one critical section of the manager, one store call, one  *)
(* call to the core, or one step of the shutdown path.  A WebSocket        *)
(* session is its "run" stage here; WebSocketSession models its inside.    *)
(***************************************************************************)
EXTENDS Integers, FiniteSets

CONSTANTS
    Conns,    \* requests the listener may accept
    Keys,     \* API keys
    Limit,    \* maxWebSocketsPerKey
    NoKey,    \* no key authenticated yet
    Faults    \* what the environment may do (see EnvironmentFaults)

\* timeouts: the 10 s shutdown deadlines may pass.  listenerFails: accept may fail.
EnvironmentFaults == {"timeouts", "listenerFails"}

ASSUME ConstantsAssumption ==
    /\ Limit \in Nat \ {0}
    /\ NoKey \notin Keys
    /\ Faults \subseteq EnvironmentFaults
    /\ IsFiniteSet(Conns)

VARIABLES
    stage,      \* where each request's handler is
    keyOf,      \* the key it authenticated with
    isGuardian, \* whether it announced itself as a guardian connection
    hijacked,   \* requests whose connection Accept took from the HTTP server
    perKey, guardian, sessions, closing, drained,  \* websocketManager
    stopped,    \* sessions whose stop() was called
    caller,     \* the two callers of ShutdownWebSockets
    serve,      \* where runServe is
    storeOpen,  \* the store is open
    graceful    \* history: no shutdown deadline passed, the listener did not fail

manager == <<perKey, guardian, sessions, closing, drained>>
handlers == <<stage, keyOf, isGuardian, hijacked>>
shutdown == <<stopped, caller, serve, storeOpen, graceful>>

vars == <<handlers, manager, shutdown>>

Callers == {"onShutdown", "final"}

HttpStages == {"httpAuth", "httpForward", "httpFinish"}

\* A WebSocket handler owns a manager slot from acquireRole to releaseRole.
HoldingStages == {"dial", "dialError", "accept", "register", "run", "unregister", "release"}

Stages == HttpStages \cup HoldingStages \cup {"idle", "wsAuth", "acquire", "done"}

\* Stages in which the handler's next step is, or may lead straight to, a store call.
StoreStages == HttpStages \cup {"wsAuth", "dialError", "run"}

Init ==
    /\ stage = [c \in Conns |-> "idle"]
    /\ keyOf = [c \in Conns |-> NoKey]
    /\ isGuardian = [c \in Conns |-> FALSE] /\ hijacked = {}
    /\ perKey = [k \in Keys |-> 0] /\ guardian = [k \in Keys |-> 0]
    /\ sessions = {} /\ closing = FALSE /\ drained = FALSE
    /\ stopped = {}
    /\ caller = [w \in Callers |-> "idle"]
    /\ serve = "serving" /\ storeOpen = TRUE /\ graceful = TRUE

-----------------------------------------------------------------------------
(* Requests.                                                                *)

Move(c, here, next) == stage[c] = here /\ stage' = [stage EXCEPT ![c] = next]

\* The handler has returned: its locals and its connection are gone.
Forget(c) ==
    /\ keyOf' = [keyOf EXCEPT ![c] = NoKey] /\ isGuardian' = [isGuardian EXCEPT ![c] = FALSE]
    /\ hijacked' = hijacked \ {c}

\* ServeHTTP: POST streams over HTTP, GET upgrades; a missing or malformed bearer
\* token ends the request before the store is asked.  A connection accepted before
\* the shutdown may still send its request while the server waits for it.
Arrive(c) ==
    /\ serve \in {"serving", "draining"}
    /\ \/ Move(c, "idle", "httpAuth") \/ Move(c, "idle", "wsAuth") \/ Move(c, "idle", "done")
    /\ UNCHANGED <<keyOf, isGuardian, hijacked, manager, shutdown>>

\* AuthenticateAndStart opens the row; a request it refuses has none.
HttpAuthenticate(c) ==
    /\ Move(c, "httpAuth", "httpForward") \/ Move(c, "httpAuth", "done")
    /\ UNCHANGED <<keyOf, isGuardian, hijacked, manager, shutdown>>

\* Body, core, error inspection and stream; every way out goes through finish.
HttpForward(c) ==
    /\ Move(c, "httpForward", "httpFinish")
    /\ UNCHANGED <<keyOf, isGuardian, hijacked, manager, shutdown>>

HttpFinish(c) ==
    /\ Move(c, "httpFinish", "done")
    /\ UNCHANGED <<keyOf, isGuardian, hijacked, manager, shutdown>>

\* AuthenticateConnection, then the handshake and adapter checks.
WsAuthenticate(c, k, g) ==
    /\ \/ Move(c, "wsAuth", "acquire") /\ keyOf' = [keyOf EXCEPT ![c] = k]
          /\ isGuardian' = [isGuardian EXCEPT ![c] = g]
       \/ Move(c, "wsAuth", "done") /\ UNCHANGED <<keyOf, isGuardian>>
    /\ UNCHANGED <<hijacked, manager, shutdown>>

\* acquireRole: a guardian leaves one slot for the connection it prewarms.
MayAcquire(k, g) ==
    /\ ~closing /\ perKey[k] < Limit
    /\ g => guardian[k] < Limit - 1

Acquire(c) ==
    LET k == keyOf[c] IN
    /\ \/ /\ Move(c, "acquire", "dial") /\ MayAcquire(k, isGuardian[c])
          /\ perKey' = [perKey EXCEPT ![k] = @ + 1]
          /\ guardian' = [guardian EXCEPT ![k] = IF isGuardian[c] THEN @ + 1 ELSE @]
          /\ UNCHANGED <<keyOf, isGuardian, hijacked>>
       \/ /\ Move(c, "acquire", "done") /\ ~MayAcquire(k, isGuardian[c])
          /\ Forget(c) /\ UNCHANGED <<perKey, guardian>>
    /\ UNCHANGED <<sessions, closing, drained, shutdown>>

\* External: the core answers the dial, or refuses it; a refusal may say that the
\* credential needs a login.
Dial(c) ==
    /\ \/ Move(c, "dial", "accept") \/ Move(c, "dial", "dialError") \/ Move(c, "dial", "release")
    /\ UNCHANGED <<keyOf, isGuardian, hijacked, manager, shutdown>>

\* writeWebSocketDialError: MarkCredentialRequiresLogin.
DialError(c) ==
    /\ Move(c, "dialError", "release")
    /\ UNCHANGED <<keyOf, isGuardian, hijacked, manager, shutdown>>

\* websocket.Accept hijacks the connection, or fails.
Accept(c) ==
    /\ \/ Move(c, "accept", "register") /\ hijacked' = hijacked \cup {c}
       \/ Move(c, "accept", "release") /\ UNCHANGED hijacked
    /\ UNCHANGED <<keyOf, isGuardian, manager, shutdown>>

\* Mutant: a closing manager still registers.
RegisterAlways(c) ==
    /\ Move(c, "register", "run") /\ sessions' = sessions \cup {c} /\ UNCHANGED stopped
    /\ UNCHANGED <<keyOf, isGuardian, hijacked, perKey, guardian, closing, drained, caller, serve,
                    storeOpen, graceful>>

\* register: a closing manager refuses, and the session is stopped unrun.
Register(c) ==
    /\ \/ ~closing /\ Move(c, "register", "run") /\ sessions' = sessions \cup {c} /\ UNCHANGED stopped
       \/ closing /\ Move(c, "register", "release") /\ stopped' = stopped \cup {c} /\ UNCHANGED sessions
    /\ UNCHANGED <<keyOf, isGuardian, hijacked, perKey, guardian, closing, drained, caller, serve,
                    storeOpen, graceful>>

\* session.run returns: a peer left, or the session was stopped.
SessionReturns(c) ==
    /\ Move(c, "run", "unregister")
    /\ UNCHANGED <<keyOf, isGuardian, hijacked, manager, shutdown>>

Unregister(c) ==
    /\ Move(c, "unregister", "release")
    /\ sessions' = sessions \ {c}
    /\ drained' = (drained \/ (closing /\ sessions' = {}))
    /\ UNCHANGED <<keyOf, isGuardian, hijacked, perKey, guardian, closing, shutdown>>

\* Mutant: the guardian count is not given back.
ReleaseForgettingRole(c) ==
    /\ Move(c, "release", "done")
    /\ perKey' = [perKey EXCEPT ![keyOf[c]] = @ - 1]
    /\ Forget(c) /\ stopped' = stopped \ {c}
    /\ UNCHANGED <<guardian, sessions, closing, drained, caller, serve, storeOpen, graceful>>

\* An entry that would fall to zero is deleted.
OneLess(n) == IF n <= 1 THEN 0 ELSE n - 1

\* releaseRole.
Release(c) ==
    LET k == keyOf[c] IN
    /\ Move(c, "release", "done")
    /\ guardian' = [guardian EXCEPT ![k] = IF isGuardian[c] THEN OneLess(@) ELSE @]
    /\ perKey' = [perKey EXCEPT ![k] = OneLess(@)]
    /\ Forget(c) /\ stopped' = stopped \ {c}
    /\ UNCHANGED <<sessions, closing, drained, caller, serve, storeOpen, graceful>>

-----------------------------------------------------------------------------
(* Shutdown.                                                                *)

\* ctx is cancelled: server.Shutdown closes the listener, runs ShutdownWebSockets
\* on its own goroutine and waits for the connections that were not hijacked.
Shutdown ==
    /\ serve = "serving" /\ serve' = "draining"
    /\ caller' = [caller EXCEPT !["onShutdown"] = "begin"]
    /\ UNCHANGED <<handlers, manager, stopped, storeOpen, graceful>>

\* accept fails: Serve returns without a Shutdown.
ListenerFails ==
    /\ "listenerFails" \in Faults
    /\ serve = "serving" /\ serve' = "served" /\ graceful' = FALSE
    /\ UNCHANGED <<handlers, manager, stopped, caller, storeOpen>>

Waited == \A c \in Conns : stage[c] \in {"idle", "done"} \/ c \in hijacked

\* Serve returns once nothing is left to wait for, or after 10 s.
ServeReturns ==
    /\ serve = "draining" /\ serve' = "served"
    /\ \/ Waited /\ UNCHANGED graceful
       \/ "timeouts" \in Faults /\ graceful' = FALSE
    /\ UNCHANGED <<handlers, manager, stopped, caller, storeOpen>>

FinalShutdown ==
    /\ serve = "served" /\ serve' = "final"
    /\ caller' = [caller EXCEPT !["final"] = "begin"]
    /\ UNCHANGED <<handlers, manager, stopped, storeOpen, graceful>>

\* websocketManager.shutdown, first under the mutex ...
BeginShutdown(w) ==
    /\ caller[w] = "begin" /\ caller' = [caller EXCEPT ![w] = "stopping"]
    /\ closing' = TRUE
    /\ drained' = (drained \/ sessions = {})
    /\ UNCHANGED <<handlers, perKey, guardian, sessions, stopped, serve, storeOpen, graceful>>

\* ... then stop() for every session it found; none is registered any more ...
StopSession(w, c) ==
    /\ caller[w] = "stopping" /\ c \in sessions \ stopped
    /\ stopped' = stopped \cup {c}
    /\ UNCHANGED <<handlers, manager, caller, serve, storeOpen, graceful>>

StopDone(w) ==
    /\ caller[w] = "stopping" /\ sessions \subseteq stopped
    /\ caller' = [caller EXCEPT ![w] = "waiting"]
    /\ UNCHANGED <<handlers, manager, stopped, serve, storeOpen, graceful>>

\* Mutant: a wait that times out stops the sessions and waits once more.
DrainDoneRetried(w) ==
    /\ caller[w] = "waiting"
    /\ \/ drained /\ caller' = [caller EXCEPT ![w] = "done"] /\ UNCHANGED graceful
       \/ /\ "timeouts" \in Faults /\ graceful' = FALSE
          /\ caller' = [caller EXCEPT ![w] = "stopping"]
    /\ UNCHANGED <<handlers, manager, stopped, serve, storeOpen>>

\* ... then the wait for the drain, or for 10 s.
DrainDone(w) ==
    /\ caller[w] = "waiting" /\ caller' = [caller EXCEPT ![w] = "done"]
    /\ \/ drained /\ UNCHANGED graceful
       \/ "timeouts" \in Faults /\ graceful' = FALSE
    /\ UNCHANGED <<handlers, manager, stopped, serve, storeOpen>>

\* Mutant: runServe leaves the drain to the goroutine that Shutdown started.
CloseStoreAtOnce ==
    /\ serve = "final" /\ serve' = "closed"
    /\ storeOpen' = FALSE
    /\ UNCHANGED <<handlers, manager, stopped, caller, graceful>>

\* runServe returns: the supervisor, the service lock and the store are closed.
CloseStore ==
    /\ serve = "final" /\ caller["final"] = "done"
    /\ serve' = "closed" /\ storeOpen' = FALSE
    /\ UNCHANGED <<handlers, manager, stopped, caller, graceful>>

-----------------------------------------------------------------------------

WsAuthenticates(c) == \E k \in Keys, g \in BOOLEAN : WsAuthenticate(c, k, g)

\* Steps of a handler that the code takes by itself.
HandlerStep(c) ==
    \/ HttpAuthenticate(c) \/ HttpForward(c) \/ HttpFinish(c)
    \/ WsAuthenticates(c) \/ Acquire(c) \/ Dial(c) \/ DialError(c) \/ Accept(c)
    \/ Register(c) \/ Unregister(c) \/ Release(c)

ShutdownStep ==
    \/ ServeReturns \/ FinalShutdown \/ CloseStore
    \/ \E w \in Callers : \/ BeginShutdown(w) \/ StopDone(w) \/ DrainDone(w)
                          \/ \E c \in Conns : StopSession(w, c)

\* The process is gone.
Exited == serve = "closed" /\ UNCHANGED vars

Next ==
    \/ \E c \in Conns : Arrive(c) \/ HandlerStep(c) \/ SessionReturns(c)
    \/ Shutdown \/ ListenerFails \/ ShutdownStep \/ Exited

Spec == Init /\ [][Next]_vars

\* Handlers and the shutdown path run on; a session returns once it is stopped
\* (DoomedSessionReturns of WebSocketSession).  Nobody has to shut the server down.
Fairness ==
    /\ \A c \in Conns : WF_vars(HandlerStep(c)) /\ WF_vars(c \in stopped /\ SessionReturns(c))
    /\ WF_vars(ShutdownStep)

FairSpec == Spec /\ Fairness
-----------------------------------------------------------------------------
(* Properties.                                                              *)

\* Every set and program counter keeps its declared type; the counters keep the
\* ranges acquireRole gives them, one below the limit for guardians.
TypeOK ==
    /\ stage \in [Conns -> Stages] /\ keyOf \in [Conns -> Keys \cup {NoKey}]
    /\ isGuardian \in [Conns -> BOOLEAN] /\ hijacked \in SUBSET Conns
    /\ perKey \in [Keys -> 0..Limit] /\ guardian \in [Keys -> 0..(Limit - 1)]
    /\ sessions \in SUBSET Conns /\ closing \in BOOLEAN /\ drained \in BOOLEAN
    /\ stopped \in SUBSET Conns
    /\ caller \in [Callers -> {"idle", "begin", "stopping", "waiting", "done"}]
    /\ serve \in {"serving", "draining", "served", "final", "closed"}
    /\ storeOpen \in BOOLEAN /\ graceful \in BOOLEAN

Holders(k) == {c \in Conns : stage[c] \in HoldingStages /\ keyOf[c] = k}
Guardians(k) == {c \in Holders(k) : isGuardian[c]}

\* The manager's counters are exactly the handlers between acquireRole and
\* releaseRole, on every path out of serveWebSocket: no slot leaks or is given back twice.
SlotsMatchHolders ==
    \A k \in Keys :
        /\ perKey[k] = Cardinality(Holders(k))
        /\ guardian[k] = Cardinality(Guardians(k))

\* Guardian connections alone never fill a key: the connection they prewarm for
\* still gets a slot while the manager is open.
GuardiansLeaveRoom ==
    \A k \in Keys : ~closing /\ Holders(k) = Guardians(k) => MayAcquire(k, FALSE)

\* Once drained is closed no session runs and none will be registered.
DrainedMeansEmpty ==
    drained => closing /\ sessions = {} /\ \A c \in Conns : stage[c] # "run"

\* After a graceful shutdown the store is closed only when no handler is left that
\* could still start, finish or mark something in it.
StoreOutlivesUse ==
    ~storeOpen /\ graceful => \A c \in Conns : stage[c] \notin StoreStages

\* A server told to stop closes its store.
ShutdownCompletes == serve = "draining" ~> ~storeOpen
=============================================================================
