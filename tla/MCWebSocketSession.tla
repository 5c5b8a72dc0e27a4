------------------------- MODULE MCWebSocketSession -------------------------
(* Small instances of WebSocketSession for TLC.                            *)
EXTENDS WebSocketSession, TLC

Event(type, id, usage) ==
    [type |-> type, id |-> id, usage |-> usage, footer |-> FALSE, interrupted |-> FALSE]

Opaque(types) == {Event(t, NoId, FALSE) : t \in types}

\* Events of two responses, so that a late event can meet the wrong operation.
TwoResponses ==
    {Event("response.event", i, FALSE) : i \in ResponseIds}
    \cup {Event("response.completed", i, TRUE) : i \in ResponseIds}
    \cup {Event("response.failed", i, TRUE) : i \in ResponseIds}
    \cup {[Event("error", NoId, FALSE) EXCEPT !.footer = TRUE]}
    \cup {[Event("response.incomplete", i, FALSE) EXCEPT !.interrupted = TRUE] : i \in ResponseIds}
    \cup Opaque({"control"})

\* One response that completes or fails with a footer, and frames that end the session.
OneOutcome ==
    {Event("response.completed", i, TRUE) : i \in ResponseIds}
    \cup {Event("response.failed", NoId, TRUE), [Event("error", NoId, FALSE) EXCEPT !.footer = TRUE]}
    \cup Opaque({"malformed", "badcontrol"})

\* A response that never ends, and a frame that ends the session.
Unfinished == {Event("response.event", NoId, FALSE)} \cup Opaque({"control", "malformed"})

Creates == {[type |-> "response.create", id |-> NoId]}

\* A binary frame of the client is refused like a malformed one.
AnyClient == {e \in ClientEvents : e.type # "binary"}

Symmetry == Permutations(Requests) \cup Permutations(ResponseIds)
=============================================================================
