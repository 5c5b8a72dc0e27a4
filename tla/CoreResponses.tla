---------------------------- MODULE CoreResponses ----------------------------
(***************************************************************************)
(* The core's two carriers of a response: a WebSocket (Relay) and an HTTP  *)
(* body (ResponseStream).  Each is served by a task of its own and they    *)
(* share nothing but the rules for a response's events, so a behaviour is  *)
(* one of either.                                                          *)
(***************************************************************************)
EXTENDS Relay, ResponseStream

\* No HTTP request is made.
NoRequest ==
    /\ http = None /\ reply = "none" /\ reader = NewReader /\ trans = NewTranslation
    /\ lease = [op |-> None, completed |-> FALSE, published |-> FALSE] /\ bytes = NoBytes /\ said = {} /\ after = {}

\* A world without messages is a WebSocket nobody uses.
CoreInit == Init /\ IF world.messages = {} THEN StreamInit ELSE NoRequest

CoreNext == \/ Next /\ UNCHANGED streamVars
            \/ StreamNext /\ UNCHANGED vars

CoreSpec == CoreInit /\ [][CoreNext]_<<vars, streamVars>> /\ Fairness /\ StreamFairness
=============================================================================
