--------------------------- MODULE MCContextStore ---------------------------
(* Small instances of ContextStore for TLC.                                *)
EXTENDS ContextStore, TLC

CONSTANTS o1, o2, o3, s1, s2, t1, t2, t3, k1

OneScope == [s \in Sessions |-> "key"]
SessionOfTurn == [t \in Turns |-> IF t = t3 THEN s2 ELSE s1]

Of(s, k, t) == [session |-> s, socket |-> k, turn |-> t]

Allow(number, requests, tokens, inputs) ==
    [number |-> number, requests |-> requests, repeats |-> TRUE, tokens |-> tokens,
     inputs |-> inputs]
AllowOnce(requests, token) ==
    [number |-> 3, requests |-> requests, repeats |-> FALSE, tokens |-> {token}, inputs |-> {}]

\* HTTP requests of two sessions; a socket's prewarm and its turns.
HttpRequests == {Of(s1, None, t1), Of(s2, None, t3)}
PrewarmRequests == {Of(s1, k1, None), Of(s1, k1, t1)}
SocketRequests == PrewarmRequests \cup {Of(s1, k1, t2)}

MCWorlds ==
    {Allow(3, {Of(s1, None, t1)}, {}, {"item"}), Allow(3, HttpRequests, {}, {"tail", "full"}),
     Allow(2, HttpRequests, {}, {"item", "idle"}),
     Allow(3, {Of(s1, None, t1)}, Tokens, {}),
     Allow(2, PrewarmRequests, Tokens, {"full", "relay", "close"}),
     Allow(2, {Of(s1, k1, t1), Of(s2, None, t3)}, Tokens, {"item", "relay"}),
     Allow(2, PrewarmRequests, Tokens, {"idle", "close"})}
    \cup {AllowOnce(SocketRequests, t) : t \in Tokens}

Symmetry == Permutations(Ops) \cup Permutations(Tokens)
=============================================================================
