--------------------------- MODULE MCIdentityState ---------------------------
(* Small instances of IdentityState for TLC.                               *)
EXTENDS IdentityState

CONSTANTS s1, s2, a, b, t, u, x, y, z, far,
          u1, u2, u3, u4, u5, u6, u7, u8, u9, u10, u11, u12, u13, u14, u15, u16, u17, u18,
          u19, u20, u21, u22, u23, u24

TwentyFour == <<u1, u2, u3, u4, u5, u6, u7, u8, u9, u10, u11, u12, u13, u14, u15, u16, u17, u18,
                u19, u20, u21, u22, u23, u24>>

\* Evidence: a plain turn, and what is said beyond it.
Plain == [inst |-> None, conv |-> None, thread |-> None, parent |-> None, fork |-> None,
          turn |-> None, root |-> None, pturn |-> None, sub |-> FALSE, kind |-> "turn",
          reviewer |-> FALSE, win |-> None, new |-> FALSE, call |-> None, hist |-> None,
          replay |-> FALSE, item |-> FALSE, prev |-> FALSE]
Conv(c, n) == [Plain EXCEPT !.conv = c, !.turn = n]
Child(c, th, n, root) == [Conv(c, n) EXCEPT !.thread = th, !.parent = c, !.root = root, !.pturn = root]

Ample == [k \in Kinds |-> 20]
World(forms, caps, days, requests) ==
    [forms |-> forms, caps |-> caps, size |-> 100, retention |-> 1, days |-> days,
     requests |-> requests, cached |-> FALSE, items |-> FALSE, ends |-> FALSE]
Ends(w) == [w EXCEPT !.ends = TRUE]
Items(w) == [w EXCEPT !.items = TRUE]
Cached(w) == [w EXCEPT !.items = TRUE, !.cached = TRUE]

Cap(k, n) == [Ample EXCEPT ![k] = n]
Prev == [Plain EXCEPT !.prev = TRUE]

MCWorlds == <<
    \* Two conversations where one fits.
    Ends(Items(World({Conv(a, x), Conv(b, y)}, Cap("conv", 1), 0, 3))),
    \* Children of two conversations, where one fits.
    Ends(World({Child(a, t, z, x), Child(b, u, y, far)}, Cap("child", 1), 0, 3)),
    \* A conversation and its child's turn where one turn of three must go.
    Ends(World({Conv(a, x), Child(a, t, z, x), Conv(b, y)}, Cap("turn", 2), 0, 3)),
    \* Two conversations that name the same thread.
    World({[Conv(a, x) EXCEPT !.thread = t], [Conv(b, y) EXCEPT !.thread = t]}, Ample, 0, 2),
    \* Details expire under a child, a continuation and a new turn.
    Ends(World({Conv(a, x), Child(a, t, z, x), [Prev EXCEPT !.new = TRUE]}, Ample, 2, 3)),
    \* A fork, its continuation and a fork of what has not been seen.
    World({Conv(a, x), [Conv(b, y) EXCEPT !.fork = a, !.hist = x], Prev, [Conv(t, z) EXCEPT !.fork = u]},
          Ample, 0, 3),
    \* Compactions of one thread, and a window the client announces.
    Ends(World({[Conv(a, x) EXCEPT !.kind = "compaction"], [Conv(a, y) EXCEPT !.kind = "compaction"]}, Ample, 0, 3)),
    World({[Conv(a, x) EXCEPT !.kind = "compaction"], [Conv(a, z) EXCEPT !.win = 2]}, Ample, 0, 3),
    \* A replayed history is imported.
    Ends(World({Conv(a, x), [Plain EXCEPT !.replay = TRUE, !.hist = x, !.new = TRUE, !.item = TRUE],
           [Plain EXCEPT !.replay = TRUE, !.call = x]}, Ample, 0, 3)),
    \* A reviewer and a classifier of a turn, memory and prewarm.
    World({Conv(a, x), [Child(a, t, z, None) EXCEPT !.kind = "guardian_classifier", !.pturn = x],
           [Child(a, u, y, None) EXCEPT !.pturn = x, !.reviewer = TRUE],
           [Conv(a, None) EXCEPT !.kind = "prewarm"], [Conv(a, None) EXCEPT !.kind = "memory"]},
          Ample, 0, 3),
    \* The ID cache while aliases are evicted.
    Cached(World({Conv(a, x), Conv(b, y)}, Cap("wire", 6), 0, 2)),
    \* A ledger at its size.
    Ends([World({Conv(a, x), Conv(b, y), Child(a, t, z, x)}, Ample, 0, 3) EXCEPT !.size = 9])
    >>

\* A child with a task of its own, and a grandchild whose parent turn was not seen; then a child
\* of another conversation where two children fit.
DanglingWorlds ==
    {Ends(World({[Child(a, t, x, x) EXCEPT !.pturn = None],
                 [Child(a, u, z, x) EXCEPT !.parent = t, !.pturn = y],
                 [Child(b, far, far, far) EXCEPT !.pturn = None]}, Cap("child", 2), 0, 3))}

SomeWorlds == {MCWorlds[i] : i \in DOMAIN MCWorlds}
Symmetry == Permutations(Slots)
=============================================================================
