--------------------------- MODULE OutputLifecycle ---------------------------
(***************************************************************************)
(* The proof a response carries of its own completeness                    *)
(* (response_output_lifecycle.rs, response_output.rs,                      *)
(* response_interrupt.rs).  Every output item that an event starts must be *)
(* finished by a done event or by the final output, unless the client      *)
(* interrupted the response and the item was discarded.  The context store *)
(* and the WebSocket continuation each keep such a proof for the response  *)
(* they follow.                                                            *)
(*                                                                         *)
(* An item is [id, kind, body, open]: its id (or None), what is compared   *)
(* as its type, the rest of its content, and whether its status is an      *)
(* unfinished one.  An event is [type, rid, idx, item, id, out, status]:   *)
(* the response it names, the output index, the item or the item id it     *)
(* carries, a terminal's (or a snapshot's) output, and for an error        *)
(* whether it is final by itself, for an incomplete response whether it    *)
(* was interrupted, for a completed one whether its status denies it.      *)
(***************************************************************************)
EXTENDS Integers, Sequences, FiniteSets, TLC, Functions

CONSTANT None

Identity(item) == [id |-> item.id, kind |-> item.kind]

\* Identity::merge fails when both sides know a part and disagree.
Clash(p, q) == \E f \in {"id", "kind"} : p[f] # None /\ q[f] # None /\ p[f] # q[f]
Merge(p, q) == [f \in {"id", "kind"} |-> IF p[f] # None THEN p[f] ELSE q[f]]

\* Identity::matches, and the check of a finished item: what was known is what came.
Fits(known, who) == \A f \in {"id", "kind"} : known[f] # None => known[f] = who[f]

\* OutputLifecycle: the items by their locator, <<"index", n>> or <<"id", i>>.  broken: an
\* observation failed, and with it the response.
NoOutput == [pending |-> <<>>, byId |-> <<>>, finished |-> <<>>, finishedIds |-> {},
             discarded |-> <<>>, discardedIds |-> {}, unverified |-> FALSE, broken |-> FALSE]

Broken(l) == [l EXCEPT !.broken = TRUE]
Dropped(f, keys) == Restrict(f, DOMAIN f \ keys)
Kept(l) == Cardinality(DOMAIN l.pending) + Cardinality(DOMAIN l.discarded)
           + Cardinality(DOMAIN l.finished)

ExistingId(l, who) == IF who.id \in DOMAIN l.byId THEN l.byId[who.id] ELSE None

Locate(l, idx, who) ==
    IF idx # None THEN <<"index", idx>>
    ELSE IF ExistingId(l, who) # None THEN ExistingId(l, who)
    ELSE IF who.id # None THEN <<"id", who.id>> ELSE None

IndexChanged(l, idx, who) ==
    LET known == ExistingId(l, who)
    IN  idx # None /\ known # None /\ known[1] = "index" /\ known[2] # idx

\* Mutant: nobody asks for what was discarded.
NeverReappeared(l, key, who) == FALSE

Reappeared(l, key, who) == key \in DOMAIN l.discarded \/ who.id \in l.discardedIds

\* The item is pending under its key, with what was known of it.
StartAt(l, key, rest, who, max) ==
    LET merged == IF key \in DOMAIN rest THEN Merge(rest[key], who) ELSE who
    IN  IF key \in DOMAIN rest /\ Clash(rest[key], who) THEN Broken(l)
        ELSE IF key \notin DOMAIN rest /\ Kept([l EXCEPT !.pending = rest]) >= max
             THEN [l EXCEPT !.pending = rest, !.unverified = TRUE]
        ELSE [l EXCEPT !.pending = (key :> merged) @@ rest,
                       !.byId = IF merged.id = None THEN @ ELSE (merged.id :> key) @@ @]

\* An item that was pending under another key moves.
Start(l, idx, who, max) ==
    LET key == Locate(l, idx, who)
        known == ExistingId(l, who)
    IN  IF IndexChanged(l, idx, who) THEN Broken(l)
        ELSE IF key = None THEN [l EXCEPT !.unverified = TRUE]
        ELSE IF Reappeared(l, key, who) THEN Broken(l)
        ELSE IF known \notin {None, key} /\ known \in DOMAIN l.pending
             THEN IF Clash(who, l.pending[known]) THEN Broken(l)
                  ELSE StartAt(l, key, Dropped(l.pending, {known}), Merge(who, l.pending[known]), max)
        ELSE StartAt(l, key, l.pending, who, max)

Finish(l, idx, who, max) ==
    LET key == Locate(l, idx, who)
        keys == ({key, ExistingId(l, who)} \ {None}) \cap DOMAIN l.pending
        m == [l EXCEPT !.pending = Dropped(@, keys),
                       !.byId = Dropped(@, {l.pending[k].id : k \in keys})]
        merged == IF key \in DOMAIN l.finished THEN Merge(l.finished[key], who) ELSE who
    IN  IF IndexChanged(l, idx, who) THEN Broken(l)
        ELSE IF key = None THEN l
        ELSE IF \/ Reappeared(l, key, who)
                \/ \E k \in keys : ~Fits(l.pending[k], who)
                \/ (key \in DOMAIN l.finished /\ Clash(l.finished[key], who)) THEN Broken(l)
        ELSE IF key \notin DOMAIN l.finished /\ Kept(m) >= max THEN [m EXCEPT !.unverified = TRUE]
        ELSE [m EXCEPT !.finished = (key :> merged) @@ @,
                       !.finishedIds = @ \cup ({merged.id} \ {None})]

Discard(l, idx, who) ==
    LET key == Locate(l, idx, who)
        at == IF key \in DOMAIN l.pending \/ ExistingId(l, who) = None THEN key
              ELSE ExistingId(l, who)
        merged == Merge(l.pending[at], who)
    IN  IF \/ IndexChanged(l, idx, who) \/ key = None \/ Reappeared(l, key, who)
           \/ key \in DOMAIN l.finished \/ who.id \in l.finishedIds
           \/ at \notin DOMAIN l.pending THEN Broken(l)
        ELSE IF l.pending[at].id \notin {None, who.id} THEN Broken(l)
        ELSE [l EXCEPT !.pending = Dropped(@, {at}), !.byId = Dropped(@, {merged.id}),
                       !.discarded = (key :> merged) @@ @,
                       !.discardedIds = @ \cup ({merged.id} \ {None})]

IsOutputEvent(ev) == ev.type \in {"added", "done", "delta", "interrupted"}

\* The items that an event names, with their indices: a snapshot lists many.
NamedItems(ev) ==
    IF ev.type = "created" /\ ev.out # None
    THEN [i \in DOMAIN ev.out |-> [idx |-> i - 1, who |-> Identity(ev.out[i])]]
    ELSE IF ~IsOutputEvent(ev) THEN <<>>
    ELSE <<[idx |-> ev.idx,
            who |-> IF ev.type \in {"added", "done"} THEN Identity(ev.item)
                    ELSE [id |-> ev.id, kind |-> None]]>>

\* observe_with_interrupt.  What a snapshot lists is started, and so is an item that is told to
\* be done with an unfinished status.
Observe(l, ev, max, asked) ==
    LET named == NamedItems(ev)
        step(n, m) == IF m.broken THEN m
                      ELSE IF ev.type = "interrupted"
                           THEN IF asked THEN Discard(m, n.idx, n.who) ELSE Broken(m)
                      ELSE IF ev.type = "done" /\ ~ev.item.open THEN Finish(m, n.idx, n.who, max)
                      ELSE Start(m, n.idx, n.who, max)
        latest(s) == CHOOSE i \in s : \A j \in s : j <= i
    IN  MapThenFoldSet(step, l, LAMBDA i : named[i], latest, DOMAIN named)

\* validate_done, for the events that carry a finished item.
DoneIsFinished(ev) == ev.type = "done" => ~ev.item.open

Populated(out) == out # None /\ out # <<>>

\* CompletionFingerprint::compatible: a message may gain the id it was announced without.
Compatible(item, final) ==
    /\ item.kind = final.kind /\ item.body = final.body
    /\ item.id = final.id \/ (item.kind = "message" /\ item.id = None)

\* validate_terminal: the final output repeats the finished items, or, when it is left out,
\* they stand for it and have no gap.
TerminalAgrees(out, seen, whole) ==
    IF Populated(out)
    THEN \A i \in DOMAIN seen : i + 1 \in DOMAIN out /\ Compatible(seen[i], out[i + 1])
    ELSE whole => DOMAIN seen = 0 .. Cardinality(DOMAIN seen) - 1

\* validate_completed.
CompletedProves(l, ev) ==
    LET out == ev.out
        final(key) == IF out = None THEN {}
                      ELSE IF key[1] = "index" THEN {key[2] + 1} \cap DOMAIN out
                      ELSE {i \in DOMAIN out : out[i].id = key[2]}
    IN  /\ DOMAIN l.discarded = {} /\ ~l.unverified /\ ~ev.status
        /\ out # None => \A i \in DOMAIN out : ~out[i].open
        /\ \A key \in DOMAIN l.pending :
               /\ Cardinality(final(key)) = 1
               /\ \A i \in final(key) : Fits(l.pending[key], Identity(out[i]))

\* The values of a function on indices, in their order.
InOrder(seen) ==
    LET nth(n) == CHOOSE i \in DOMAIN seen : Cardinality({j \in DOMAIN seen : j < i}) = n - 1
    IN  [n \in 1 .. Cardinality(DOMAIN seen) |-> seen[nth(n)]]

\* validate_interrupted: nothing is left pending, and the final output, when there is one, is
\* exactly what was finished, in index order.
InterruptedProves(l, out, seen) ==
    /\ ~l.unverified /\ DOMAIN l.pending = {}
    /\ \A i \in DOMAIN seen : <<"index", i>> \notin DOMAIN l.discarded
    /\ Populated(out) =>
           /\ Len(out) = Cardinality(DOMAIN seen)
           /\ \A i \in DOMAIN out : /\ ~out[i].open /\ out[i].id \notin l.discardedIds
                                    /\ Compatible(InOrder(seen)[i], out[i])

\* ------------------------------------------------------------- InterruptState
NoInterrupt == [rid |-> None, asked |-> FALSE]

MayInterrupt(s, rid) == ~s.asked /\ s.rid = rid

\* observe: fails on a second response, and on an interruption nobody asked for.
InterruptFits(s, ev) ==
    /\ ev.type = "created" /\ ev.rid # None => s.rid \in {None, ev.rid}
    /\ ev.type \in {"accepted", "interrupted"} => s.asked /\ s.rid = ev.rid

Interrupt(s, ev) == IF ev.type = "created" /\ ev.rid # None THEN [s EXCEPT !.rid = ev.rid] ELSE s

\* completes: the one incomplete response that counts as an end of its own.
Completes(s, ev) == s.asked /\ ev.type = "incomplete" /\ ev.status /\ s.rid = ev.rid
=============================================================================
