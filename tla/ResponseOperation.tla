-------------------------- MODULE ResponseOperation --------------------------
(***************************************************************************)
(* An operation of the context store as far as the events of its response  *)
(* go (subscription_events.rs, response_failure_tail.rs): which of them it *)
(* accepts and what it keeps of them.  A response that comes over a        *)
(* WebSocket and one that comes over HTTP are both followed this way.      *)
(***************************************************************************)
EXTENDS OutputLifecycle

CONSTANT MaxItems   \* max_output_items

\* Active: an operation of the context store, as far as the events of its response go.
NewOperation(create) ==
    [live |-> TRUE, rid |-> None, life |-> NoOutput, intr |-> NoInterrupt, seen |-> <<>>,
     whole |-> TRUE, comp |-> create.comp, compactions |-> <<>>]

Terminal(ev) == ev.type \in {"completed", "failed", "incomplete", "error"}
NamesResponse(ev) == ev.type \in {"created", "completed", "failed", "incomplete"}

\* An event of a response may come without its id.
Gives(ev) == NamesResponse(ev) /\ ev.rid # None

OpIndex(op, ev) == IF ev.idx # None THEN ev.idx ELSE Cardinality(DOMAIN op.seen)

IsCompaction(item) == item.kind = "compaction"

\* validate_event; an operation that is gone accepts no output and no end.
ValidEvent(op, ev) ==
    LET life == Observe(op.life, ev, MaxItems, op.intr.asked)
        ends == Terminal(ev) /\ ev.type # "error"
    IN  /\ DoneIsFinished(ev)
        /\ op.live \/ ~(ends \/ IsOutputEvent(ev))
        /\ op.live => /\ InterruptFits(op.intr, ev) /\ ~life.broken
                      /\ ends => /\ Gives(ev) => op.rid \in {None, ev.rid}
                                 /\ IF Completes(op.intr, ev)
                                    THEN InterruptedProves(life, ev.out, op.seen)
                                    ELSE /\ ev.type = "completed" => CompletedProves(life, ev)
                                         /\ TerminalAgrees(ev.out, op.seen, op.whole)

\* observe refuses a second response id and an item that changed.
Observable(op, ev) ==
    op.live =>
        /\ Gives(ev) => op.rid \in {None, ev.rid}
        /\ (ev.type = "done" /\ OpIndex(op, ev) \in DOMAIN op.seen) =>
               op.seen[OpIndex(op, ev)] = ev.item

Observed(op, ev) ==
    IF ~op.live THEN op
    ELSE [op EXCEPT !.life = Observe(@, ev, MaxItems, op.intr.asked),
                    !.intr = Interrupt(@, ev),
                    !.rid = IF Gives(ev) THEN ev.rid ELSE @,
                    !.seen = IF ev.type = "done" /\ OpIndex(op, ev) < MaxItems
                             THEN (OpIndex(op, ev) :> ev.item) @@ @ ELSE @,
                    !.whole = @ /\ (ev.type = "done" => OpIndex(op, ev) < MaxItems),
                    !.compactions = IF ev.type = "done" /\ IsCompaction(ev.item)
                                    THEN Append(@, ev.item) ELSE @,
                    !.live = ~Terminal(ev)]

\* accepts_response: a compaction has one compaction item among its events, and its output, if
\* it lists any items, repeats that one and no other.
CompactionAccepted(op, out) ==
    op.comp =>
        /\ Len(op.compactions) = 1
        /\ Populated(out) =>
               LET again == SelectSeq(out, IsCompaction)
               IN  Len(again) = 1 /\ again[1].body = op.compactions[1].body

\* The end of observe: whether a completed response stays in the store, where a later request
\* can name it.  A response without an id, or one whose items the store did not keep all of or
\* cannot put in order, is delivered and forgotten.
Publishes(op, ev) ==
    /\ op.rid # None /\ op.whole
    /\ IF Populated(ev.out) THEN Len(ev.out) <= MaxItems
       ELSE DOMAIN op.seen = 0..(Cardinality(DOMAIN op.seen) - 1)
    /\ CompactionAccepted(op, ev.out)

\* SseFailureTail::validate: what may follow an error that was not final by itself.
ValidTail(op, ev) ==
    /\ ev.type \in {"error", "failed"}
    /\ ev.rid # None => op.rid \in {None, ev.rid}
    /\ ev.type = "failed" => TerminalAgrees(ev.out, op.seen, op.whole)
=============================================================================
