------------------------ MODULE ResponseStreamProofs ------------------------
(***************************************************************************)
(* Theorems about the core's HTTP responses: for any requests, events,     *)
(* timeouts and limits, however the events are cut into reads.  What an    *)
(* output item is and when a final output proves it complete plays no      *)
(* part, so that the operators of OutputLifecycle stay closed.             *)
(***************************************************************************)
EXTENDS ResponseStream, TLAPS

\* How long a leaf may take.
USE SMTT(60), ZenonT(60)

Final == {"flex", "trailers", "refused"}
Closing == EndsOrFlex \cup {"error"}

\* Which frames may follow which: the part of OneHonestEnd that is about the order.
Order ==
    /\ \A x, y \in Ends : <<x, y>> \notin after
    /\ \A x \in Closing : <<x, "output">> \notin after
    /\ \A x \in {"completed", "incomplete"} : <<"error", x>> \notin after
    /\ <<"error", "DONE">> \in after => \E x \in Ends : <<x, "DONE">> \in after
    /\ \A x \in Final : \A y \in said : <<x, y>> \notin after

\* after tells the order of what was said.
History == \A x, y : <<x, y>> \in after => x \in said /\ y \in said

LeaseOf(l) ==
    /\ l = [op |-> l.op, completed |-> l.completed, published |-> l.published]
    /\ l.completed \in BOOLEAN /\ l.published \in BOOLEAN

Shapes ==
    /\ http \in Requests /\ LeaseOf(lease)
    /\ trans = [finished |-> trans.finished, terminal |-> trans.terminal, footer |-> trans.footer,
                pending |-> trans.pending, tail |-> trans.tail, life |-> trans.life]
    /\ trans.finished \in BOOLEAN /\ trans.terminal \in BOOLEAN
    /\ trans.footer \in BOOLEAN /\ trans.pending \in BOOLEAN

\* Every event that is read is one the upstream sent.
ReaderOf(r, events) ==
    /\ r = [end |-> r.end, queue |-> r.queue, part |-> r.part, idle |-> r.idle, output |-> r.output,
            tail |-> r.tail]
    /\ r.queue \in Seq(events)
    /\ r.part # None => r.part \in events

Received == ReaderOf(reader, http.events)

\* The end that aggregation has found is an end.
Bytes(b) ==
    /\ b = [size |-> b.size, bad |-> b.bad, terminal |-> b.terminal, output |-> b.output,
            life |-> b.life, op |-> b.op]
    /\ b.terminal # None => IsEvent(b.terminal) /\ b.terminal.type \in Ends

EndIsEnd == Bytes(bytes)

Live(op) ==
    /\ op = [live |-> op.live, rid |-> op.rid, life |-> op.life, intr |-> op.intr, seen |-> op.seen,
             whole |-> op.whole, comp |-> op.comp, compactions |-> op.compactions]
    /\ op.live

\* Before the body is translated nothing is said, and only a subscription's is translated.
Places ==
    /\ reply \in {"headers", "rejected", "stream", "aggregate", "passing", "over", "dropped"}
    /\ reply \in {"rejected", "stream", "aggregate"} => http.identity
    /\ reply = "passing" => ~http.identity
    /\ reply \notin {"stream", "over", "dropped"} =>
           said = {} /\ ~trans.terminal /\ ~trans.finished /\ ~trans.footer /\ ~trans.pending
                     /\ trans.tail = None
    /\ reply = "headers" /\ http.identity => Live(lease.op)

\* A stream that goes on: footer and pending are one thing, an end that is owed; and the
\* operation lives until the first end.
GoingOn ==
    /\ said \cap Final = {}
    /\ trans.pending <=> trans.footer
    /\ trans.footer => trans.terminal /\ said \cap Ends = {}
    /\ trans.terminal /\ ~trans.footer => said \cap Ends # {}
    /\ ~trans.terminal => Live(lease.op) /\ said \cap Closing = {}

\* A stream that was ended by its last frame.
Ended == said \cap {"flex", "trailers", "failed"} # {} /\ trans.tail = None

Translating == reply = "stream" => IF trans.finished THEN Ended ELSE GoingOn

IInv == /\ Shapes /\ Received /\ EndIsEnd /\ Places /\ Translating
        /\ History /\ OneHonestEnd
-----------------------------------------------------------------------------

LEMMA OrderIs == OneHonestEnd => Order
BY ZenonT(60) DEF OneHonestEnd, Order, Closing, Final

\* What is said must suit what was said before.
LEMMA SayKinds ==
    ASSUME NEW kinds, Say(kinds), History, Order,
           said \cap Final = {},
           kinds \cap Ends # {} => said \cap Ends = {},
           "output" \in kinds => said \cap Closing = {},
           kinds \cap {"completed", "incomplete"} # {} => "error" \notin said,
           "DONE" \in kinds /\ "error" \in said => said \cap Ends # {}
    PROVE  History' /\ Order'
<1>1. said' = said \cup kinds
  BY Zenon DEF Say
<1>2. \A x, y : <<x, y>> \in after' <=> <<x, y>> \in after \/ (x \in said /\ y \in kinds)
  BY Zenon DEF Say
<1>3. History'
  BY Zenon, <1>1, <1>2 DEF History
<1>4. \A x, y \in Ends : <<x, y>> \notin after'
  BY Zenon, <1>2 DEF Order
<1>5. \A x \in Closing : <<x, "output">> \notin after'
  BY Zenon, <1>2 DEF Order
<1>6. \A x \in {"completed", "incomplete"} : <<"error", x>> \notin after'
  BY Zenon, <1>2 DEF Order
<1>7. <<"error", "DONE">> \in after' => \E x \in Ends : <<x, "DONE">> \in after'
  BY Zenon, <1>2 DEF Order
<1>8. \A x \in Final : \A y \in said' : <<x, y>> \notin after'
  BY Zenon, <1>2 DEF Order, History
<1> QED
  BY Zenon, <1>3, <1>4, <1>5, <1>6, <1>7, <1>8 DEF Order

LEMMA InitInv == ASSUME StreamInit PROVE IInv
<1> USE DEF StreamInit
<1>1. Shapes
  BY Zenon DEF Shapes, LeaseOf, NewTranslation
<1>2. Received
  BY DEF Received, ReaderOf, NewReader
<1>3. EndIsEnd
  BY Zenon DEF EndIsEnd, Bytes, NoBytes
<1>4. Places
  <2>1. reply = "headers" /\ said = {}
    BY Zenon
  <2>2. ~trans.terminal /\ ~trans.finished /\ ~trans.footer /\ ~trans.pending /\ trans.tail = None
    BY Zenon DEF NewTranslation
  <2>3. http.identity => Live(lease.op)
    BY Zenon DEF NewOperation, Live
  <2> QED
    BY Zenon, <2>1, <2>2, <2>3 DEF Places
<1>5. Translating /\ History
  BY Zenon DEF Translating, History
<1>6. OneHonestEnd
  BY Zenon DEF OneHonestEnd
<1> QED
  BY Zenon, <1>1, <1>2, <1>3, <1>4, <1>5, <1>6 DEF IInv
-----------------------------------------------------------------------------
(* What the translation makes of an event.                                  *)

Owed(ev) == ~FailedFooter(ev) /\ ~IsFlexEvent(ev) /\ (trans.footer \/ FirstError(ev))

LEMMA TranslatedIs ==
    ASSUME Shapes, NEW ev
    PROVE  Translated(ev) =
             [finished |-> IsFlexEvent(ev), terminal |-> trans.terminal \/ Terminal(ev),
              footer |-> Owed(ev),
              pending |-> ~FailedFooter(ev) /\ (trans.pending \/ (ev.type = "error" /\ Owed(ev))),
              tail |-> IF Owed(ev) THEN CheckedTail(ev) ELSE None, life |-> Lifecycle(ev)]
<1> DEFINE t == [finished |-> trans.finished, terminal |-> trans.terminal, footer |-> trans.footer,
                 pending |-> trans.pending, tail |-> trans.tail, life |-> trans.life]
<1>1. trans = t
  BY Zenon DEF Shapes
<1>2. Translated(ev) =
        [t EXCEPT !.life = Lifecycle(ev), !.footer = Owed(ev),
                  !.terminal = @ \/ Terminal(ev),
                  !.pending = ~FailedFooter(ev) /\ (@ \/ (ev.type = "error" /\ Owed(ev))),
                  !.tail = IF Owed(ev) THEN CheckedTail(ev) ELSE None,
                  !.finished = IsFlexEvent(ev)]
  <2> HIDE DEF t
  <2> QED
    BY <1>1, ZenonT(60) DEF Translated, Owed
<1> QED
  BY <1>2, ZenonT(60)

LEMMA ReleasedIs ==
    ASSUME NEW l, LeaseOf(l)
    PROVE  /\ LeaseOf(Released(l)) /\ Released(l).op = None
           /\ Released(l).completed = l.completed /\ Released(l).published = l.published
<1> DEFINE q == [op |-> l.op, completed |-> l.completed, published |-> l.published]
           r == [op |-> None, completed |-> l.completed, published |-> l.published]
<1>1. l = q
  BY Zenon DEF LeaseOf
<1>2. Released(l) = [q EXCEPT !.op = None]
  <2> HIDE DEF q
  <2> QED
    BY Zenon, <1>1 DEF Released
<1>3. Released(l) = r
  BY <1>2, ZenonT(60)
<1>4. r.op = None /\ r.completed = l.completed /\ r.published = l.published
  BY Zenon
<1>5. r = [op |-> r.op, completed |-> r.completed, published |-> r.published]
  BY Zenon, <1>4
<1> HIDE DEF r
<1> QED
  BY Zenon, <1>3, <1>4, <1>5 DEF LeaseOf

\* Nothing is kept by the store before something is said, nor while an end is owed.
LEMMA Unpublished ==
    ASSUME OneHonestEnd, said \cap (Ends \cup Final) = {}
    PROVE  ~lease.published
<1>1. lease.published => {"completed", "trailers", "refused"} \cap said # {}
  BY Zenon DEF OneHonestEnd
<1> QED
  BY Zenon, <1>1 DEF Ends, Final

\* The state once the stream has said its last frame.
LEMMA FailIs ==
    ASSUME Shapes, NEW l, LeaseOf(l), Fail(l), UNCHANGED http
    PROVE  /\ trans'.finished /\ trans'.tail = None /\ lease'.op = None
           /\ lease'.completed = l.completed /\ lease'.published = l.published
           /\ Shapes' /\ Say({"trailers"})
<1>1. /\ LeaseOf(lease') /\ lease'.op = None
      /\ lease'.completed = l.completed /\ lease'.published = l.published
  BY Zenon, ReleasedIs DEF Fail
<1>2. trans' = [finished |-> TRUE, terminal |-> trans.terminal, footer |-> trans.footer,
                pending |-> trans.pending, tail |-> None, life |-> trans.life]
  BY ZenonT(60) DEF Fail, Shapes
<1>3. Shapes'
  BY Zenon, <1>1, <1>2 DEF Shapes
<1> QED
  BY <1>1, <1>2, <1>3 DEF Fail

LEMMA FailKept ==
    ASSUME IInv, NEW l, LeaseOf(l), Fail(l), reply = "stream", ~trans.finished,
           UNCHANGED <<http, reply>>, lease.completed => l.completed,
           l.published => {"failed", "incomplete"} \cap said = {}
    PROVE  Shapes' /\ Places' /\ Translating' /\ History' /\ OneHonestEnd'
<1>1. /\ trans'.finished /\ trans'.tail = None /\ lease'.op = None
      /\ lease'.completed = l.completed /\ lease'.published = l.published
      /\ Shapes' /\ Say({"trailers"})
  BY Zenon, FailIs DEF IInv
<1>2. GoingOn
  BY Zenon DEF IInv, Translating
<1>3. History' /\ Order'
  <2>1. {"trailers"} \cap Ends = {} /\ "output" \notin {"trailers"} /\ "DONE" \notin {"trailers"}
        /\ {"trailers"} \cap {"completed", "incomplete"} = {}
    BY Zenon DEF Ends
  <2> QED
    BY Zenon, <1>1, <1>2, <2>1, SayKinds, OrderIs DEF IInv, GoingOn
<1>4. said' = said \cup {"trailers"}
  BY Zenon, <1>1 DEF Say
<1>5. Places'
  BY Zenon DEF IInv, Places
<1>6. Translating'
  BY Zenon, <1>1, <1>4 DEF Translating, Ended
<1>7. "completed" \in said' => lease'.completed
  BY Zenon, <1>1, <1>4 DEF IInv, OneHonestEnd
<1>8. lease'.published => /\ {"completed", "trailers", "refused"} \cap said' # {}
                          /\ {"failed", "incomplete"} \cap said' = {}
  BY Zenon, <1>1, <1>4
<1>9. OneHonestEnd'
  BY Zenon, <1>1, <1>3, <1>4, <1>7, <1>8 DEF IInv, OneHonestEnd, Order, Closing, Final
<1> QED
  BY Zenon, <1>1, <1>3, <1>5, <1>6, <1>9

\* The operation as it was, given back.
LEMMA FailAsIs ==
    ASSUME IInv, Fail(lease), reply = "stream", ~trans.finished, UNCHANGED <<http, reply>>
    PROVE  Shapes' /\ Places' /\ Translating' /\ History' /\ OneHonestEnd'
<1>1. LeaseOf(lease) /\ (lease.published => {"failed", "incomplete"} \cap said = {})
  BY Zenon DEF IInv, Shapes, OneHonestEnd
<1> QED
  BY Zenon, <1>1, FailKept

LEMMA FinishFailureKept ==
    ASSUME IInv, FinishFailure, reply = "stream", ~trans.finished, trans.pending,
           UNCHANGED <<http, reply>>
    PROVE  Shapes' /\ Places' /\ Translating' /\ History' /\ OneHonestEnd'
<1>1. /\ LeaseOf(lease') /\ lease'.op = None
      /\ lease'.completed = lease.completed /\ lease'.published = lease.published
  BY Zenon, ReleasedIs DEF FinishFailure, Shapes, IInv
<1>2. trans' = [finished |-> TRUE, terminal |-> trans.terminal, footer |-> trans.footer,
                pending |-> FALSE, tail |-> None, life |-> trans.life]
  BY ZenonT(60) DEF FinishFailure, Shapes, IInv
<1>3. Shapes'
  BY Zenon, <1>1, <1>2 DEF Shapes, IInv
<1>4. GoingOn
  BY Zenon DEF IInv, Translating
<1>5. History' /\ Order'
  <2>1. "output" \notin {"failed"} /\ "DONE" \notin {"failed"}
        /\ {"failed"} \cap {"completed", "incomplete"} = {}
    BY Zenon
  <2> QED
    BY Zenon, <1>4, <2>1, SayKinds, OrderIs DEF IInv, GoingOn, FinishFailure
<1>6. said' = said \cup {"failed"}
  BY Zenon DEF Say, FinishFailure
<1>7. Places'
  BY Zenon DEF IInv, Places
<1>8. Translating'
  BY Zenon, <1>2, <1>6 DEF Translating, Ended
<1>9. OneHonestEnd'
  <2>1. ~lease'.published
    BY Zenon, <1>1, <1>4, Unpublished DEF GoingOn, IInv
  <2>2. "completed" \in said' => lease'.completed
    BY Zenon, <1>1, <1>6 DEF IInv, OneHonestEnd
  <2> QED
    BY Zenon, <1>1, <1>5, <1>6, <2>1, <2>2 DEF IInv, OneHonestEnd, Order, Closing, Final
<1> QED
  BY Zenon, <1>3, <1>5, <1>7, <1>8, <1>9

LEMMA KindIs ==
    ASSUME NEW ev
    PROVE  /\ "output" \in Kind(ev) => IsOutputEvent(ev)
           /\ \A x \in Ends : x \in Kind(ev) <=> ev.type = x
           /\ "error" \in Kind(ev) <=> ev.type = "error" /\ ~IsFlexEvent(ev)
           /\ "flex" \in Kind(ev) <=> ev.type = "error" /\ IsFlexEvent(ev)
           /\ Kind(ev) \cap {"DONE", "trailers", "refused"} = {}
BY ZenonT(60) DEF Kind, IsOutputEvent, Ends

LEMMA ObservedIs ==
    ASSUME NEW op, NEW ev, Live(op), ~Terminal(ev)
    PROVE  Live(Observed(op, ev))
<1> DEFINE o == [live |-> op.live, rid |-> op.rid, life |-> op.life, intr |-> op.intr,
                 seen |-> op.seen, whole |-> op.whole, comp |-> op.comp,
                 compactions |-> op.compactions]
           life == Observe(op.life, ev, MaxItems, op.intr.asked)
           intr == Interrupt(op.intr, ev)
           rid == IF Gives(ev) THEN ev.rid ELSE op.rid
           seen == IF ev.type = "done" /\ OpIndex(op, ev) < MaxItems
                   THEN (OpIndex(op, ev) :> ev.item) @@ op.seen ELSE op.seen
           whole == op.whole /\ (ev.type = "done" => OpIndex(op, ev) < MaxItems)
           items == IF ev.type = "done" /\ IsCompaction(ev.item)
                    THEN Append(op.compactions, ev.item) ELSE op.compactions
<1>1. op = o /\ op.live
  BY Zenon DEF Live
<1>2. Observed(op, ev) = [op EXCEPT !.life = life, !.intr = intr, !.rid = rid, !.seen = seen,
                                    !.whole = whole, !.compactions = items, !.live = ~Terminal(ev)]
  BY <1>1, ZenonT(60) DEF Observed
<1> HIDE DEF life, intr, rid, seen, whole, items
<1>3. Observed(op, ev) = [live |-> ~Terminal(ev), rid |-> rid, life |-> life, intr |-> intr,
                          seen |-> seen, whole |-> whole, comp |-> op.comp,
                          compactions |-> items]
  <2> HIDE DEF o
  <2>1. Observed(op, ev) = [o EXCEPT !.life = life, !.intr = intr, !.rid = rid, !.seen = seen,
                                     !.whole = whole, !.compactions = items,
                                     !.live = ~Terminal(ev)]
    BY <1>1, <1>2, ZenonT(60)
  <2> QED
    BY <2>1, ZenonT(60) DEF o
<1>4. Observed(op, ev).live = ~Terminal(ev)
  BY <1>3
<1>5. Observed(op, ev).live
  BY <1>4, ZenonT(60)
<1> QED
  BY Zenon, <1>3, <1>5 DEF Live

\* What the store has of the response after an event that is accepted.
LEMMA TakenIs ==
    ASSUME IInv, reply = "stream", ~trans.finished, NEW ev, Accepts(ev)
    PROVE  /\ LeaseOf(Taken(ev))
           /\ lease.completed => Taken(ev).completed
           /\ ~UsesTail(ev) => Taken(ev).op = Observed(lease.op, ev)
           /\ ev.type = "completed" => Taken(ev).completed
           /\ Taken(ev).published => lease.published \/ ev.type = "completed"
           /\ ev.type = "completed" => ~trans.terminal /\ said \cap Closing = {}
<1> DEFINE t == Taken(ev)
<1>1. GoingOn /\ LeaseOf(lease)
  BY Zenon DEF IInv, Translating, Shapes
<1>2. ev.type = "completed" => ~trans.terminal
  BY Zenon DEF Accepts, FailedFooter, Ends
<1>3. ev.type = "completed" => ~UsesTail(ev) /\ lease.op.live /\ said \cap Closing = {}
  BY Zenon, <1>1, <1>2 DEF UsesTail, FailedFooter, GoingOn, Live
<1>4. CASE UsesTail(ev)
  <2>1. t = [lease EXCEPT !.op.live = FALSE]
    BY Zenon, <1>4 DEF Taken
  <2>2. t = [op |-> [lease.op EXCEPT !.live = FALSE], completed |-> lease.completed,
             published |-> lease.published]
    BY ZenonT(60), <1>1, <2>1 DEF LeaseOf
  <2> HIDE DEF t
  <2>3. LeaseOf(t) /\ t.completed = lease.completed /\ t.published = lease.published
    BY ZenonT(60), <1>1, <2>2 DEF LeaseOf
  <2> QED
    BY Zenon, <1>2, <1>3, <1>4, <2>3 DEF t
<1>5. CASE ~UsesTail(ev)
  <2> DEFINE ends == lease.op.live /\ ev.type = "completed"
             published == ends /\ Publishes(Observed(lease.op, ev), ev)
  <2>1. t = [op |-> Observed(lease.op, ev), completed |-> lease.completed \/ ends,
             published |-> lease.published \/ published]
    BY Zenon, <1>5 DEF Taken
  <2>2. published => ev.type = "completed"
    BY Zenon
  <2>3. ev.type = "completed" => ends
    BY Zenon, <1>3
  <2> HIDE DEF t, ends, published
  <2>4. /\ LeaseOf(t) /\ t.op = Observed(lease.op, ev)
        /\ t.completed <=> lease.completed \/ ends
        /\ t.published <=> lease.published \/ published
    BY <1>1, <2>1 DEF LeaseOf
  <2> QED
    BY Zenon, <1>2, <1>3, <2>2, <2>3, <2>4 DEF t
<1> QED
  BY Zenon, <1>4, <1>5

\* An event that is accepted leaves the stream going on, or, a Flex error, ends it.
LEMMA AcceptKept ==
    ASSUME IInv, reply = "stream", ~trans.finished, UNCHANGED <<http, reply>>,
           NEW ev, Accepts(ev), trans' = Translated(ev), Say(Kind(ev)),
           lease' = Taken(ev)
    PROVE  Shapes' /\ Places' /\ Translating' /\ History' /\ OneHonestEnd'
<1> DEFINE first == ~trans.terminal
<1>1. GoingOn /\ Shapes
  BY Zenon DEF IInv, Translating
<1>2. /\ trans.terminal => ~IsOutputEvent(ev)
      /\ trans.terminal /\ ev.type \in Ends => FailedFooter(ev)
  BY Zenon DEF Accepts
<1>3. /\ trans'.finished = IsFlexEvent(ev)
      /\ trans'.terminal = (trans.terminal \/ Terminal(ev))
      /\ trans'.footer = Owed(ev)
      /\ trans'.pending = (~FailedFooter(ev) /\ (trans.pending \/ (ev.type = "error" /\ Owed(ev))))
      /\ ~Owed(ev) => trans'.tail = None
      /\ trans' = [finished |-> trans'.finished, terminal |-> trans'.terminal, footer |-> trans'.footer,
                   pending |-> trans'.pending, tail |-> trans'.tail, life |-> trans'.life]
  BY <1>1, TranslatedIs
<1>4. /\ LeaseOf(lease')
      /\ lease.completed => lease'.completed
      /\ ~UsesTail(ev) => lease'.op = Observed(lease.op, ev)
      /\ ev.type = "completed" => lease'.completed
      /\ lease'.published => lease.published \/ ev.type = "completed"
      /\ ev.type = "completed" => ~trans.terminal /\ said \cap Closing = {}
  BY Zenon, TakenIs
<1>5. Shapes'
  <2>1. /\ trans'.finished \in BOOLEAN /\ trans'.terminal \in BOOLEAN
        /\ trans'.footer \in BOOLEAN /\ trans'.pending \in BOOLEAN
    BY <1>3, ZenonT(60) DEF IsFlexEvent, Terminal, Owed
  <2> QED
    BY ZenonT(60), <1>1, <1>3, <1>4, <2>1 DEF Shapes
<1>6. said' = said \cup Kind(ev)
  BY Zenon DEF Say
<1>e. Kind(ev) \cap Ends # {} => said \cap Ends = {}
  BY Zenon, <1>1, <1>2, KindIs DEF GoingOn, FailedFooter, Closing, EndsOrFlex
<1>7. History' /\ Order'
  <2>2. "output" \in Kind(ev) => said \cap Closing = {}
    BY Zenon, <1>1, <1>2, KindIs DEF GoingOn
  <2>3. Kind(ev) \cap {"completed", "incomplete"} # {} => "error" \notin said
    BY Zenon, <1>1, <1>2, KindIs DEF GoingOn, FailedFooter, Ends, Closing
  <2>4. "DONE" \notin Kind(ev)
    BY Zenon, KindIs
  <2> QED
    BY Zenon, <1>1, <1>e, <2>2, <2>3, <2>4, SayKinds, OrderIs DEF IInv, GoingOn
<1>8. Places'
  BY Zenon DEF IInv, Places
<1>9. Translating'
  <2>1. CASE IsFlexEvent(ev)
    BY ZenonT(60), <1>3, <1>6, <2>1, KindIs DEF Translating, Ended, IsFlexEvent, Ends, Owed
  <2>2. CASE ~IsFlexEvent(ev)
    <3>1. (said \cap Final = {})'
      BY Zenon, <1>1, <1>6, <2>2, KindIs DEF GoingOn, Final
    <3>2. trans'.pending <=> trans'.footer
      BY Zenon, <1>1, <1>3, <2>2 DEF GoingOn, Owed, FirstError
    <3>3. trans'.footer => trans'.terminal /\ (said \cap Ends = {})'
      BY ZenonT(60), <1>1, <1>2, <1>3, <1>6, <2>2, KindIs
         DEF GoingOn, Owed, FirstError, FailedFooter, Terminal, Ends, Closing, EndsOrFlex
    <3>4. trans'.terminal /\ ~trans'.footer => (said \cap Ends # {})'
      BY Zenon, <1>1, <1>2, <1>3, <1>6, <2>2, KindIs
         DEF GoingOn, Owed, FirstError, FailedFooter, Terminal, Ends
    <3>5. ~trans'.terminal => Live(lease'.op) /\ (said \cap Closing = {})'
      <4>1. SUFFICES ASSUME ~trans'.terminal PROVE Live(lease'.op) /\ (said \cap Closing = {})'
        BY Zenon
      <4>2. ~trans.terminal /\ ~Terminal(ev)
        BY ZenonT(60), <1>3, <4>1
      <4>3. ~UsesTail(ev)
        BY Zenon, <4>2 DEF UsesTail, FailedFooter, Terminal
      <4>4. Live(lease'.op)
        BY Zenon, <1>1, <1>4, <4>2, <4>3, ObservedIs DEF GoingOn
      <4>5. (said \cap Closing = {})'
        BY Zenon, <1>1, <1>6, <4>2, KindIs DEF GoingOn, Closing, EndsOrFlex, Ends, Terminal
      <4> QED
        BY Zenon, <4>4, <4>5
    <3> QED
      BY Zenon, <1>3, <2>2, <3>1, <3>2, <3>3, <3>4, <3>5 DEF Translating, GoingOn
  <2> QED
    BY Zenon, <2>1, <2>2
<1>10. "completed" \in said' => lease'.completed
  <2>1. CASE "completed" \in said
    BY Zenon, <1>4, <2>1 DEF IInv, OneHonestEnd
  <2>2. CASE "completed" \in Kind(ev)
    BY Zenon, <1>4, <2>2, KindIs DEF Ends
  <2> QED
    BY Zenon, <1>6, <2>1, <2>2
<1>11. lease'.published => "completed" \in said' /\ {"failed", "incomplete"} \cap said' = {}
  <2>1. CASE lease.published
    <3>1. {"completed", "trailers", "refused"} \cap said # {} /\ {"failed", "incomplete"} \cap said = {}
      BY Zenon, <2>1 DEF IInv, OneHonestEnd
    <3>2. "completed" \in said
      BY Zenon, <1>1, <3>1 DEF GoingOn, Final
    <3>3. Kind(ev) \cap Ends = {}
      BY Zenon, <1>e, <3>2 DEF Ends
    <3> QED
      BY Zenon, <1>6, <3>1, <3>2, <3>3 DEF Ends
  <2>2. CASE ev.type = "completed"
    <3>1. "completed" \in Kind(ev) /\ "failed" \notin Kind(ev) /\ "incomplete" \notin Kind(ev)
      BY Zenon, <2>2, KindIs DEF Ends
    <3>2. "failed" \notin said /\ "incomplete" \notin said
      BY Zenon, <1>4, <2>2 DEF Closing, EndsOrFlex, Ends
    <3> QED
      BY Zenon, <1>6, <3>1, <3>2
  <2> QED
    BY Zenon, <1>4, <2>1, <2>2
<1>12. OneHonestEnd'
  BY Zenon, <1>7, <1>10, <1>11 DEF IInv, OneHonestEnd, Order, Closing, Final
<1> QED
  BY Zenon, <1>5, <1>7, <1>8, <1>9, <1>12

LEMMA TranslateKept ==
    ASSUME IInv, reply = "stream", ~trans.finished, UNCHANGED <<http, reply>>,
           NEW ev, NEW r, TranslateEvent(ev, r)
    PROVE  Shapes' /\ Places' /\ Translating' /\ History' /\ OneHonestEnd'
<1>1. CASE Silent(ev) /\ ev.type = "DONE" /\ ~DoneWithheld
  <2>1. UNCHANGED <<trans, lease>> /\ Say({"DONE"})
    BY Zenon, <1>1 DEF TranslateEvent
  <2>2. GoingOn
    BY Zenon DEF IInv, Translating
  <2>3. "error" \in said => said \cap Ends # {}
    BY Zenon, <1>1, <2>2 DEF GoingOn, DoneWithheld, Closing
  <2>4. History' /\ Order'
    <3>1. {"DONE"} \cap Ends = {} /\ "output" \notin {"DONE"} /\ {"DONE"} \cap {"completed", "incomplete"} = {}
      BY Zenon DEF Ends
    <3> QED
      BY Zenon, <2>1, <2>2, <2>3, <3>1, SayKinds, OrderIs DEF IInv, GoingOn
  <2>5. said' = said \cup {"DONE"}
    BY Zenon, <2>1 DEF Say
  <2>6. Shapes' /\ Places'
    BY Zenon, <2>1 DEF IInv, Shapes, Places
  <2>7. Translating'
    <3>1. GoingOn'
      BY Zenon, <2>1, <2>2, <2>5 DEF GoingOn, Final, Ends, Closing, EndsOrFlex
    <3> QED
      BY Zenon, <2>1, <3>1 DEF Translating
  <2>8. OneHonestEnd'
    BY ZenonT(60), <2>1, <2>4, <2>5 DEF IInv, OneHonestEnd, Order, Closing, Final
  <2> QED
    BY Zenon, <2>4, <2>6, <2>7, <2>8
<1>2. CASE Silent(ev) /\ ~(ev.type = "DONE" /\ ~DoneWithheld)
  <2>1. UNCHANGED <<trans, lease, said, after>>
    BY Zenon, <1>2 DEF TranslateEvent, Quiet
  <2>2. Shapes' /\ Places' /\ Translating' /\ History'
    BY Zenon, <2>1 DEF IInv, Shapes, Places, Translating, GoingOn, Ended, History
  <2>3. OneHonestEnd'
    BY Zenon, <2>1 DEF IInv, OneHonestEnd
  <2> QED
    BY Zenon, <2>2, <2>3
<1>3. CASE ~Silent(ev)
  <2>1. CASE Fail(lease)
    BY Zenon, <2>1, FailAsIs
  <2>2. CASE Accepts(ev) /\ Fail(Taken(ev))
    <3>1. /\ LeaseOf(Taken(ev))
          /\ lease.completed => Taken(ev).completed
          /\ Taken(ev).published => lease.published \/ ev.type = "completed"
          /\ ev.type = "completed" => said \cap Closing = {}
      BY Zenon, <2>2, TakenIs
    <3>2. Taken(ev).published => {"failed", "incomplete"} \cap said = {}
      <4>1. lease.published => {"failed", "incomplete"} \cap said = {}
        BY Zenon DEF IInv, OneHonestEnd
      <4>2. said \cap Closing = {} => {"failed", "incomplete"} \cap said = {}
        BY Zenon DEF Closing, EndsOrFlex, Ends, Final
      <4> QED
        BY Zenon, <3>1, <4>1, <4>2
    <3> QED
      BY Zenon, <2>2, <3>1, <3>2, FailKept
  <2>3. CASE Accepts(ev) /\ trans' = Translated(ev) /\ lease' = Taken(ev) /\ Say(Kind(ev))
    BY Zenon, <2>3, AcceptKept
  <2> QED
    BY Zenon, <1>3, <2>1, <2>2, <2>3 DEF TranslateEvent
<1> QED
  BY Zenon, <1>1, <1>2, <1>3
-----------------------------------------------------------------------------
(* What is read.                                                            *)

LEMMA ClosedIs ==
    ASSUME NEW r, NEW events, ReaderOf(r, events), NEW why
    PROVE  ReaderOf(Closed(r, why), events)
<1>1. Closed(r, why) = [end |-> why, queue |-> <<>>, part |-> None, idle |-> r.idle,
                        output |-> r.output, tail |-> r.tail]
  <2> DEFINE q == [end |-> r.end, queue |-> r.queue, part |-> r.part, idle |-> r.idle,
                   output |-> r.output, tail |-> r.tail]
  <2>1. r = q
    BY Zenon DEF ReaderOf
  <2>2. Closed(r, why) = [q EXCEPT !.end = why, !.queue = <<>>, !.part = None]
    BY <2>1, ZenonT(60) DEF Closed
  <2> QED
    BY <2>2, ZenonT(60)
<1>2. <<>> \in Seq(events)
  OBVIOUS
<1> QED
  BY <1>1, <1>2 DEF ReaderOf

LEMMA TakeEventIs ==
    ASSUME NEW r, NEW events, ReaderOf(r, events), NEW ev
    PROVE  ReaderOf(TakeEvent(r, ev), events)
BY ZenonT(60) DEF ReaderOf, TakeEvent

LEMMA AggregatedIs ==
    ASSUME NEW b, Bytes(b), NEW ev, IsEvent(ev)
    PROVE  Bytes(Aggregated(b, ev))
<1> DEFINE life == Observe(b.life, ev, MaxItems, FALSE)
           at == IF ev.idx # None THEN ev.idx ELSE Cardinality(DOMAIN b.output)
           kept == b.terminal = None /\ ev.type = "done"
           output == IF kept THEN (at :> ev.item) @@ b.output ELSE b.output
           op == IF b.terminal = None THEN Prepared(b.op, ev) ELSE b.op
           terminal == IF ev.type \in Ends THEN ev ELSE b.terminal
           a == Aggregated(b, ev)
<1>1. \/ a = [b EXCEPT !.size = @ + 1]
      \/ a = [NoBytes EXCEPT !.size = b.size + 1, !.bad = TRUE]
      \/ a = [b EXCEPT !.size = @ + 1, !.life = life, !.output = output, !.op = op,
                       !.terminal = terminal]
  BY ZenonT(60) DEF Aggregated
<1> HIDE DEF life, output, op, a
<1>2. CASE a = [b EXCEPT !.size = @ + 1]
  BY Zenon, <1>2 DEF Bytes, a
<1>3. CASE a = [NoBytes EXCEPT !.size = b.size + 1, !.bad = TRUE]
  BY ZenonT(60), <1>3 DEF Bytes, NoBytes, a
<1>4. CASE a = [b EXCEPT !.size = @ + 1, !.life = life, !.output = output, !.op = op,
                         !.terminal = terminal]
  BY ZenonT(60), <1>4 DEF Bytes, a
<1> QED
  BY Zenon, <1>1, <1>2, <1>3, <1>4

LEMMA EndHasType ==
    ASSUME NEW b, Bytes(b), PrepareTerminal(b) # None
    PROVE  PrepareTerminal(b).type \in Ends
<1>1. PrepareTerminal(b) = TerminalResponseFromSse(b)
  BY Zenon DEF PrepareTerminal
<1>2. TerminalResponseFromSse(b) =
        [b.terminal EXCEPT !.out = IF Populated(@) THEN @ ELSE InOrder(b.output)] /\ b.terminal # None
  BY <1>1, ZenonT(60) DEF TerminalResponseFromSse
<1> QED
  BY Zenon, <1>1, <1>2 DEF Bytes, IsEvent

LEMMA OneInSeq == ASSUME NEW S, NEW x \in S PROVE <<x>> \in Seq(S)
OBVIOUS

\* An event of the queue or of the rest of the buffer.
LEMMA ConsumeReads ==
    ASSUME IInv, Reads, NEW ev, IsEvent(ev), NEW r, ReaderOf(r, http.events), Consume(ev, r)
    PROVE  Received' /\ EndIsEnd'
<1>1. http' = http
  BY Zenon DEF Consume
<1>2. reader' = r \/ reader' = Closed(r, "closed")
  BY Zenon DEF Consume, TranslateEvent
<1>3. Received'
  BY Zenon, <1>1, <1>2, ClosedIs DEF Received
<1>4. bytes' = bytes \/ bytes' = Aggregated(bytes, ev)
  BY Zenon DEF Consume, Keep
<1>5. EndIsEnd'
  BY Zenon, <1>4, AggregatedIs DEF EndIsEnd, IInv
<1> QED
  BY Zenon, <1>3, <1>5

LEMMA ReadKept == ASSUME IInv, StreamNext PROVE Received' /\ EndIsEnd'
<1> USE DEF IInv
<1>1. ASSUME UNCHANGED <<http, bytes>>, reader' = reader \/ (\E why : reader' = Closed(reader, why))
      PROVE  Received' /\ EndIsEnd'
  BY Zenon, <1>1, ClosedIs DEF Received, EndIsEnd
<1>2. CASE BuildHttpResponse \/ HeadersRefused \/ ClassifyHttp \/ Finished \/ Aggregate \/ Pass
  BY Zenon, <1>1, <1>2 DEF BuildHttpResponse, HeadersRefused, ClassifyHttp, Finished, Aggregate, Pass
<1>3. CASE TimedOut \/ TooLarge \/ UpstreamBreaks \/ EndOfEvents \/ DropResponse
  BY Zenon, <1>1, <1>3 DEF TimedOut, TooLarge, UpstreamBreaks, ReadFails, EndOfEvents, DropResponse
<1>4. CASE Eof \/ TailClosed \/ Tick
  BY ZenonT(60), <1>4 DEF Eof, TailClosed, Tick, Received, ReaderOf, EndIsEnd
<1>5. CASE Receive
  <2>1. UNCHANGED <<http, bytes>>
    BY Zenon, <1>5 DEF Receive
  <2>2. CASE \E evs \in UNION {[1..n -> http.events] : n \in 1..http.chunk} :
                reader' = [reader EXCEPT !.queue = evs]
    <3>1. PICK evs \in UNION {[1..n -> http.events] : n \in 1..http.chunk} :
                reader' = [reader EXCEPT !.queue = evs]
      BY ZenonT(60), <2>2
    <3>2. http.chunk \in Nat
      BY Zenon, RequestsAssumption DEF Shapes
    <3>3. evs \in Seq(http.events)
      BY <3>1, <3>2
    <3> QED
      BY Zenon, <2>1, <3>1, <3>3 DEF Received, ReaderOf, EndIsEnd
  <2>3. CASE \E ev \in http.events \ {e \in http.events : Silent(e)} :
                reader' = [reader EXCEPT !.part = ev]
    BY Zenon, <2>1, <2>3 DEF Received, ReaderOf, EndIsEnd
  <2>4. CASE reader.part # None /\ reader' = [reader EXCEPT !.queue = <<reader.part>>, !.part = None]
    <3>0. reader.part \in http.events
      BY Zenon, <2>4 DEF Received, ReaderOf
    <3>1. <<reader.part>> \in Seq(http.events)
      BY <3>0, OneInSeq, ZenonT(60)
    <3> QED
      BY ZenonT(60), <2>1, <2>4, <3>1 DEF Received, ReaderOf, EndIsEnd
  <2> QED
    BY Zenon, <1>5, <2>2, <2>3, <2>4 DEF Receive
<1>6. CASE NextEvent
  <2> DEFINE ev == Head(reader.queue)
             r == [reader EXCEPT !.queue = Tail(@)]
  <2>1. Reads /\ reader.queue # <<>> /\ Consume(ev, TakeEvent(r, ev))
    BY Zenon, <1>6 DEF NextEvent
  <2>2. ev \in http.events /\ Tail(reader.queue) \in Seq(http.events)
    BY <2>1 DEF Received, ReaderOf
  <2>3. ReaderOf(r, http.events)
    <3>1. r = [end |-> reader.end, queue |-> Tail(reader.queue), part |-> reader.part,
               idle |-> reader.idle, output |-> reader.output, tail |-> reader.tail]
      <4> DEFINE q == [end |-> reader.end, queue |-> reader.queue, part |-> reader.part,
                       idle |-> reader.idle, output |-> reader.output, tail |-> reader.tail]
      <4>1. reader = q
        BY Zenon DEF Received, ReaderOf
      <4>2. r = [q EXCEPT !.queue = Tail(reader.queue)]
        <5> HIDE DEF q
        <5> QED
          BY <4>1, ZenonT(60)
      <4> HIDE DEF r
      <4> QED
        BY <4>2, ZenonT(60)
    <3> HIDE DEF r
    <3> QED
      BY Zenon, <2>2, <3>1 DEF Received, ReaderOf
  <2>4. IsEvent(ev)
    BY Zenon, <2>2, RequestsAssumption DEF Shapes
  <2> HIDE DEF ev, r
  <2> QED
    BY Zenon, <2>1, <2>3, <2>4, TakeEventIs, ConsumeReads
<1>7. CASE LastEvent
  <2> DEFINE r == [reader EXCEPT !.part = None]
  <2>1. PICK ev \in {reader.part, [reader.part EXCEPT !.type = "garbage"]} :
           ev.type # "oversize" /\ Consume(ev, TakeEvent(r, ev))
    BY Zenon, <1>7 DEF LastEvent
  <2>2. reader.part \in http.events
    BY Zenon, <1>7 DEF LastEvent, Received, ReaderOf
  <2>3. IsEvent(reader.part)
    BY Zenon, <2>2, RequestsAssumption DEF Shapes
  <2>4. IsEvent(ev)
    BY Zenon, <2>1, <2>3 DEF IsEvent
  <2>5. ReaderOf(r, http.events)
    BY DEF Received, ReaderOf
  <2>6. Reads
    BY Zenon, <1>7 DEF LastEvent
  <2> HIDE DEF r
  <2> QED
    BY Zenon, <2>1, <2>4, <2>5, <2>6, TakeEventIs, ConsumeReads
<1> QED
  BY Zenon, <1>2, <1>3, <1>4, <1>5, <1>6, <1>7 DEF StreamNext
-----------------------------------------------------------------------------
(* The steps.                                                               *)

\* The end of a body that was not translated, or of one that was.
LEMMA RefuseKept ==
    ASSUME IInv, NEW l, LeaseOf(l), Refuse(l), reply \in {"headers", "rejected", "aggregate"},
           UNCHANGED <<http, trans>>
    PROVE  Shapes' /\ Places' /\ Translating' /\ History' /\ OneHonestEnd'
<1>1. said = {} /\ trans.tail = None
  BY Zenon DEF IInv, Places
<1>2. LeaseOf(lease') /\ lease'.op = None /\ reply' = "over"
  BY Zenon, ReleasedIs DEF Refuse
<1>3. said' = {"refused"} /\ after' = after
  BY Zenon, <1>1 DEF Refuse, Say
<1>4. after = {} \/ \A x, y : <<x, y>> \notin after
  BY Zenon, <1>1 DEF IInv, History
<1>5. Shapes'
  BY Zenon, <1>2 DEF Shapes, IInv
<1>6. Places' /\ Translating' /\ History'
  BY Zenon, <1>2, <1>3, <1>4 DEF Places, Translating, History
<1>7. OneHonestEnd'
  BY Zenon, <1>1, <1>2, <1>3, <1>4 DEF OneHonestEnd
<1> QED
  BY Zenon, <1>5, <1>6, <1>7

\* A body of one piece that tells an end, or one that passes as it is.
LEMMA OnePiece ==
    ASSUME IInv, NEW kinds, said' = kinds, UNCHANGED <<http, trans, after>>,
           reply \in {"rejected", "aggregate", "passing"}, reply' = "over",
           http.identity => kinds \cap Ends # {},
           LeaseOf(lease'), lease'.op = None,
           "completed" \in kinds => lease'.completed,
           lease'.published => kinds = {"completed"}
    PROVE  Shapes' /\ Places' /\ Translating' /\ History' /\ OneHonestEnd'
<1>1. said = {} /\ trans.tail = None
  BY Zenon DEF IInv, Places
<1>2. \A x, y : <<x, y>> \notin after
  BY Zenon, <1>1 DEF IInv, History
<1>3. Shapes'
  BY Zenon DEF Shapes, IInv
<1>4. Places' /\ Translating' /\ History'
  BY Zenon, <1>2 DEF Places, Translating, History
<1>5. OneHonestEnd'
  <2>1. lease'.published => /\ {"completed", "trailers", "refused"} \cap said' # {}
                            /\ {"failed", "incomplete"} \cap said' = {}
    BY Zenon
  <2> QED
    BY Zenon, <1>1, <1>2, <2>1 DEF OneHonestEnd, EndsOrFlex
<1> QED
  BY Zenon, <1>3, <1>4, <1>5

LEMMA TakenAtOnceIs ==
    ASSUME LeaseOf(lease), NEW end
    PROVE  /\ LeaseOf(TakenAtOnce(end))
           /\ end.type = "completed" => TakenAtOnce(end).completed
           /\ TakenAtOnce(end).published => end.type = "completed"
<1> DEFINE completed == end.type = "completed"
           published == completed /\ Publishes(Observed(bytes.op, end), end)
           t == TakenAtOnce(end)
           q == [op |-> lease.op, completed |-> lease.completed, published |-> lease.published]
<1>1. t = [op |-> lease.op, completed |-> completed, published |-> published]
  <2>1. lease = q
    BY Zenon DEF LeaseOf
  <2>2. t = [q EXCEPT !.completed = completed, !.published = published]
    <3> HIDE DEF q
    <3> QED
      BY Zenon, <2>1 DEF TakenAtOnce
  <2> HIDE DEF t, published, completed
  <2> QED
    BY <2>2, ZenonT(60)
<1>2. published \in BOOLEAN /\ completed \in BOOLEAN /\ (published => completed)
  BY Zenon
<1> HIDE DEF t, published
<1>3. LeaseOf(t) /\ t.completed = completed /\ t.published = published
  BY Zenon, <1>1, <1>2 DEF LeaseOf
<1> QED
  BY Zenon, <1>2, <1>3 DEF t

LEMMA SaidKept == ASSUME IInv, StreamNext
                  PROVE  Shapes' /\ Places' /\ Translating' /\ History' /\ OneHonestEnd'
<1> DEFINE Goal == Shapes' /\ Places' /\ Translating' /\ History' /\ OneHonestEnd'
<1>1. CASE BuildHttpResponse
  <2>1. reply = "headers" /\ UNCHANGED <<http, trans, lease, said, after>>
    BY Zenon, <1>1 DEF BuildHttpResponse
  <2>2. /\ http.identity => reply' \in {"rejected", "stream", "aggregate"}
        /\ ~http.identity => reply' = "passing"
    BY Zenon, <1>1 DEF BuildHttpResponse
  <2>3. http.identity \in BOOLEAN
    BY Zenon, RequestsAssumption DEF IInv, Shapes
  <2>4. said = {} /\ ~trans.terminal /\ ~trans.finished /\ ~trans.footer /\ ~trans.pending /\ trans.tail = None
    BY Zenon, <2>1 DEF IInv, Places
  <2>5. Shapes' /\ History'
    BY Zenon, <2>1 DEF IInv, Shapes, History
  <2>6. Places'
    BY Zenon, <2>1, <2>2, <2>3, <2>4 DEF Places
  <2>7. Translating'
    BY Zenon, <2>1, <2>2, <2>3, <2>4 DEF IInv, Places, Translating, GoingOn
  <2>8. OneHonestEnd'
    BY Zenon, <2>1, <2>2, <2>3, <2>4 DEF IInv, OneHonestEnd
  <2> QED
    BY Zenon, <2>5, <2>6, <2>7, <2>8
<1>l. LeaseOf(lease) /\ (said = {} => ~lease.published)
  BY Zenon, Unpublished DEF IInv, Shapes
<1>2. CASE HeadersRefused
  BY Zenon, <1>2, <1>l, RefuseKept DEF HeadersRefused
<1>3. CASE ClassifyHttp
  <2>1. CASE Refuse(lease)
    BY Zenon, <1>3, <1>l, <2>1, RefuseKept DEF ClassifyHttp
  <2>2. CASE reply' = "over" /\ lease' = Released(lease) /\ Say({"failed"})
    <3>1. reply = "rejected" /\ said = {} /\ UNCHANGED <<http, trans>>
      BY Zenon, <1>3 DEF ClassifyHttp, IInv, Places
    <3>2. said' = {"failed"} /\ after' = after
      BY Zenon, <2>2, <3>1 DEF Say
    <3>4. LeaseOf(lease') /\ lease'.op = None /\ ~lease'.published
      BY Zenon, <1>l, <2>2, <3>1, ReleasedIs
    <3>5. {"failed"} \cap Ends # {} /\ "completed" \notin {"failed"}
      BY Zenon DEF Ends
    <3> QED
      BY Zenon, <2>2, <3>1, <3>2, <3>4, <3>5, OnePiece
  <2> QED
    BY Zenon, <1>3, <2>1, <2>2 DEF ClassifyHttp
<1>4. CASE Receive \/ Eof \/ TailClosed \/ Tick
  <2>1. UNCHANGED <<http, reply, trans, lease, said, after>>
    BY Zenon, <1>4 DEF Receive, Eof, TailClosed, Tick
  <2>2. Shapes' /\ Places' /\ Translating' /\ History'
    BY ZenonT(60), <2>1 DEF IInv, Shapes, Places, Translating, GoingOn, Ended, History
  <2>3. OneHonestEnd'
    BY Zenon, <2>1 DEF IInv, OneHonestEnd
  <2> QED
    BY Zenon, <2>2, <2>3
<1>5. ASSUME NEW ev, NEW r, Reads, Consume(ev, r) PROVE Goal
  <2>1. CASE reply = "stream"
    BY Zenon, <1>5, <2>1, TranslateKept DEF Consume, Reads
  <2>2. CASE reply # "stream"
    <3>1. reply = "aggregate" /\ UNCHANGED <<http, trans>>
      BY Zenon, <1>5, <2>2 DEF Consume, Reads
    <3>2. CASE Refuse(lease)
      BY Zenon, <1>l, <3>1, <3>2, RefuseKept
    <3>3. CASE UNCHANGED <<reply, lease, said, after>>
      <4>1. Shapes' /\ Places' /\ Translating' /\ History'
        BY Zenon, <3>1, <3>3 DEF IInv, Shapes, Places, Translating, GoingOn, Ended, History
      <4>2. OneHonestEnd'
        BY Zenon, <3>1, <3>3 DEF IInv, OneHonestEnd
      <4> QED
        BY Zenon, <4>1, <4>2
    <3> QED
      BY Zenon, <1>5, <2>2, <3>2, <3>3 DEF Consume
  <2> QED
    BY Zenon, <2>1, <2>2
<1>6. CASE NextEvent \/ LastEvent
  BY Zenon, <1>5, <1>6 DEF NextEvent, LastEvent
<1>7. ASSUME NEW large, Reads, ReadFails(large) PROVE Goal
  <2>1. CASE reply = "aggregate"
    BY Zenon, <1>l, <1>7, <2>1, RefuseKept DEF ReadFails
  <2>2. CASE reply = "stream"
    BY Zenon, <1>7, <2>2, FailAsIs, FinishFailureKept DEF ReadFails, Reads
  <2> QED
    BY Zenon, <1>7, <2>1, <2>2 DEF Reads
<1>8. CASE TimedOut \/ TooLarge \/ UpstreamBreaks
  BY ZenonT(60), <1>7, <1>8 DEF TimedOut, TooLarge, UpstreamBreaks
<1>9. ASSUME reply = "stream", reply' = "over", lease' = Released(lease), trans'.tail = None,
             trans' = [trans EXCEPT !.tail = None] \/ trans' = trans, UNCHANGED <<http, said, after>>,
             EndsOrFlex \cap said # {} \/ "trailers" \in said
      PROVE  Goal
  <2>1. /\ LeaseOf(lease') /\ lease'.op = None
        /\ lease'.completed = lease.completed /\ lease'.published = lease.published
    BY Zenon, <1>l, <1>9, ReleasedIs
  <2>2. Shapes'
    BY <1>9, <2>1 DEF IInv, Shapes
  <2>3. Places' /\ Translating' /\ History'
    BY Zenon, <1>9 DEF IInv, Places, Translating, History
  <2>4. OneHonestEnd'
    <3>2. Order'
      BY Zenon, <1>9, OrderIs DEF IInv, Order
    <3> QED
      BY Zenon, <1>9, <2>1, <3>2 DEF IInv, OneHonestEnd, Order, Closing, Final
  <2> QED
    BY Zenon, <2>2, <2>3, <2>4
<1>10. CASE EndOfEvents
  <2>1. reply = "stream" /\ ~trans.finished /\ UNCHANGED http
    BY Zenon, <1>10 DEF EndOfEvents, Reads
  <2>2. CASE reply' = "over"
    <3>1. /\ ~trans.pending /\ trans.terminal /\ lease' = Released(lease)
          /\ trans' = [trans EXCEPT !.tail = None] /\ UNCHANGED <<said, after>>
      BY Zenon, <1>10, <2>1, <2>2 DEF EndOfEvents
    <3>2. EndsOrFlex \cap said # {}
      BY Zenon, <2>1, <3>1 DEF IInv, Translating, GoingOn, EndsOrFlex
    <3>3. trans'.tail = None
      BY Zenon, <3>1 DEF IInv, Shapes
    <3> QED
      BY Zenon, <1>9, <2>1, <2>2, <3>1, <3>2, <3>3
  <2>3. CASE reply' # "over"
    BY Zenon, <1>10, <2>1, <2>3, FailAsIs, FinishFailureKept DEF EndOfEvents
  <2> QED
    BY Zenon, <2>2, <2>3
<1>11. CASE Finished
  <2>1. trans.tail = None /\ (EndsOrFlex \cap said # {} \/ "trailers" \in said)
    BY Zenon, <1>11 DEF Finished, IInv, Translating, Ended, EndsOrFlex, Ends
  <2> QED
    BY Zenon, <1>9, <1>11, <2>1 DEF Finished
<1>12. CASE Aggregate
  <2> DEFINE end == PrepareTerminal(bytes)
  <2>1. reply = "aggregate" /\ UNCHANGED <<http, trans>> /\ said = {} /\ http.identity
    BY Zenon, <1>12 DEF Aggregate, IInv, Places
  <2>2. CASE Refuse(lease) \/ Refuse(TakenAtOnce(end))
    BY Zenon, <1>l, <2>1, <2>2, TakenAtOnceIs, RefuseKept
  <2>3. CASE /\ end # None /\ Say({end.type}) /\ reply' = "over"
             /\ lease' = Released(TakenAtOnce(end))
    <3>1. end.type \in Ends
      BY Zenon, <2>3, EndHasType DEF IInv, EndIsEnd
    <3> HIDE DEF end
    <3>2. said' = {end.type} /\ after' = after
      BY Zenon, <2>1, <2>3 DEF Say
    <3>3. /\ LeaseOf(lease') /\ lease'.op = None
          /\ end.type = "completed" => lease'.completed
          /\ lease'.published => end.type = "completed"
      BY Zenon, <1>l, <2>3, TakenAtOnceIs, ReleasedIs
    <3>5. /\ {end.type} \cap Ends # {} /\ ("completed" \in {end.type} => lease'.completed)
          /\ lease'.published => {end.type} = {"completed"}
      BY ZenonT(60), <3>1, <3>3
    <3> QED
      BY Zenon, <2>1, <2>3, <3>2, <3>3, <3>5, OnePiece
  <2> QED
    BY Zenon, <1>12, <2>2, <2>3 DEF Aggregate
<1>13. CASE Pass
  <2>1. reply = "passing" /\ reply' = "over" /\ UNCHANGED <<http, trans>> /\ lease' = Released(lease) /\ said = {}
        /\ ~http.identity
    BY Zenon, <1>13 DEF Pass, IInv, Places
  <2>3. LeaseOf(lease') /\ lease'.op = None /\ ~lease'.published
    BY Zenon, <1>l, <2>1, ReleasedIs
  <2>4. (said' = {"trailers"} \/ said' = {}) /\ after' = after
    <3>1. CASE Say({"trailers"})
      BY Zenon, <2>1, <3>1 DEF Say
    <3>2. CASE Quiet
      BY Zenon, <2>1, <3>2 DEF Quiet
    <3> QED
      BY Zenon, <1>13, <3>1, <3>2 DEF Pass
  <2>5. "completed" \notin said'
    BY <2>4
  <2> QED
    BY Zenon, <2>1, <2>3, <2>4, <2>5, OnePiece
<1>14. CASE DropResponse
  <2>1. reply' = "dropped" /\ lease' = Released(lease) /\ trans' = [trans EXCEPT !.tail = None]
        /\ UNCHANGED <<http, said, after>>
    BY Zenon, <1>14 DEF DropResponse
  <2>2. /\ LeaseOf(lease') /\ lease'.op = None
        /\ lease'.completed = lease.completed /\ lease'.published = lease.published
    BY Zenon, <1>l, <2>1, ReleasedIs
  <2>3. Shapes' /\ trans'.tail = None
    BY <2>1, <2>2 DEF IInv, Shapes
  <2>4. Places' /\ Translating' /\ History'
    BY Zenon, <2>1 DEF IInv, Places, Translating, History
  <2>5. OneHonestEnd'
    BY <2>1, <2>2, <2>3 DEF IInv, OneHonestEnd
  <2> QED
    BY Zenon, <2>3, <2>4, <2>5
<1> QED
  BY Zenon, <1>1, <1>2, <1>3, <1>4, <1>6, <1>8, <1>10, <1>11, <1>12, <1>13, <1>14 DEF StreamNext
-----------------------------------------------------------------------------
(* Theorems.                                                                *)

\* IInv is inductive.
THEOREM Invariance == StreamSpec => []IInv
<1>1. IInv /\ [StreamNext]_streamVars => IInv'
  <2>1. ASSUME IInv, StreamNext PROVE IInv'
    BY Zenon, <2>1, ReadKept, SaidKept DEF IInv
  <2>2. ASSUME IInv, UNCHANGED streamVars PROVE IInv'
    <3>1. OneHonestEnd'
      BY Zenon, <2>2 DEF streamVars, IInv, OneHonestEnd
    <3> QED
      BY Zenon, <2>2, <3>1 DEF streamVars, IInv, Shapes, Received, EndIsEnd, Places, Translating, GoingOn, Ended,
         History
  <2> QED
    BY Zenon, <2>1, <2>2
<1> QED
  BY <1>1, InitInv, PTL DEF StreamSpec

\* translate_event, finish_failure, build_non_streaming_response: whatever the upstream sends,
\* a coordinator is told one end, in an order it can rely on; it is told of a completion only
\* when its operation was completed in the context store, and a response that the store keeps
\* was told as completed, or its carrier broke: it was never told as failed or incomplete.
THEOREM HonestEnd == StreamSpec => []OneHonestEnd
<1>1. IInv => OneHonestEnd
  BY Zenon DEF IInv
<1> QED
  BY <1>1, Invariance, PTL
=============================================================================
