------------------------------- MODULE MCRelay -------------------------------
(***************************************************************************)
(* The scenarios of one WebSocket and of one HTTP response of the core.    *)
(***************************************************************************)
EXTENDS CoreResponses

Item(id, kind, body) == [id |-> id, kind |-> kind, body |-> body, open |-> FALSE]
msgA == Item("a", "message", "x")
msgB == Item("b", "message", "y")
toolT == Item("t", "tool", "z")
oddO == Item("o", "odd", "z")
bigG == Item("g", "message", "big")
anon == Item(None, "message", "x")
openA == [msgA EXCEPT !.open = TRUE]
compC == Item("c", "compaction", "z")

Ask(input) == [input |-> input, thread |-> "t1", props |-> "p", explicit |-> FALSE,
               rebuilt |-> FALSE, comp |-> FALSE, lead |-> 0, over |-> {}]

Create(c) == [type |-> "create", create |-> c, rid |-> None]
Interrupts(rid) == [type |-> "interrupt", create |-> None, rid |-> rid]
Plain(types) == {[type |-> t, create |-> None, rid |-> None] : t \in types}

Event(type) == [type |-> type, rid |-> None, idx |-> None, item |-> None, id |-> None, out |-> None,
                status |-> FALSE]
Added(i, item) == [Event("added") EXCEPT !.idx = i, !.item = item]
Done(i, item) == [Event("done") EXCEPT !.idx = i, !.item = item]
Delta(i, id) == [Event("delta") EXCEPT !.idx = i, !.id = id]
Gone(i, id) == [Event("interrupted") EXCEPT !.idx = i, !.id = id]
Completed(out) == [Event("completed") EXCEPT !.out = out]
Stopped(out) == [Event("incomplete") EXCEPT !.out = out, !.status = TRUE]
FinalError == [Event("error") EXCEPT !.status = TRUE]

Base == [profile |-> "oauth", auto |-> TRUE, faults |-> FALSE, rotates |-> FALSE, tight |-> FALSE,
         eager |-> FALSE, warm |-> FALSE, drops |-> FALSE, trailing |-> FALSE, frames |-> 1,
         answers |-> 3, messages |-> {}, events |-> {}]

\* Opening with a hidden setup, every refusal and every kind of early message.
Opening ==
    [Base EXCEPT !.faults = TRUE, !.rotates = TRUE, !.warm = TRUE, !.frames = 2, !.answers = 2,
                 !.messages = {Create([Ask(<<msgA, msgB>>) EXCEPT !.lead = 1]),
                               Create([Ask(<<msgA>>) EXCEPT !.over = {"setup", "full"}])}
                              \cup Plain({"control", "bad", "binary", "close", "ping"}),
                 !.events = {Event("created"), Event("metadata"), Completed(None), FinalError}]

\* Early controls up to their limit.
Early ==
    [Base EXCEPT !.warm = TRUE, !.frames = 4, !.answers = 1,
                 !.messages = {Create(Ask(<<msgA>>)), Create(Ask(<<oddO>>)), Interrupts(2)}
                              \cup Plain({"control"}),
                 !.events = {Event("created"), Event("failed")}]

\* Creates after a setup, and what makes a later one an addition or a full request.
Turns ==
    [Base EXCEPT !.warm = TRUE, !.frames = 2, !.answers = 3,
                 !.messages = {Create([Ask(<<msgA>>) EXCEPT !.lead = 1]),
                               Create([Ask(<<msgA, toolT, msgB>>) EXCEPT !.lead = 1]),
                               Create([Ask(<<msgA, toolT>>) EXCEPT !.props = "q"])},
                 !.events = {Event("created"), Done(0, toolT), Done(None, bigG), Completed(None)}]

\* A chain of additions under a tight budget.
Chain ==
    [Base EXCEPT !.tight = TRUE, !.frames = 3, !.answers = 3,
                 !.messages = {Create(Ask(<<msgA>>)), Create(Ask(<<msgA, toolT>>)),
                               Create([Ask(<<msgA, toolT, toolT, msgB>>) EXCEPT !.rebuilt = TRUE]),
                               Create([Ask(<<msgA, toolT, toolT, msgB>>) EXCEPT !.over = {"delta"}])},
                 !.events = {Event("created"), Done(0, toolT), Completed(None)}]

\* An addition to a response that had an event without a type.
Untyped ==
    [Base EXCEPT !.frames = 2, !.answers = 4,
                 !.messages = {Create(Ask(<<msgA>>)), Create(Ask(<<msgA, toolT>>))},
                 !.events = {Event("created"), Event("untyped"), Done(0, toolT), Completed(None)}]

\* One response, whose items begin, finish and appear in its output in every order.
Output ==
    [Base EXCEPT !.auto = FALSE, !.answers = 5,
                 !.messages = {Create(Ask(<<msgA>>)), Create([Ask(<<msgA>>) EXCEPT !.comp = TRUE])},
                 !.events = {Event("created"), Added(0, msgA), Delta(None, "b"), Done(0, anon),
                             Done(0, msgA), Done(1, msgB), Done(None, openA), Delta(1, "b"),
                             Completed(None), Completed(<<msgA>>), Completed(<<msgA, msgB>>),
                             Completed(<<compC>>)}]

\* An interruption of a response whose items are under way.
Interruption ==
    [Base EXCEPT !.auto = FALSE, !.frames = 2, !.answers = 5,
                 !.messages = {Create(Ask(<<msgA>>)), Interrupts(1)},
                 !.events = {Event("created"), Event("accepted"), Added(0, msgA), Done(0, msgA),
                             Gone(0, "a"), Stopped(<<>>), Stopped(<<msgA>>), Completed(<<msgA>>)}]

\* Interruptions that race with the end of the response they name, and with the next create.
Race ==
    [Base EXCEPT !.faults = TRUE, !.rotates = TRUE, !.frames = 4, !.answers = 3,
                 !.messages = {Create(Ask(<<msgA>>)), Interrupts(1), Interrupts(2)},
                 !.events = {Event("created"), Event("accepted"), Stopped(<<>>), Completed(None)}]

\* A stream that fails, with and without a footer, under a client that goes on.
Failure ==
    [Base EXCEPT !.auto = FALSE, !.faults = TRUE, !.drops = TRUE, !.frames = 3,
                 !.messages = {Create(Ask(<<msgA>>))} \cup Plain({"control"}),
                 !.events = {Event("created"), Event("error"), FinalError, Event("failed"),
                             Event("metadata"), Event("incomplete"), Completed(None)}]

\* An API key: the frames pass as they are, and the client does not wait.
Passing ==
    [Base EXCEPT !.profile = "passthrough", !.auto = FALSE, !.eager = TRUE, !.drops = TRUE,
                 !.faults = TRUE, !.frames = 3, !.answers = 4,
                 !.messages = {Create(Ask(<<msgA>>)), Interrupts(1)} \cup Plain({"control", "ping"}),
                 !.events = {Event("created"), Event("error"), Event("failed"), Done(0, msgA),
                             Completed(None)}]

\* A setup that fails with an error, whose footer comes late.
Trailing ==
    [Opening EXCEPT !.faults = FALSE, !.rotates = FALSE, !.frames = 1, !.trailing = TRUE,
                    !.messages = {Create([Ask(<<msgA, msgB>>) EXCEPT !.lead = 1])},
                    !.events = {Event("created"), Event("error"), Event("failed"), Completed(None)}]

MCWorlds == {Opening, Early, Turns, Chain, Untyped, Output, Interruption, Race, Failure, Passing, Base}
MCTrailing == {Trailing}

\* ------------------------------------------------------------- HTTP responses
Of(rid, ev) == [ev EXCEPT !.rid = rid]
Flex(ev) == [ev EXCEPT !.status = TRUE]

Get == [sse |-> TRUE, identity |-> TRUE, rejected |-> FALSE, comp |-> FALSE, faults |-> FALSE,
        limit |-> 5, endless |-> FALSE, slow |-> FALSE, chunk |-> 1, cuts |-> FALSE, events |-> {}]

\* What is not translated: a status that is no success, and an API key's response.
Untranslated == {[Get EXCEPT !.sse = s, !.identity = i, !.rejected = TRUE, !.faults = TRUE] :
                     s \in BOOLEAN, i \in BOOLEAN}

\* Items that begin, finish and appear in the final output in every order.
Items ==
    [Get EXCEPT !.events = {Of(1, Event("created")), Added(0, msgA), Delta(1, "b"), Done(0, msgA),
                            Done(None, msgB), Done(0, openA), Of(1, Completed(None)),
                            Of(1, Completed(<<msgA>>)), Of(1, Event("incomplete"))}]

\* Errors, with and without their end, from an upstream that goes on; reads of any size.
Errors ==
    [Get EXCEPT !.faults = TRUE, !.endless = TRUE, !.limit = 1, !.chunk = 2, !.cuts = TRUE,
                !.events = {Event("error"), Flex(Of(1, Event("error"))), Of(1, Event("failed")),
                            Flex(Of(1, Event("failed"))), Event("DONE"),
                            Of(1, Completed(None)), Event("oversize")}]

\* Events of two responses, and what is no event.
Foreign ==
    [Get EXCEPT !.limit = 4,
                !.events = {Of(1, Event("created")), Of(2, Event("created")), Of(2, Event("error")),
                            Of(1, Event("failed")), Event("DONE"), Event("garbage"),
                            Of(1, Completed(None))}]

\* An empty data line, which the two carriers read differently.
Blank == [Foreign EXCEPT !.limit = 3,
                         !.events = {Of(1, Event("created")), Event("blank"), Of(1, Completed(None))}]

\* A compaction: its item once, twice or not at all, and a response without an id.
Compacting ==
    [Get EXCEPT !.comp = TRUE, !.limit = 4,
                !.events = {Of(1, Event("created")), Event("created"), Done(0, compC), Done(None, compC),
                            Of(1, Completed(None)), Completed(None), Completed(<<compC>>),
                            Of(1, Completed(<<msgA>>)), Flex(Completed(None))}]

\* An upstream that sends signs of life, and time that passes.
Slow ==
    [Get EXCEPT !.slow = TRUE, !.endless = TRUE, !.limit = 1,
                !.events = {Event("metadata"), Event("heartbeat"), Delta(0, "a"), Event("error"),
                            Of(1, Completed(<<msgA>>))}]

\* One that never sends output.
Mute == [Slow EXCEPT !.events = {ev \in @ : ev.type # "delta"}]

InOne(r) == [r EXCEPT !.sse = FALSE]

MCRequests == Untranslated \cup {Items, InOne(Items), Errors, Foreign, InOne(Foreign), Blank,
                                 InOne(Blank), Compacting, InOne(Compacting), Slow,
                                 InOne(Slow), Mute, InOne(Mute)}
=============================================================================
